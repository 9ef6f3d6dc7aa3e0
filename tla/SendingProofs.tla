--------------------------- MODULE SendingProofs ---------------------------
(***************************************************************************)
(* Proofs about Sending and the address book it writes, for any sends,     *)
(* requests, limits, people and attachments.  The last part is about       *)
(* Compose, the dialog that asks for the sending.                          *)
(***************************************************************************)
EXTENDS Sending, Compose, SequenceTheorems, FiniteSetTheorems, TLAPS

Out(s) == \E delivery \in delivered : delivery.message.id = s
Copied(s) == \E i \in DOMAIN sentFolder : sentFolder[i].id = s

GoneOut == {"taken", "filing", "appending", "recording", "undrafting"}
InHand == GoneOut \union {"fetching"}

\* What is attached by now are the uploads and the first of what is forwarded;
\* the rest is still to be fetched.
FetchedSoFar(s) ==
    LET ask == send[s].ask
        wanted == Sorted(ask.indexes)
    IN  \E n \in 0..Len(wanted) :
            /\ send[s].indexes = SubSeq(wanted, n + 1, Len(wanted))
            /\ \A i \in 1..n : wanted[i] <= Len(Original)
            /\ send[s].files = ask.uploads \o [i \in 1..n |-> Original[wanted[i]]]
            /\ ~TooLarge(send[s].files)

\* The people still to be recorded are the last of the recipients.
Told(s) == Len(recipients(send[s].ask)) - Len(send[s].people)
PeopleLeft(s) ==
    /\ send[s].people # <<>> /\ Told(s) \in Nat
    /\ \A i \in 1..Len(send[s].people) :
           send[s].people[i] = recipients(send[s].ask)[Told(s) + i]

\* How a send stands: a message that is out, its copy, and its answer
Sendable(s) ==
    /\ send[s].at \in InHand => send[s].ask \in Requests /\ ~Unacceptable(send[s].ask)
    /\ send[s].at = "fetching" => FetchedSoFar(s)
    /\ send[s].at = "recording" => PeopleLeft(s)
GoesOut(s) ==
    /\ send[s].at \in {"no", "fetching"} => ~Out(s)
    /\ send[s].at \in GoneOut => Out(s)
    /\ Ended(s, {"bad request", "not found", "imap", "auth"}) => ~Out(s)
    /\ Ended(s, {"sent"}) => Out(s)
IsFiled(s) ==
    /\ Copied(s) => Out(s)
    /\ send[s].saved => Copied(s)
    /\ send[s].at = "taken" => (Copied(s) <=> host # "plain")
    /\ send[s].at = "filing" => host # "listed" /\ (Copied(s) <=> host = "files")
    /\ send[s].at = "appending" => ~Copied(s)

Stands(s) == Sendable(s) /\ GoesOut(s) /\ IsFiled(s)
EachSend == \A s \in Sends : Stands(s)

OneCopy == \A i, j \in DOMAIN sentFolder : sentFolder[i].id = sentFolder[j].id => i = j

DraftSent == ~draft => \E delivery \in delivered : send[delivery.message.id].ask.draft

\* A row counts what was recorded of the messages that were sent.
Recorded(email) ==
    {mention \in Mentions(email) :
        LET s == mention[1].message.id IN
        /\ send[s].at \notin {"taken", "filing", "appending"}
        /\ send[s].at = "recording" => mention[2] <= Told(s)}
Counted == \A email \in Emails : contacts[email] # NULL =>
               contacts[email].times <= Cardinality(Recorded(email))

IInv ==
    /\ TypeOK /\ IsFiniteSet(delivered)
    /\ EachSend /\ SentAsAsked /\ OneCopy /\ DraftSent /\ Counted

-----------------------------------------------------------------------------
(* Sequences *)

LEMMA ElementsOf ==
    ASSUME NEW S, NEW seq \in Seq(S)
    PROVE  /\ ToSet(seq) \subseteq S /\ IsFiniteSet(ToSet(seq))
           /\ IsFiniteSet(DOMAIN seq) /\ DOMAIN seq = 1..Len(seq) /\ Len(seq) \in Nat
<1>1. seq \in Surjection(1..Len(seq), ToSet(seq))
  BY DEF Surjection, ToSet
<1>2. IsFiniteSet(1..Len(seq))
  BY FS_Interval
<1> QED
  BY <1>1, <1>2, FS_Surjection DEF ToSet

\* The numbers before one of them, and its place among them
Below(S, n) == {k \in S : k < n}
Rank(S, n) == Cardinality(Below(S, n))

\* Every number of a finite set is in its place, and each once.
LEMMA AscendingIsSorted ==
    ASSUME NEW S \in SUBSET Nat, IsFiniteSet(S)
    PROVE  /\ Cardinality(S) \in Nat
           /\ Ascending(S) \in [1..Cardinality(S) -> S]
           /\ Len(Ascending(S)) = Cardinality(S) /\ ToSet(Ascending(S)) = S
           /\ \A i, j \in 1..Cardinality(S) : i < j <=> Ascending(S)[i] < Ascending(S)[j]
<1> DEFINE C == Cardinality(S)
<1>0. \A n \in S : n \in Nat
  OBVIOUS
<1>1. C \in Nat
  BY FS_CardinalityType
<1>2. ASSUME NEW n \in S
      PROVE  Rank(S, n) \in 0..(C - 1) /\ IsFiniteSet(Below(S, n))
  <2>1. IsFiniteSet(S \ {n}) /\ Cardinality(S \ {n}) = C - 1
    BY FS_RemoveElement
  <2>2. Below(S, n) \in SUBSET (S \ {n})
    BY <1>0 DEF Below
  <2>3. IsFiniteSet(Below(S, n)) /\ Rank(S, n) <= C - 1
    BY <2>1, <2>2, FS_Subset DEF Rank
  <2> QED
    BY <2>3, <1>1, FS_CardinalityType DEF Rank
<1>3. ASSUME NEW m \in S, NEW n \in S, m < n
      PROVE  Rank(S, m) < Rank(S, n)
  <2>1. m \in Nat /\ n \in Nat
    BY <1>0
  <2>2. (\A k \in S : k < m => k < n) /\ m < n /\ ~(m < m)
    BY <1>0, <1>3, <2>1
  <2>3. Below(S, m) \in SUBSET Below(S, n) /\ m \in Below(S, n) /\ m \notin Below(S, m)
    BY <2>2 DEF Below
  <2>4. Rank(S, m) <= Rank(S, n) /\ Rank(S, m) # Rank(S, n)
    BY <1>2, <2>3, FS_Subset DEF Rank
  <2> QED
    BY <1>2, <2>4
<1>4. ASSUME NEW m \in S, NEW n \in S
      PROVE  /\ m < n <=> Rank(S, m) < Rank(S, n)
             /\ Rank(S, m) = Rank(S, n) => m = n
  <2>1. m < n \/ n < m \/ (m = n /\ ~(m < n))
    BY <1>0
  <2>2. Rank(S, m) \in Nat /\ Rank(S, n) \in Nat
    BY <1>1, <1>2
  <2> QED
    BY <1>3, <2>1, <2>2
<1>5. \A i \in 1..C : \E n \in S : Rank(S, n) = i - 1
  <2> DEFINE f == [n \in S |-> Rank(S, n) + 1]
  <2>1. f \in [S -> 1..C]
    BY <1>1, <1>2
  <2>2. \A m, n \in S : f[m] = f[n] => m = n
    BY <1>2, <1>4
  <2>3. f \in Injection(S, 1..C)
    BY <2>1, <2>2 DEF Injection, IsInjective
  <2>4. IsFiniteSet(1..C) /\ Cardinality(1..C) = C
    BY <1>1, FS_Interval
  <2>5. f \in Surjection(S, 1..C)
    BY <2>3, <2>4, FS_Injection
  <2>6. \A i \in 1..C : \E n \in S : f[n] = i
    BY <2>5 DEF Surjection
  <2> QED
    BY <1>1, <1>2, <2>6
<1> DEFINE pick(i) == CHOOSE n \in S : Rank(S, n) = i - 1
<1>6. Ascending(S) = [i \in 1..C |-> pick(i)]
  BY DEF Ascending, Rank, Below
<1>7. \A i \in 1..C : pick(i) \in S /\ Rank(S, pick(i)) = i - 1
  BY <1>5
<1> HIDE DEF C, pick
<1>8. /\ Ascending(S) \in [1..C -> S] /\ Len(Ascending(S)) = C
      /\ \A i \in 1..C : Rank(S, Ascending(S)[i]) = i - 1
  BY <1>1, <1>6, <1>7
<1>9. \A n \in S : \E i \in 1..C : Ascending(S)[i] = n
  <2> SUFFICES ASSUME NEW n \in S
               PROVE  \E i \in 1..C : Ascending(S)[i] = n
    OBVIOUS
  <2>1. Rank(S, n) + 1 \in 1..C /\ (Rank(S, n) + 1) - 1 = Rank(S, n)
    BY <1>1, <1>2 DEF C
  <2>2. PICK m \in S : m = Ascending(S)[Rank(S, n) + 1]
    BY <1>8, <2>1
  <2>3. Rank(S, m) = Rank(S, n)
    BY <1>8, <2>1, <2>2
  <2> QED
    BY <1>4, <2>1, <2>2, <2>3
<1>10. ToSet(Ascending(S)) = S
  BY <1>8, <1>9 DEF ToSet
<1>11. ASSUME NEW i \in 1..C, NEW j \in 1..C
       PROVE  i < j <=> Ascending(S)[i] < Ascending(S)[j]
  <2>1. PICK m \in S, n \in S : m = Ascending(S)[i] /\ n = Ascending(S)[j]
    BY <1>8
  <2>2. m < n <=> i - 1 < j - 1
    BY <1>4, <1>8, <2>1
  <2> QED
    BY <1>1, <2>1, <2>2
<1> QED
  BY <1>1, <1>8, <1>10, <1>11 DEF C

LEMMA SortedIndexes ==
    ASSUME NEW indexes \in Seq(Nat)
    PROVE  /\ Sorted(indexes) \in Seq(Nat)
           /\ ToSet(Sorted(indexes)) = ToSet(indexes)
<1>1. ToSet(indexes) \in SUBSET Nat /\ IsFiniteSet(ToSet(indexes))
  BY ElementsOf
<1>2. /\ Cardinality(ToSet(indexes)) \in Nat
      /\ Ascending(ToSet(indexes)) \in [1..Cardinality(ToSet(indexes)) -> ToSet(indexes)]
      /\ ToSet(Ascending(ToSet(indexes))) = ToSet(indexes)
  BY <1>1, AscendingIsSorted
<1> QED
  BY <1>1, <1>2 DEF Sorted

-----------------------------------------------------------------------------
(* What is asked for *)

LEMMA Asked ==
    ASSUME NEW ask \in Requests
    PROVE  /\ ask.to \in Seq(Person) /\ ask.cc \in Seq(Person) /\ ask.bcc \in Seq(Person)
           /\ ask.to \o ask.cc \in Seq(Person) /\ recipients(ask) \in Seq(Person)
           /\ Len(recipients(ask)) \in Nat
           /\ ask.uploads \in Seq(Nat \union {NULL}) /\ ask.draft \in BOOLEAN
           /\ Sorted(ask.indexes) \in Seq(Nat) /\ Len(Sorted(ask.indexes)) \in Nat
           /\ ToSet(Sorted(ask.indexes)) = ToSet(ask.indexes)
           /\ \A i \in 1..Len(Sorted(ask.indexes)) : Sorted(ask.indexes)[i] \in Nat \ {0}
<1>1. ask \in Request
  BY SendingAssumption
<1>2. /\ ask.to \in Seq(Person) /\ ask.cc \in Seq(Person) /\ ask.bcc \in Seq(Person)
      /\ ask.uploads \in Seq(Nat \union {NULL}) /\ ask.draft \in BOOLEAN
      /\ ask.indexes \in Seq(Nat \ {0})
  BY <1>1 DEF Request
<1>3. ask.to \o ask.cc \in Seq(Person)
  BY <1>2, ConcatProperties
<1>4. recipients(ask) \in Seq(Person)
  BY <1>2, <1>3, ConcatProperties DEF recipients
<1>5. ask.indexes \in Seq(Nat)
  BY <1>2, SeqMonotonic
<1>6. /\ Sorted(ask.indexes) \in Seq(Nat) /\ Len(Sorted(ask.indexes)) \in Nat
      /\ ToSet(Sorted(ask.indexes)) = ToSet(ask.indexes)
  BY <1>5, SortedIndexes
<1>7. \A i \in 1..Len(Sorted(ask.indexes)) : Sorted(ask.indexes)[i] \in Nat \ {0}
  <2>1. ToSet(ask.indexes) \subseteq Nat \ {0}
    BY <1>2, ElementsOf
  <2>2. \A i \in 1..Len(Sorted(ask.indexes)) :
            Sorted(ask.indexes)[i] \in ToSet(Sorted(ask.indexes))
    BY <1>6, LenProperties DEF ToSet
  <2> QED
    BY <1>6, <2>1, <2>2
<1> QED
  BY <1>2, <1>3, <1>4, <1>6, <1>7

LEMMA NoneMissing ==
    ASSUME NEW files \in Seq(Nat \union {NULL}), NULL \notin ToSet(files)
    PROVE  files \in Seq(Nat)
<1>1. Len(files) \in Nat /\ files \in [1..Len(files) -> Nat \union {NULL}]
  BY LenProperties
<1>2. \A i \in 1..Len(files) : files[i] \in ToSet(files)
  BY <1>1 DEF ToSet
<1>3. files \in [1..Len(files) -> Nat]
  BY <1>1, <1>2
<1> QED
  BY <1>1, <1>3, SeqDef

LEMMA Acceptable ==
    ASSUME NEW ask \in Requests, ~Unacceptable(ask)
    PROVE  /\ ask.uploads \in Seq(Nat) /\ ~TooLarge(ask.uploads)
           /\ Len(recipients(ask)) > 0 /\ recipients(ask) # <<>>
<1>1. /\ NULL \notin ToSet(ask.uploads) /\ ~TooLarge(ask.uploads)
      /\ Len(recipients(ask)) \in 1..MaxRecipients
  BY DEF Unacceptable
<1>2. ask.uploads \in Seq(Nat)
  BY <1>1, Asked, NoneMissing
<1> QED
  BY <1>1, <1>2, SendingAssumption, Asked

-----------------------------------------------------------------------------
(* The steps of a send *)

Steps == {"no", "fetching", "taken", "filing", "appending", "recording",
          "undrafting", "end"}
Answers == Answer \union {NULL}

\* A step of a send is its own.
Becomes(s, q) ==
    /\ send' \in [Sends -> Send] /\ send'[s] = q
    /\ \A t \in Sends : t # s => send'[t] = send[t]

LEMMA SendBecomes ==
    ASSUME TypeOK, NEW s \in Sends, NEW q \in Send, send' = [send EXCEPT ![s] = q]
    PROVE  Becomes(s, q)
BY DEF Becomes, TypeOK

LEMMA SendTyped ==
    ASSUME TypeOK, NEW s \in Sends
    PROVE  /\ send[s] \in Send /\ send[s].at \in Steps /\ send[s].saved \in BOOLEAN
           /\ send[s].ask \in Requests \union {NULL} /\ send[s].answer \in Answers
           /\ send[s].indexes \in Seq(Nat) /\ send[s].files \in Seq(Nat)
           /\ send[s].people \in Seq(Person)
BY DEF TypeOK, Send, Steps, Answers

\* The rest of a send is as it was when ...
LEMMA EndOf ==
    ASSUME TypeOK, NEW s \in Sends, NEW answer \in Answers, End(s, answer)
    PROVE  LET q == [send[s] EXCEPT !.at = "end", !.answer = answer] IN
           /\ Becomes(s, q) /\ q.at = "end" /\ q.answer = answer
           /\ q.ask = send[s].ask /\ q.saved = send[s].saved
<1> DEFINE q == [send[s] EXCEPT !.at = "end", !.answer = answer]
<1>1. send' = [send EXCEPT ![s] = q]
  BY DEF End
<1>2. /\ q \in Send /\ q.at = "end" /\ q.answer = answer
      /\ q.ask = send[s].ask /\ q.saved = send[s].saved
  BY SendTyped DEF Send, Answers
<1> HIDE DEF q
<1>3. Becomes(s, q)
  BY <1>1, <1>2, SendBecomes
<1> QED
  BY <1>2, <1>3 DEF q

LEMMA FiledOf ==
    ASSUME TypeOK, NEW s \in Sends, send[s].ask \in Requests, NEW filed \in BOOLEAN,
           Filed(s, filed)
    PROVE  LET q == [send[s] EXCEPT !.at = "recording", !.saved = filed,
                                    !.people = recipients(send[s].ask)]
           IN  /\ Becomes(s, q) /\ q.at = "recording" /\ q.saved = filed
               /\ q.people = recipients(send[s].ask)
               /\ q.ask = send[s].ask /\ q.answer = send[s].answer
<1> DEFINE q == [send[s] EXCEPT !.at = "recording", !.saved = filed,
                                !.people = recipients(send[s].ask)]
<1>1. send' = [send EXCEPT ![s] = q]
  BY DEF Filed
<1>2. recipients(send[s].ask) \in Seq(Person)
  BY Asked
<1>3. /\ q \in Send /\ q.at = "recording" /\ q.saved = filed
      /\ q.people = recipients(send[s].ask)
      /\ q.ask = send[s].ask /\ q.answer = send[s].answer
  BY <1>2, SendTyped DEF Send
<1> HIDE DEF q
<1>4. Becomes(s, q)
  BY <1>1, <1>3, SendBecomes
<1> QED
  BY <1>3, <1>4 DEF q

LEMMA GoesTo ==
    ASSUME TypeOK, NEW s \in Sends, NEW at \in Steps, send' = [send EXCEPT ![s].at = at]
    PROVE  LET q == [send[s] EXCEPT !.at = at] IN
           /\ Becomes(s, q) /\ q.at = at /\ q.ask = send[s].ask /\ q.files = send[s].files
           /\ q.saved = send[s].saved /\ q.answer = send[s].answer
<1> DEFINE q == [send[s] EXCEPT !.at = at]
<1>1. send' = [send EXCEPT ![s] = q]
  OBVIOUS
<1>2. /\ q \in Send /\ q.at = at /\ q.ask = send[s].ask /\ q.files = send[s].files
      /\ q.saved = send[s].saved /\ q.answer = send[s].answer
  BY SendTyped DEF Send, Steps
<1> HIDE DEF q
<1>3. Becomes(s, q)
  BY <1>1, <1>2, SendBecomes
<1> QED
  BY <1>2, <1>3 DEF q

\* A message is made of what was asked for and fetched.
LEMMA MessageTyped ==
    ASSUME TypeOK, NEW s \in Sends, send[s].ask \in Requests, NEW keep_bcc \in BOOLEAN
    PROVE  /\ message(s, keep_bcc) \in Message /\ message(s, keep_bcc).id = s
           /\ message(s, keep_bcc).files = send[s].files
           /\ ~keep_bcc => message(s, keep_bcc).shown = send[s].ask.to \o send[s].ask.cc
<1> DEFINE ask == send[s].ask
           bcc == IF keep_bcc THEN ask.bcc ELSE <<>>
           shown == (ask.to \o ask.cc) \o bcc
<1>1. ask.to \o ask.cc \in Seq(Person) /\ bcc \in Seq(Person)
  BY Asked, EmptySeq
<1>2. shown \in Seq(Person)
  BY <1>1, ConcatProperties
<1>3. ~keep_bcc => shown = ask.to \o ask.cc
  BY <1>1, ConcatEmptySeq
<1>4. message(s, keep_bcc) = [id |-> s, shown |-> shown, files |-> send[s].files]
  BY DEF message
<1>5. send[s].files \in Seq(Nat)
  BY SendTyped
<1> HIDE DEF shown
<1>6. message(s, keep_bcc) \in Message /\ message(s, keep_bcc).id = s
      /\ message(s, keep_bcc).files = send[s].files /\ message(s, keep_bcc).shown = shown
  BY <1>2, <1>4, <1>5 DEF Message
<1> QED
  BY <1>3, <1>6

-----------------------------------------------------------------------------
(* The address book *)

LEMMA WithSentWrites ==
    ASSUME BookTypeOK, NEW person \in Person
    PROVE  /\ WithSent(person) \in [Emails -> Entry \union {NULL}]
           /\ \A email \in Emails : email # person.email =>
                  WithSent(person)[email] = contacts[email]
           /\ LET email == person.email
                  row == WithSent(person)[email]
              IN  /\ row \in Entry
                  /\ contacts[email] = NULL => row.times = 1
                  /\ contacts[email] # NULL =>
                         /\ row.times = contacts[email].times + 1
                         /\ row.locked = contacts[email].locked
                         /\ contacts[email].locked => row.name = contacts[email].name
<1> DEFINE email == person.email
           row == contacts[email]
           new == [name |-> person.name, locked |-> FALSE, times |-> 1]
           name == IF row.locked \/ person.name = NULL THEN row.name ELSE person.name
           times == row.times + 1
           more == [row EXCEPT !.times = times, !.name = name]
<1>1. email \in Emails /\ person.name \in Names \union {NULL}
  BY DEF Person
<1>2. row \in Entry \union {NULL}
  BY <1>1 DEF BookTypeOK
<1>3. new \in Entry /\ new.times = 1
  BY <1>1 DEF Entry
<1>4. row # NULL => /\ more \in Entry /\ more.times = row.times + 1 /\ more.locked = row.locked
                    /\ row.locked => more.name = row.name
  <2> SUFFICES ASSUME row # NULL
               PROVE  /\ more \in Entry /\ more.times = row.times + 1
                      /\ more.locked = row.locked /\ (row.locked => more.name = row.name)
    OBVIOUS
  <2>1. row \in Entry
    BY <1>2
  <2>2. name \in Names \union {NULL} /\ (row.locked => name = row.name)
    BY <1>1, <2>1 DEF Entry
  <2> HIDE DEF name, row
  <2>3. times \in Nat
    BY <2>1 DEF Entry
  <2> HIDE DEF times
  <2>4. /\ more \in Entry /\ more.times = times /\ more.name = name
        /\ more.locked = row.locked
    BY <2>1, <2>2, <2>3 DEF Entry
  <2> HIDE DEF more
  <2> QED
    BY <2>2, <2>4 DEF times
<1>5. WithSent(person) = [contacts EXCEPT ![email] = IF row = NULL THEN new ELSE more]
  BY DEF WithSent
<1> HIDE DEF new, more
<1>6. IF row = NULL THEN WithSent(person)[email] = new ELSE WithSent(person)[email] = more
  BY <1>1, <1>5 DEF BookTypeOK
<1> HIDE DEF row
<1>7. /\ WithSent(person) \in [Emails -> Entry \union {NULL}]
      /\ \A e \in Emails : e # email => WithSent(person)[e] = contacts[e]
  BY <1>1, <1>2, <1>3, <1>4, <1>5 DEF BookTypeOK
<1> QED
  BY <1>1, <1>2, <1>3, <1>4, <1>6, <1>7 DEF row

LEMMA WithSeenWrites ==
    ASSUME BookTypeOK, NEW person \in Person
    PROVE  /\ WithSeen(person) \in [Emails -> Entry \union {NULL}]
           /\ \A email \in Emails : email # person.email =>
                  WithSeen(person)[email] = contacts[email]
           /\ LET email == person.email
                  row == WithSeen(person)[email]
              IN  /\ row \in Entry
                  /\ contacts[email] = NULL => row.times = 0
                  /\ contacts[email] # NULL =>
                         /\ row.times = contacts[email].times
                         /\ row.locked = contacts[email].locked
                         /\ contacts[email].locked \/ contacts[email].name # NULL =>
                                row.name = contacts[email].name
<1> DEFINE email == person.email
           row == contacts[email]
           new == [name |-> person.name, locked |-> FALSE, times |-> 0]
           named == [row EXCEPT !.name = IF row.locked \/ @ # NULL THEN @ ELSE person.name]
<1>1. email \in Emails /\ person.name \in Names \union {NULL}
  BY DEF Person
<1>2. row \in Entry \union {NULL}
  BY <1>1 DEF BookTypeOK
<1>3. new \in Entry /\ new.times = 0
  BY <1>1 DEF Entry
<1>4. row # NULL => /\ named \in Entry /\ named.times = row.times /\ named.locked = row.locked
                    /\ row.locked \/ row.name # NULL => named.name = row.name
  BY <1>1, <1>2 DEF Entry
<1>5. WithSeen(person) = [contacts EXCEPT ![email] = IF row = NULL THEN new ELSE named]
  BY DEF WithSeen
<1> HIDE DEF new, named
<1>6. IF row = NULL THEN WithSeen(person)[email] = new ELSE WithSeen(person)[email] = named
  BY <1>1, <1>5 DEF BookTypeOK
<1> HIDE DEF row
<1>7. /\ WithSeen(person) \in [Emails -> Entry \union {NULL}]
      /\ \A e \in Emails : e # email => WithSeen(person)[e] = contacts[e]
  BY <1>1, <1>2, <1>3, <1>4, <1>5 DEF BookTypeOK
<1> QED
  BY <1>1, <1>2, <1>3, <1>4, <1>6, <1>7 DEF row

\* Those to record are people of the message that is opened.
LEMMA OpenTyped ==
    ASSUME BookTypeOK, NEW people \in Mails, OpenEmail(people)
    PROVE  seen' \in Seq(Person)
<1> DEFINE places == {i \in DOMAIN people : IsPerson(people[i])}
           persons == Ascending(places)
           n == IF Len(persons) > MaxPeople THEN MaxPeople ELSE Len(persons)
<1>1. people \in Seq(Person) /\ MaxPeople \in Nat
  BY BookAssumption
<1>2. places \in SUBSET Nat /\ places \in SUBSET DOMAIN people
  BY <1>1
<1>3. IsFiniteSet(places)
  BY <1>1, <1>2, ElementsOf, FS_Subset
<1> HIDE DEF places
<1>4. persons \in [1..Len(persons) -> places] /\ Len(persons) \in Nat
  BY <1>2, <1>3, AscendingIsSorted
<1>5. seen' = [i \in 1..n |-> people[persons[i]]]
  BY DEF OpenEmail, places
<1> HIDE DEF persons
<1>6. n \in Nat /\ n <= Len(persons)
  BY <1>1, <1>4
<1> HIDE DEF n
<1>7. \A i \in 1..n : people[persons[i]] \in Person
  <2> SUFFICES ASSUME NEW i \in 1..n
               PROVE  people[persons[i]] \in Person
    OBVIOUS
  <2>1. i \in 1..Len(persons)
    BY <1>4, <1>6
  <2>2. persons[i] \in 1..Len(people)
    BY <1>1, <1>2, <1>4, <2>1, ElementsOf
  <2> QED
    BY <1>1, <2>2, ElementOfSeq
<1> QED
  BY <1>5, <1>6, <1>7

LEMMA BookTyped ==
    ASSUME BookTypeOK, BookNext
    PROVE  BookTypeOK'
<1>1. ASSUME NEW people \in Mails, OpenEmail(people)
      PROVE  BookTypeOK'
  BY <1>1, OpenTyped DEF OpenEmail, BookTypeOK
<1>2. CASE RecordSeen
  <2>1. Head(seen) \in Person /\ Tail(seen) \in Seq(Person)
    BY <1>2, HeadTailProperties DEF RecordSeen, BookTypeOK
  <2> QED
    BY <1>2, <2>1, WithSeenWrites DEF RecordSeen, BookTypeOK
<1>3. CASE RecordSeenFails
  BY <1>3 DEF RecordSeenFails, BookTypeOK
<1>4. ASSUME NEW person \in Entered, SaveContact(person)
      PROVE  BookTypeOK'
  <2>1. person \in Person /\ person.email \in Emails
    BY BookAssumption DEF Person
  <2> DEFINE row == [name |-> person.name, locked |-> TRUE,
                     times |-> IF contacts[person.email] = NULL THEN 0
                               ELSE contacts[person.email].times]
  <2>2. row \in Entry
    BY <2>1 DEF Entry, Person, BookTypeOK
  <2>3. contacts' = [contacts EXCEPT ![person.email] = row] /\ UNCHANGED seen
    BY <1>4 DEF SaveContact
  <2> HIDE DEF row
  <2> QED
    BY <2>1, <2>2, <2>3 DEF BookTypeOK
<1>5. ASSUME NEW email \in Emails, DeleteContact(email)
      PROVE  BookTypeOK'
  BY <1>5 DEF DeleteContact, BookTypeOK
<1> QED
  BY <1>1, <1>2, <1>3, <1>4, <1>5 DEF BookNext

\* Nothing but the user's writing to someone counts.
LEMMA BookWrites ==
    ASSUME BookTypeOK, BookNext, NEW email \in Emails, contacts'[email] # NULL
    PROVE  \/ contacts'[email] = contacts[email]
           \/ /\ contacts'[email].times = IF contacts[email] = NULL THEN 0
                                          ELSE contacts[email].times
              /\ \/ \E person \in Entered : SaveContact(person)
                 \/ contacts[email] = NULL
                 \/ contacts[email].locked \/ contacts[email].name # NULL =>
                        contacts'[email].name = contacts[email].name
<1>1. CASE \/ \E people \in Mails : OpenEmail(people)
           \/ RecordSeenFails
  BY <1>1 DEF OpenEmail, RecordSeenFails
<1>2. CASE RecordSeen
  <2>1. Head(seen) \in Person /\ contacts' = WithSeen(Head(seen))
    BY <1>2, HeadTailProperties DEF RecordSeen, BookTypeOK
  <2> QED
    BY <2>1, WithSeenWrites
<1>3. ASSUME NEW person \in Entered, SaveContact(person)
      PROVE  \/ contacts'[email] = contacts[email]
             \/ contacts'[email].times = IF contacts[email] = NULL THEN 0
                                         ELSE contacts[email].times
  <2>1. person.email \in Emails
    BY BookAssumption DEF Person
  <2> QED
    BY <1>3, <2>1 DEF SaveContact, BookTypeOK
<1>4. ASSUME NEW other \in Emails, DeleteContact(other)
      PROVE  contacts'[email] = contacts[email]
  BY <1>4 DEF DeleteContact, BookTypeOK
<1> QED
  BY <1>1, <1>2, <1>3, <1>4 DEF BookNext

-----------------------------------------------------------------------------
(* How a send stands after each of its steps *)

\* What a step of a send leaves alone, and that it files one copy at most
Keeps(s) ==
    /\ send' \in [Sends -> Send] /\ \A t \in Sends : t # s => send'[t] = send[t]
    /\ send[s].at = "no" \/ send'[s].ask = send[s].ask
    /\ \/ delivered' = delivered
       \/ Deliver(s) /\ \E delivery \in Delivery :
              delivery.message.id = s /\ delivered' = delivered \union {delivery}
    /\ \/ sentFolder' = sentFolder
       \/ ~Copied(s) /\ \E copy \in Message :
              copy.id = s /\ sentFolder' = Append(sentFolder, copy)
    /\ UNCHANGED <<host, seen>> /\ {original', draft'} \subseteq BOOLEAN

LEMMA Quietly ==
    ASSUME UNCHANGED <<delivered, sentFolder>>
    PROVE  \A s : (Out(s)' <=> Out(s)) /\ (Copied(s)' <=> Copied(s))
BY DEF Out, Copied

LEMMA Copying ==
    ASSUME sentFolder \in Seq(Message), NEW copy \in Message,
           sentFolder' = Append(sentFolder, copy)
    PROVE  /\ sentFolder' \in Seq(Message) /\ DOMAIN sentFolder' = 1..Len(sentFolder) + 1
           /\ DOMAIN sentFolder = 1..Len(sentFolder) /\ Len(sentFolder) \in Nat
           /\ \A i \in DOMAIN sentFolder : sentFolder'[i] = sentFolder[i]
           /\ sentFolder'[Len(sentFolder) + 1] = copy
           /\ \A s : Copied(s)' <=> Copied(s) \/ s = copy.id
<1>1. /\ sentFolder' \in Seq(Message) /\ DOMAIN sentFolder' = 1..Len(sentFolder) + 1
      /\ DOMAIN sentFolder = 1..Len(sentFolder) /\ Len(sentFolder) \in Nat
      /\ \A i \in DOMAIN sentFolder : sentFolder'[i] = sentFolder[i]
      /\ sentFolder'[Len(sentFolder) + 1] = copy
  BY AppendProperties, LenProperties
<1>2. \A s : Copied(s)' <=> Copied(s) \/ s = copy.id
  <2>1. \A i : i \in DOMAIN sentFolder' <=> i \in DOMAIN sentFolder \/ i = Len(sentFolder) + 1
    BY <1>1
  <2> QED
    BY <1>1, <2>1 DEF Copied
<1> QED
  BY <1>1, <1>2

LEMMA AskStands ==
    ASSUME TypeOK, NEW s \in Sends, Stands(s), NEW ask \in Requests, Ask(s, ask)
    PROVE  Stands(s)' /\ Keeps(s)
<1>1. At(s, "no") /\ UNCHANGED <<book, host, original, draft, mailServer>>
  BY DEF Ask
<1>2. (Out(s)' <=> Out(s)) /\ (Copied(s)' <=> Copied(s))
  BY <1>1, Quietly DEF mailServer
<1>3. CASE Unacceptable(ask)
  <2> DEFINE q == [send[s] EXCEPT !.at = "end", !.ask = ask, !.answer = "bad request"]
  <2>1. send' = [send EXCEPT ![s] = q]
    BY <1>3 DEF Ask
  <2>2. /\ q \in Send /\ q.at = "end" /\ q.answer = "bad request"
        /\ q.saved = send[s].saved
    BY SendTyped DEF Send, Answer
  <2> HIDE DEF q
  <2>3. Becomes(s, q)
    BY <2>1, <2>2, SendBecomes
  <2> QED
    BY <1>1, <1>2, <2>2, <2>3
    DEF Stands, Sendable, GoesOut, IsFiled, Keeps, Becomes, At, Ended, GoneOut, InHand,
        TypeOK, book, mailServer
<1>4. CASE ~Unacceptable(ask)
  <2> DEFINE wanted == Sorted(ask.indexes)
             q == [send[s] EXCEPT !.at = "fetching", !.ask = ask, !.indexes = wanted,
                                  !.files = ask.uploads]
  <2>1. send' = [send EXCEPT ![s] = q]
    BY <1>4 DEF Ask
  <2>2. /\ ask.uploads \in Seq(Nat) /\ ~TooLarge(ask.uploads)
        /\ wanted \in Seq(Nat) /\ Len(wanted) \in Nat
    BY <1>4, Asked, Acceptable
  <2> HIDE DEF wanted
  <2>3. /\ q \in Send /\ q.at = "fetching" /\ q.ask = ask /\ q.indexes = wanted
        /\ q.files = ask.uploads /\ q.saved = send[s].saved
    BY <2>2, SendTyped DEF Send
  <2> HIDE DEF q
  <2>4. Becomes(s, q)
    BY <2>1, <2>3, SendBecomes
  <2>5. FetchedSoFar(s)'
    <3>1. wanted = SubSeq(wanted, 0 + 1, Len(wanted))
      BY <2>2, SubSeqFull
    <3>2. ask.uploads = ask.uploads \o [i \in 1..0 |-> Original[wanted[i]]]
      <4>1. [i \in 1..0 |-> Original[wanted[i]]] = <<>>
        OBVIOUS
      <4> QED
        BY <2>2, <4>1, ConcatEmptySeq
    <3>3. /\ send'[s].ask = ask /\ send'[s].indexes = wanted /\ send'[s].files = ask.uploads
      BY <2>3, <2>4 DEF Becomes
    <3>4. 0 \in 0..Len(wanted) /\ \A i \in 1..0 : wanted[i] <= Len(Original)
      BY <2>2
    <3> QED
      BY <2>2, <3>1, <3>2, <3>3, <3>4 DEF FetchedSoFar, wanted
  <2> QED
    BY <1>1, <1>2, <1>4, <2>3, <2>4, <2>5
    DEF Stands, Sendable, GoesOut, IsFiled, Keeps, Becomes, At, Ended, GoneOut, InHand,
        TypeOK, book, mailServer
<1> QED
  BY <1>3, <1>4

\* A step that ends a send without more ado
LEMMA EndStands ==
    ASSUME TypeOK, NEW s \in Sends, Stands(s), NEW answer \in Answers, End(s, answer),
           UNCHANGED <<book, host, original, delivered, sentFolder>>, draft' \in BOOLEAN,
           answer \in {"bad request", "not found", "imap", "auth"} => At(s, "fetching"),
           answer = "sent" => send[s].at \in GoneOut
    PROVE  Stands(s)' /\ Keeps(s)
<1> DEFINE q == [send[s] EXCEPT !.at = "end", !.answer = answer]
<1>1. /\ Becomes(s, q) /\ q.at = "end" /\ q.answer = answer
      /\ q.ask = send[s].ask /\ q.saved = send[s].saved
  BY EndOf
<1> HIDE DEF q
<1>2. (Out(s)' <=> Out(s)) /\ (Copied(s)' <=> Copied(s))
  BY Quietly
<1> QED
  BY <1>1, <1>2
  DEF Stands, Sendable, GoesOut, IsFiled, Keeps, Becomes, At, Ended, GoneOut, InHand,
      TypeOK, book

\* One more attachment
LEMMA FilesGrow ==
    ASSUME NEW uploads \in Seq(Nat), NEW some \in Seq(Nat), NEW more \in Seq(Nat),
           Len(more) = Len(some) + 1, \A i \in 1..Len(some) : more[i] = some[i]
    PROVE  Append(uploads \o some, more[Len(some) + 1]) = uploads \o more
<1> DEFINE n == Len(some)
           last == more[n + 1]
<1>1. n \in Nat /\ last \in Nat
  OBVIOUS
<1> HIDE DEF last
<1>2. more = Append(some, last)
  <2>1. /\ Append(some, last) \in Seq(Nat) /\ Len(Append(some, last)) = n + 1
        /\ \A i \in 1..n : Append(some, last)[i] = some[i]
        /\ Append(some, last)[n + 1] = last
    BY <1>1, AppendProperties
  <2>2. \A i \in 1..n + 1 : i \in 1..n \/ i = n + 1
    BY <1>1
  <2> HIDE DEF n
  <2>3. \A i \in 1..n + 1 : more[i] = Append(some, last)[i]
    BY <2>1, <2>2 DEF last, n
  <2> QED
    BY <2>1, <2>3, SeqEqual DEF n
<1> DEFINE one == <<last>>
<1>3. more = some \o one
  BY <1>1, <1>2, AppendIsConcat
<1>4. uploads \o some \in Seq(Nat) /\ one \in Seq(Nat)
  BY <1>1, ConcatProperties
<1>5. Append(uploads \o some, last) = (uploads \o some) \o one
  BY <1>1, <1>4, AppendIsConcat
<1> HIDE DEF one
<1>6. (uploads \o some) \o one = uploads \o (some \o one)
  BY <1>4, SMTT(30)
<1> QED
  BY <1>3, <1>5, <1>6 DEF last

LEMMA FetchStands ==
    ASSUME TypeOK, NEW s \in Sends, Stands(s), Fetch(s)
    PROVE  Stands(s)' /\ Keeps(s)
<1> DEFINE ask == send[s].ask
           wanted == Sorted(ask.indexes)
           files == Append(send[s].files, Original[Head(send[s].indexes)])
<1>1. /\ At(s, "fetching") /\ send[s].indexes # <<>>
      /\ Head(send[s].indexes) <= Len(Original)
      /\ UNCHANGED <<book, host, original, draft, delivered, sentFolder>>
  BY DEF Fetch, Fetching, Found, mailServer
<1>2. ask \in Requests /\ ~Unacceptable(ask)
  BY <1>1 DEF Stands, Sendable, At, InHand
<1>3. PICK n \in 0..Len(wanted) :
          /\ send[s].indexes = SubSeq(wanted, n + 1, Len(wanted))
          /\ \A i \in 1..n : wanted[i] <= Len(Original)
          /\ send[s].files = ask.uploads \o [i \in 1..n |-> Original[wanted[i]]]
  BY <1>1 DEF Stands, Sendable, At, FetchedSoFar
<1>4. /\ wanted \in Seq(Nat) /\ Len(wanted) \in Nat
      /\ \A i \in 1..Len(wanted) : wanted[i] \in Nat \ {0}
      /\ ask.uploads \in Seq(Nat)
  BY <1>2, Asked, Acceptable
<1> HIDE DEF wanted
<1>5. n + 1 \in 1..Len(wanted)
  <2>1. n = Len(wanted) => SubSeq(wanted, n + 1, Len(wanted)) = <<>>
    BY <1>4, SubSeqEmpty
  <2> QED
    BY <1>1, <1>3, <1>4, <2>1, SMTT(20)
<1>6. /\ Head(send[s].indexes) = wanted[n + 1]
      /\ Tail(send[s].indexes) = SubSeq(wanted, n + 2, Len(wanted))
  <2>1. Len(wanted) \in n + 1..Len(wanted)
    BY <1>4, <1>5
  <2>2. Tail(send[s].indexes) = SubSeq(wanted, n + 1 + 1, Len(wanted))
        /\ Head(send[s].indexes) = wanted[n + 1]
    BY <1>3, <1>4, <1>5, <2>1, HeadTailOfSubSeq
  <2> QED
    BY <2>2
<1>7. \A i \in 1..n + 1 : wanted[i] <= Len(Original) /\ Original[wanted[i]] \in Nat
  <2> SUFFICES ASSUME NEW i \in 1..n + 1
               PROVE  wanted[i] <= Len(Original) /\ Original[wanted[i]] \in Nat
    OBVIOUS
  <2>1. i \in 1..n \/ i = n + 1
    BY <1>5
  <2>2. wanted[i] \in Nat \ {0}
    BY <1>4, <1>5, <2>1
  <2>3. wanted[n + 1] <= Len(Original)
    BY <1>1, <1>6
  <2>4. wanted[i] <= Len(Original)
    BY <1>3, <2>1, <2>3
  <2> QED
    BY <2>2, <2>4, SendingAssumption, ElementOfSeq
<1>8. files = ask.uploads \o [i \in 1..n + 1 |-> Original[wanted[i]]] /\ files \in Seq(Nat)
  <2> DEFINE some == [i \in 1..n |-> Original[wanted[i]]]
             more == [i \in 1..n + 1 |-> Original[wanted[i]]]
  <2>1. n \in Nat
    BY <1>4
  <2>2. /\ some \in Seq(Nat) /\ Len(some) = n /\ more \in Seq(Nat) /\ Len(more) = n + 1
        /\ \A i \in 1..n : more[i] = some[i]
    BY <1>7, <2>1
  <2>3. Original[Head(send[s].indexes)] = more[n + 1] /\ more[n + 1] \in Nat
    BY <1>6, <1>7, <2>1
  <2>4. send[s].files = ask.uploads \o some
    BY <1>3
  <2> HIDE DEF some, more
  <2> DEFINE uploads == ask.uploads
  <2>5. Append(uploads \o some, more[n + 1]) = uploads \o more
    <3>1. uploads \in Seq(Nat)
      BY <1>4
    <3> HIDE DEF uploads
    <3> QED
      BY <2>2, <3>1, FilesGrow
  <2>6. files \in Seq(Nat)
    BY <2>3, SendTyped, AppendProperties
  <2>7. files = uploads \o more
    BY <2>3, <2>4, <2>5
  <2> QED
    BY <2>6, <2>7 DEF more
<1> HIDE DEF files
<1>9. CASE TooLarge(files)
  BY <1>1, <1>9, EndStands DEF Fetch, Answers, Answer, files, book, TypeOK
<1>10. CASE ~TooLarge(files)
  <2> DEFINE q == [send[s] EXCEPT !.files = files, !.indexes = Tail(send[s].indexes)]
  <2>1. send' = [send EXCEPT ![s] = q]
    BY <1>10 DEF Fetch, files
  <2>2. Tail(send[s].indexes) \in Seq(Nat)
    BY <1>1, SendTyped, HeadTailProperties
  <2>3. /\ q \in Send /\ q.at = send[s].at /\ q.ask = ask /\ q.files = files
        /\ q.indexes = Tail(send[s].indexes)
        /\ q.saved = send[s].saved /\ q.answer = send[s].answer
    BY <1>8, <2>2, SendTyped DEF Send
  <2> HIDE DEF q
  <2>4. Becomes(s, q)
    BY <2>1, <2>3, SendBecomes
  <2>5. FetchedSoFar(s)'
    <3>1. n + 1 \in 0..Len(wanted) /\ n + 1 + 1 = n + 2
      BY <1>5
    <3>2. send'[s].ask = ask /\ send'[s].files = files /\ send'[s].indexes = Tail(send[s].indexes)
      BY <2>3, <2>4 DEF Becomes
    <3> QED
      BY <1>6, <1>7, <1>8, <1>10, <3>1, <3>2 DEF FetchedSoFar, wanted
  <2>6. (Out(s)' <=> Out(s)) /\ (Copied(s)' <=> Copied(s))
    BY <1>1, Quietly
  <2> QED
    BY <1>1, <1>2, <2>3, <2>4, <2>5, <2>6
    DEF Stands, Sendable, GoesOut, IsFiled, Keeps, Becomes, At, Ended, GoneOut, InHand,
        TypeOK, book
<1> QED
  BY <1>9, <1>10

LEMMA RefusalStands ==
    ASSUME TypeOK, NEW s \in Sends, Stands(s), FetchFails(s) \/ Refuse(s)
    PROVE  Stands(s)' /\ Keeps(s)
<1>1. At(s, "fetching") /\ UNCHANGED <<book, host, original, draft, delivered, sentFolder>>
  BY DEF FetchFails, Fetching, Refuse, Mailing, mailServer
<1>2. \E answer \in {"bad request", "not found", "imap", "auth"} : End(s, answer)
  BY DEF FetchFails, Refuse
<1> QED
  BY <1>1, <1>2, EndStands DEF Answers, Answer, TypeOK

\* The connection is lost, or the browser is gone: the answer is open.
LEMMA OpenStands ==
    ASSUME TypeOK, NEW s \in Sends, Stands(s), SmtpFails(s) \/ Drop(s)
    PROVE  Stands(s)' /\ Keeps(s)
<1>1. UNCHANGED <<book, host, original, draft, delivered, sentFolder>>
  BY DEF SmtpFails, Drop, mailServer
<1>2. \E answer \in {"sending failed", NULL} : End(s, answer)
  BY DEF SmtpFails, Drop
<1> QED
  BY <1>1, <1>2, EndStands, SendingAssumption DEF Answers, Answer, TypeOK

LEMMA RemoveDraftStands ==
    ASSUME TypeOK, NEW s \in Sends, Stands(s), RemoveDraft(s)
    PROVE  Stands(s)' /\ Keeps(s)
<1>1. /\ At(s, "undrafting") /\ End(s, "sent") /\ draft' \in BOOLEAN
      /\ UNCHANGED <<book, host, original, delivered, sentFolder>>
  BY DEF RemoveDraft, mailServer, TypeOK
<1> QED
  BY <1>1, EndStands DEF Answers, Answer, At, GoneOut

\* The message is the server's: it is out, and filed where the server files it.
LEMMA DeliverStands ==
    ASSUME TypeOK, NEW s \in Sends, Stands(s), Deliver(s)
    PROVE  Stands(s)' /\ Keeps(s)
<1> DEFINE ask == send[s].ask
           mail == message(s, FALSE)
           delivery == [message |-> mail, envelope |-> recipients(ask)]
           q == [send[s] EXCEPT !.at = "taken"]
<1>1. /\ At(s, "fetching") /\ delivered' = delivered \union {delivery}
      /\ send' = [send EXCEPT ![s].at = "taken"]
      /\ sentFolder' = IF host = "plain" THEN sentFolder ELSE Append(sentFolder, mail)
      /\ UNCHANGED <<book, host, original, draft>>
  BY DEF Deliver, Mailing
<1>2. ask \in Requests /\ ~Unacceptable(ask)
  BY <1>1 DEF Stands, Sendable, At, InHand
<1>3. mail \in Message /\ mail.id = s
  BY <1>2, MessageTyped
<1>4. delivery \in Delivery /\ delivery.message.id = s
  <2> HIDE DEF mail
  <2> QED
    BY <1>2, <1>3, Asked DEF Delivery
<1>5. /\ Becomes(s, q) /\ q.at = "taken" /\ q.ask = ask /\ q.saved = send[s].saved
      /\ q.answer = send[s].answer
  BY <1>1, GoesTo DEF Steps
<1> HIDE DEF q, mail, delivery
<1>6. Out(s)' /\ ~Out(s)
  BY <1>1, <1>4 DEF Out, Stands, GoesOut, At
<1>7. ~Copied(s)
  BY <1>6 DEF Stands, IsFiled
<1>8. Copied(s)' <=> host # "plain"
  <2>1. CASE host = "plain"
    BY <1>1, <1>7, <2>1 DEF Copied
  <2>2. CASE host # "plain"
    BY <1>1, <1>3, <2>2, Copying DEF TypeOK
  <2> QED
    BY <2>1, <2>2
<1>9. Keeps(s)
  <2>1. \/ sentFolder' = sentFolder
        \/ ~Copied(s) /\ \E copy \in Message :
               copy.id = s /\ sentFolder' = Append(sentFolder, copy)
    BY <1>1, <1>3, <1>7
  <2>2. \E d \in Delivery : d.message.id = s /\ delivered' = delivered \union {d}
    BY <1>1, <1>4
  <2> QED
    BY <1>1, <1>5, <2>1, <2>2 DEF Keeps, Becomes, TypeOK, book
<1> QED
  BY <1>1, <1>2, <1>5, <1>6, <1>7, <1>8, <1>9
  DEF Stands, Sendable, GoesOut, IsFiled, Becomes, At, Ended, GoneOut, InHand

-----------------------------------------------------------------------------
(* ... once the message is out *)

\* A send to which nothing but its own course happens
LEMMA MovesStand ==
    ASSUME TypeOK, NEW s \in Sends, Stands(s), NEW q \in Send, Becomes(s, q),
           send[s].at \in GoneOut, q.at \in GoneOut \ {"taken", "recording"},
           q.ask = send[s].ask, q.saved = send[s].saved,
           q.at = "filing" => host # "listed" /\ (Copied(s) <=> host = "files"),
           q.at = "appending" => ~Copied(s),
           UNCHANGED <<host, original, draft, seen, delivered, sentFolder>>
    PROVE  Stands(s)' /\ Keeps(s)
<1>1. (Out(s)' <=> Out(s)) /\ (Copied(s)' <=> Copied(s))
  BY Quietly
<1> QED
  BY <1>1
  DEF Stands, Sendable, GoesOut, IsFiled, Keeps, Becomes, Ended, At, GoneOut, InHand, TypeOK

\* The receipt says whether there is a copy.
LEMMA FiledStands ==
    ASSUME TypeOK, NEW s \in Sends, Stands(s), send[s].at \in GoneOut,
           NEW filed \in BOOLEAN, Filed(s, filed), filed => Copied(s)',
           Copied(s) => Copied(s)',
           \/ sentFolder' = sentFolder
           \/ ~Copied(s) /\ \E copy \in Message :
                  copy.id = s /\ sentFolder' = Append(sentFolder, copy),
           UNCHANGED <<book, host, original, draft, delivered>>
    PROVE  Stands(s)' /\ Keeps(s)
<1> DEFINE ask == send[s].ask
           q == [send[s] EXCEPT !.at = "recording", !.saved = filed,
                                !.people = recipients(ask)]
<1>1. ask \in Requests /\ ~Unacceptable(ask)
  BY DEF Stands, Sendable, InHand
<1>2. /\ Becomes(s, q) /\ q.at = "recording" /\ q.saved = filed
      /\ q.people = recipients(ask) /\ q.ask = ask /\ q.answer = send[s].answer
  BY <1>1, FiledOf
<1> HIDE DEF q
<1>3. Out(s) /\ Out(s)'
  BY DEF Stands, GoesOut, Out
<1>4. PeopleLeft(s)'
  <2>1. recipients(ask) # <<>> /\ Len(recipients(ask)) \in Nat
    BY <1>1, Asked, Acceptable
  <2>2. send'[s].people = recipients(ask) /\ send'[s].ask = ask
    BY <1>2 DEF Becomes
  <2>3. Told(s)' = 0
    BY <2>1, <2>2 DEF Told
  <2> QED
    BY <2>1, <2>2, <2>3 DEF PeopleLeft
<1> QED
  BY <1>1, <1>2, <1>3, <1>4
  DEF Stands, Sendable, GoesOut, IsFiled, Keeps, Becomes, Ended, At, GoneOut, InHand,
      TypeOK, book

LEMMA SmtpAnswersStands ==
    ASSUME TypeOK, NEW s \in Sends, Stands(s), SmtpAnswers(s)
    PROVE  Stands(s)' /\ Keeps(s)
<1>1. /\ At(s, "taken") /\ UNCHANGED <<book, host, original, draft, delivered, sentFolder>>
      /\ Copied(s) <=> host # "plain"
  BY DEF SmtpAnswers, mailServer, Stands, IsFiled, At
<1>2. Copied(s)' <=> Copied(s)
  BY <1>1, Quietly
<1>3. CASE host = "listed"
  BY <1>1, <1>2, <1>3, FiledStands DEF SmtpAnswers, server_files_sent_mail, At, GoneOut
<1>4. CASE host # "listed"
  <2> DEFINE q == [send[s] EXCEPT !.at = "filing"]
  <2>1. send' = [send EXCEPT ![s].at = "filing"]
    BY <1>4 DEF SmtpAnswers, server_files_sent_mail
  <2>2. Becomes(s, q) /\ q.at = "filing" /\ q.ask = send[s].ask /\ q.saved = send[s].saved
    BY <2>1, GoesTo DEF Steps
  <2>3. host \in {"files", "plain"}
    BY <1>4 DEF TypeOK
  <2> HIDE DEF q
  <2> QED
    BY <1>1, <1>4, <2>2, <2>3, MovesStand DEF At, GoneOut, book, Becomes
<1> QED
  BY <1>3, <1>4

LEMMA FindCopyStands ==
    ASSUME TypeOK, NEW s \in Sends, Stands(s), FindCopy(s)
    PROVE  Stands(s)' /\ Keeps(s)
<1>1. /\ At(s, "filing") /\ UNCHANGED <<book, host, original, draft, delivered, sentFolder>>
      /\ Copied(s) <=> \E copy \in ToSet(sentFolder) : copy.id = s
  BY DEF FindCopy, mailServer, Copied, ToSet
<1>2. Copied(s)' <=> Copied(s)
  BY <1>1, Quietly
<1>3. CASE Copied(s)
  BY <1>1, <1>2, <1>3, FiledStands DEF FindCopy, At, GoneOut
<1>4. CASE ~Copied(s)
  <2> DEFINE q == [send[s] EXCEPT !.at = "appending"]
  <2>1. send' = [send EXCEPT ![s].at = "appending"]
    BY <1>1, <1>4 DEF FindCopy
  <2>2. Becomes(s, q) /\ q.at = "appending" /\ q.ask = send[s].ask /\ q.saved = send[s].saved
    BY <2>1, GoesTo DEF Steps
  <2> HIDE DEF q
  <2> QED
    BY <1>1, <1>4, <2>2, MovesStand DEF At, GoneOut, book, Becomes
<1> QED
  BY <1>3, <1>4

\* A copy of the program's, if there is none
LEMMA AppendStands ==
    ASSUME TypeOK, NEW s \in Sends, Stands(s), AppendCopy(s) \/ FilingFails(s)
    PROVE  Stands(s)' /\ Keeps(s)
<1>1. /\ send[s].at \in {"filing", "appending"}
      /\ UNCHANGED <<book, host, original, draft, delivered>>
      /\ At(s, "appending") => ~Copied(s)
  BY DEF AppendCopy, FilingFails, At, Stands, IsFiled
<1>2. send[s].ask \in Requests
  BY <1>1 DEF Stands, Sendable, InHand, GoneOut
<1>3. message(s, TRUE) \in Message /\ message(s, TRUE).id = s
  BY <1>2, MessageTyped
<1>4. ASSUME At(s, "appending"), sentFolder' = Append(sentFolder, message(s, TRUE))
      PROVE  /\ Copied(s)'
             /\ ~Copied(s) /\ \E copy \in Message :
                    copy.id = s /\ sentFolder' = Append(sentFolder, copy)
  BY <1>1, <1>3, <1>4, Copying DEF TypeOK
<1>5. CASE AppendCopy(s)
  BY <1>1, <1>4, <1>5, FiledStands DEF AppendCopy, GoneOut
<1>6. CASE FilingFails(s) /\ UNCHANGED sentFolder
  BY <1>1, <1>6, FiledStands DEF FilingFails, GoneOut, Copied
<1>7. CASE /\ FilingFails(s) /\ At(s, "appending")
           /\ sentFolder' = Append(sentFolder, message(s, TRUE))
  BY <1>1, <1>4, <1>7, FiledStands DEF FilingFails, GoneOut
<1> QED
  BY <1>5, <1>6, <1>7 DEF FilingFails

LEMMA RecordSentStands ==
    ASSUME TypeOK, NEW s \in Sends, Stands(s), RecordSent(s)
    PROVE  /\ Stands(s)' /\ Keeps(s)
           /\ Head(send[s].people) = recipients(send[s].ask)[Told(s) + 1]
           /\ Head(send[s].people) \in Person /\ Told(s) + 1 \in 1..Len(recipients(send[s].ask))
           /\ send'[s].at \in {"recording", "undrafting"}
           /\ send'[s].at = "recording" => Told(s)' = Told(s) + 1
<1> DEFINE ask == send[s].ask
           people == send[s].people
           at == IF Len(people) = 1 THEN "undrafting" ELSE "recording"
           q == [send[s] EXCEPT !.people = Tail(people), !.at = at]
<1>1. /\ send[s].at = "recording"
      /\ UNCHANGED <<seen, host, original, draft, delivered, sentFolder>>
  BY DEF RecordSent, mailServer, At
<1>2. ask \in Requests /\ ~Unacceptable(ask) /\ PeopleLeft(s)
  BY <1>1 DEF Stands, Sendable, InHand, GoneOut
<1>3. /\ people \in Seq(Person) /\ people # <<>> /\ Told(s) \in Nat
      /\ Len(people) \in Nat \ {0} /\ Len(recipients(ask)) \in Nat
      /\ Head(people) \in Person /\ Tail(people) \in Seq(Person)
      /\ Len(Tail(people)) = Len(people) - 1
      /\ \A i \in 1..Len(Tail(people)) : Tail(people)[i] = people[i + 1]
      /\ Head(people) = people[1]
  BY <1>2, SendTyped, Asked, HeadTailProperties, EmptySeq DEF PeopleLeft
<1>4. send' = [send EXCEPT ![s] = q]
  BY <1>1 DEF RecordSent
<1>5. /\ q \in Send /\ q.at = at /\ q.people = Tail(people) /\ q.ask = ask
      /\ q.saved = send[s].saved /\ q.answer = send[s].answer
  BY <1>3, SendTyped DEF Send
<1> HIDE DEF q
<1>6. Becomes(s, q)
  BY <1>4, <1>5, SendBecomes
<1>7. send'[s].ask = ask /\ send'[s].people = Tail(people) /\ send'[s].at = at
  BY <1>5, <1>6 DEF Becomes
<1>8. Head(people) = recipients(ask)[Told(s) + 1] /\ Told(s) + 1 \in 1..Len(recipients(ask))
  <2>1. Told(s) = Len(recipients(ask)) - Len(people)
    BY DEF Told
  <2>2. Told(s) + 1 \in 1..Len(recipients(ask)) /\ 1 \in 1..Len(people)
    BY <1>3, <2>1
  <2>3. people[1] = recipients(ask)[Told(s) + 1]
    BY <1>2, <2>2 DEF PeopleLeft
  <2> QED
    BY <1>3, <2>2, <2>3
<1>9. Told(s)' = Told(s) + 1
  <2>1. Told(s) = Len(recipients(ask)) - Len(people)
    BY DEF Told
  <2>2. Told(s)' = Len(recipients(ask)) - Len(Tail(people))
    BY <1>7 DEF Told
  <2> HIDE DEF ask, people
  <2> QED
    BY <1>3, <2>1, <2>2
<1>10. at = "recording" => PeopleLeft(s)'
  <2> SUFFICES ASSUME at = "recording"
               PROVE  PeopleLeft(s)'
    OBVIOUS
  <2>1. Tail(people) # <<>>
    <3>1. Len(people) # 1
      OBVIOUS
    <3>2. Len(Tail(people)) # 0
      BY <1>3, <3>1
    <3>3. Len(<<>>) = 0
      OBVIOUS
    <3> QED
      BY <3>2, <3>3
  <2>2. ASSUME NEW i \in 1..Len(Tail(people))
        PROVE  Tail(people)[i] = recipients(ask)[Told(s) + 1 + i]
    <3>1. i + 1 \in 1..Len(people) /\ Told(s) + (i + 1) = Told(s) + 1 + i
      BY <1>3
    <3>2. people[i + 1] = recipients(ask)[Told(s) + (i + 1)]
      BY <1>2, <3>1 DEF PeopleLeft
    <3> QED
      BY <1>3, <3>1, <3>2
  <2> QED
    BY <1>3, <1>7, <1>9, <2>1, <2>2 DEF PeopleLeft
<1>11. (Out(s)' <=> Out(s)) /\ (Copied(s)' <=> Copied(s))
  BY <1>1, Quietly
<1>12. at \in {"recording", "undrafting"}
  OBVIOUS
<1> HIDE DEF at
<1>13. Stands(s)' /\ Keeps(s)
  BY <1>1, <1>2, <1>5, <1>6, <1>7, <1>10, <1>11, <1>12
  DEF Stands, Sendable, GoesOut, IsFiled, Keeps, Becomes, Ended, At, GoneOut, InHand, TypeOK
<1> QED
  BY <1>3, <1>7, <1>8, <1>9, <1>12, <1>13

LEMMA RecordSentFailsStands ==
    ASSUME TypeOK, NEW s \in Sends, Stands(s), RecordSentFails(s)
    PROVE  Stands(s)' /\ Keeps(s)
<1> DEFINE q == [send[s] EXCEPT !.people = <<>>, !.at = "undrafting"]
<1>1. /\ At(s, "recording") /\ send' = [send EXCEPT ![s] = q]
      /\ UNCHANGED <<book, host, original, draft, delivered, sentFolder>>
  BY DEF RecordSentFails, mailServer
<1>2. <<>> \in Seq(Person)
  BY EmptySeq
<1>3. q \in Send /\ q.at = "undrafting" /\ q.ask = send[s].ask /\ q.saved = send[s].saved
  BY <1>2, SendTyped DEF Send
<1> HIDE DEF q
<1>4. Becomes(s, q)
  BY <1>1, <1>3, SendBecomes
<1> QED
  BY <1>1, <1>3, <1>4, MovesStand DEF At, GoneOut, book

-----------------------------------------------------------------------------
(* The invariant, part by part *)

LEMMA StepStands ==
    ASSUME TypeOK, NEW s \in Sends, Stands(s), SendNext(s)
    PROVE  Stands(s)' /\ Keeps(s)
BY AskStands, FetchStands, RefusalStands, DeliverStands, OpenStands, SmtpAnswersStands,
   FindCopyStands, AppendStands, RecordSentStands, RecordSentFailsStands, RemoveDraftStands
DEF SendNext

\* Only recording writes to the address book.
LEMMA BookLeft ==
    ASSUME NEW s \in Sends, SendNext(s)
    PROVE  UNCHANGED book \/ (RecordSent(s) /\ contacts' = WithSent(Head(send[s].people)))
BY DEF SendNext, Ask, Fetch, FetchFails, Refuse, Deliver, SmtpFails, SmtpAnswers, FindCopy,
       AppendCopy, FilingFails, RecordSent, RecordSentFails, RemoveDraft, Drop

LEMMA TypeStep ==
    ASSUME TypeOK, EachSend, [Next]_vars
    PROVE  TypeOK'
<1>1. ASSUME NEW s \in Sends, SendNext(s)
      PROVE  TypeOK'
  <2>1. Stands(s) /\ Keeps(s)
    BY <1>1, StepStands DEF EachSend
  <2>2. send' \in [Sends -> Send] /\ host' = host /\ {original', draft'} \subseteq BOOLEAN
    BY <2>1 DEF Keeps
  <2>3. \A delivery \in delivered' : delivery \in Delivery
    BY <2>1 DEF Keeps, TypeOK
  <2>4. sentFolder' \in Seq(Message)
    BY <2>1, AppendProperties DEF Keeps, TypeOK
  <2>5. BookTypeOK'
    <3>1. CASE UNCHANGED book
      BY <3>1 DEF book, BookTypeOK, TypeOK
    <3>2. CASE RecordSent(s) /\ contacts' = WithSent(Head(send[s].people))
      <4>1. Head(send[s].people) \in Person /\ BookTypeOK
        BY <2>1, <3>2, RecordSentStands DEF TypeOK
      <4> QED
        BY <2>1, <3>2, <4>1, WithSentWrites DEF Keeps, BookTypeOK
    <3> QED
      BY <1>1, <3>1, <3>2, BookLeft
  <2> QED
    BY <2>2, <2>3, <2>4, <2>5 DEF TypeOK
<1>2. CASE MoveOriginal
  BY <1>2 DEF MoveOriginal, TypeOK, BookTypeOK, book, mailServer
<1>3. CASE BookNext /\ UNCHANGED <<host, original, draft, send, mailServer>>
  BY <1>3, BookTyped DEF TypeOK, mailServer
<1>4. CASE UNCHANGED vars
  BY <1>4 DEF vars, TypeOK, BookTypeOK, book
<1> QED
  BY <1>1, <1>2, <1>3, <1>4 DEF Next

\* A step of one send leaves the others as they stand.
LEMMA OthersStand ==
    ASSUME TypeOK, NEW s \in Sends, Keeps(s), NEW t \in Sends, t # s, Stands(t)
    PROVE  Stands(t)'
<1>1. send'[t] = send[t] /\ host' = host
  BY DEF Keeps
<1>2. Out(t)' <=> Out(t)
  BY DEF Keeps, Out
<1>3. Copied(t)' <=> Copied(t)
  <2>1. CASE sentFolder' = sentFolder
    BY <2>1 DEF Copied
  <2>2. CASE \E copy \in Message : copy.id = s /\ sentFolder' = Append(sentFolder, copy)
    BY <2>2, Copying DEF TypeOK
  <2> QED
    BY <2>1, <2>2 DEF Keeps
<1> QED
  BY <1>1, <1>2, <1>3
  DEF Stands, Sendable, GoesOut, IsFiled, FetchedSoFar, PeopleLeft, Told, Ended, At

LEMMA EachSendStep ==
    ASSUME TypeOK, EachSend, [Next]_vars
    PROVE  EachSend'
<1>1. ASSUME NEW s \in Sends, SendNext(s), NEW t \in Sends
      PROVE  Stands(t)'
  BY <1>1, StepStands, OthersStand DEF EachSend
<1>2. ASSUME UNCHANGED <<host, send, delivered, sentFolder>>
      PROVE  EachSend'
  <2>1. ASSUME NEW t \in Sends, Stands(t)
        PROVE  Stands(t)'
    <3>1. (Out(t)' <=> Out(t)) /\ (Copied(t)' <=> Copied(t))
      BY <1>2, Quietly
    <3>2. Sendable(t)'
      BY <1>2, <2>1 DEF Stands, Sendable, FetchedSoFar, PeopleLeft, Told, At
    <3>3. GoesOut(t)'
      BY <1>2, <2>1, <3>1 DEF Stands, GoesOut, Ended, At
    <3>4. IsFiled(t)'
      BY <1>2, <2>1, <3>1 DEF Stands, IsFiled, At
    <3> QED
      BY <3>2, <3>3, <3>4 DEF Stands
  <2> QED
    BY <2>1 DEF EachSend
<1>3. CASE \/ MoveOriginal \/ UNCHANGED vars
           \/ (BookNext /\ UNCHANGED <<host, original, draft, send, mailServer>>)
  BY <1>2, <1>3 DEF MoveOriginal, mailServer, vars
<1> QED
  BY <1>1, <1>3 DEF Next, EachSend

\* What was asked for is not asked again of a message that is out.
LEMMA AskedOnce ==
    ASSUME TypeOK, EachSend, NEW s \in Sends, Keeps(s), NEW delivery \in delivered
    PROVE  /\ delivery.message.id \in Sends
           /\ send'[delivery.message.id].ask = send[delivery.message.id].ask
<1> DEFINE t == delivery.message.id
<1>1. t \in Sends
  BY DEF TypeOK, Delivery, Message
<1>2. send[t].at # "no"
  BY <1>1 DEF EachSend, Stands, GoesOut, Out
<1> QED
  BY <1>1, <1>2 DEF Keeps

AsAsked(delivery) ==
    LET ask == send[delivery.message.id].ask
        files == delivery.message.files
    IN  /\ delivery.envelope = recipients(ask)
        /\ ToSet(delivery.message.shown) = ToSet(ask.to \o ask.cc)
        /\ \A index \in ToSet(ask.indexes) : index <= Len(Original)
        /\ files = ask.uploads \o [i \in 1..Len(Sorted(ask.indexes)) |->
                                      Original[Sorted(ask.indexes)[i]]]
        /\ ~TooLarge(files)

\* What is delivered is what was asked for, everything having been fetched.
LEMMA DeliveredAsAsked ==
    ASSUME TypeOK, NEW s \in Sends, Stands(s), Deliver(s)
    PROVE  \E delivery : delivered' = delivered \union {delivery} /\ AsAsked(delivery)'
<1> DEFINE ask == send[s].ask
           wanted == Sorted(ask.indexes)
           mail == message(s, FALSE)
<1>1. At(s, "fetching") /\ send[s].indexes = <<>>
  BY DEF Deliver, Mailing
<1>2. ask \in Requests
  BY <1>1 DEF Stands, Sendable, At, InHand
<1>3. send'[s].ask = ask
  BY <1>1, DeliverStands DEF Keeps, At
<1>4. /\ mail.id = s /\ mail.files = send[s].files
      /\ mail.shown = ask.to \o ask.cc
  BY <1>2, MessageTyped
<1>5. /\ wanted \in Seq(Nat) /\ Len(wanted) \in Nat
      /\ ToSet(wanted) = ToSet(ask.indexes)
  BY <1>2, Asked
<1>6. /\ \A i \in 1..Len(wanted) : wanted[i] <= Len(Original)
      /\ send[s].files = ask.uploads \o [i \in 1..Len(wanted) |-> Original[wanted[i]]]
      /\ ~TooLarge(send[s].files)
  <2>1. PICK n \in 0..Len(wanted) :
            /\ send[s].indexes = SubSeq(wanted, n + 1, Len(wanted))
            /\ \A i \in 1..n : wanted[i] <= Len(Original)
            /\ send[s].files = ask.uploads \o [i \in 1..n |-> Original[wanted[i]]]
            /\ ~TooLarge(send[s].files)
    BY <1>1 DEF Stands, Sendable, At, FetchedSoFar
  <2> HIDE DEF wanted
  <2>2. n = Len(wanted)
    <3> SUFFICES ASSUME n # Len(wanted) PROVE FALSE
      OBVIOUS
    <3>1. n + 1 \in Int /\ Len(wanted) \in Int /\ n + 1 <= Len(wanted)
      BY <1>5
    <3>2. \A i \in n + 1..Len(wanted) : wanted[i] \in Nat
      BY <1>5
    <3>3. Len(SubSeq(wanted, n + 1, Len(wanted))) = Len(wanted) - (n + 1) + 1
      BY <3>1, <3>2, SubSeqProperties
    <3>4. Len(<<>>) = 0
      OBVIOUS
    <3> QED
      BY <1>1, <1>5, <2>1, <3>1, <3>3, <3>4
  <2> QED
    BY <2>1, <2>2
<1>7. \A index \in ToSet(ask.indexes) : index <= Len(Original)
  <2>1. \A index \in ToSet(wanted) : \E i \in 1..Len(wanted) : index = wanted[i]
    BY <1>5, LenProperties DEF ToSet
  <2> QED
    BY <1>5, <1>6, <2>1
<1>8. PICK delivery : delivery = [message |-> mail, envelope |-> recipients(ask)]
  OBVIOUS
<1>9. delivered' = delivered \union {delivery}
  BY <1>8 DEF Deliver
<1> HIDE DEF mail
<1>10. delivery.message = mail /\ delivery.envelope = recipients(ask)
  BY <1>8
<1>11. delivery.message.id = s /\ delivery.message.files = send[s].files
       /\ delivery.message.shown = ask.to \o ask.cc
  BY <1>4, <1>10
<1>12. AsAsked(delivery)'
  BY <1>3, <1>6, <1>7, <1>10, <1>11 DEF AsAsked
<1> QED
  BY <1>9, <1>12

\* The messages that are out, and what was asked of them, stay.
LEMMA SentAsAskedStep ==
    ASSUME TypeOK, EachSend, SentAsAsked, [Next]_vars
    PROVE  SentAsAsked'
<1>1. \A delivery \in delivered : AsAsked(delivery)
  BY DEF SentAsAsked, AsAsked
<1>2. SUFFICES \A delivery \in delivered' : AsAsked(delivery)'
  BY DEF SentAsAsked, AsAsked
<1>3. ASSUME NEW s \in Sends, SendNext(s), NEW delivery \in delivered'
      PROVE  AsAsked(delivery)'
  <2>1. Stands(s) /\ Keeps(s)
    BY <1>3, StepStands DEF EachSend
  <2>2. CASE delivery \in delivered
    <3>1. send'[delivery.message.id].ask = send[delivery.message.id].ask
      BY <2>1, <2>2, AskedOnce
    <3> QED
      BY <1>1, <2>2, <3>1 DEF AsAsked
  <2>3. CASE delivery \notin delivered
    <3>1. Deliver(s)
      BY <1>3, <2>1, <2>3 DEF Keeps
    <3> QED
      BY <2>1, <2>3, <3>1, DeliveredAsAsked
  <2> QED
    BY <2>2, <2>3
<1>4. CASE UNCHANGED <<send, delivered>>
  BY <1>1, <1>4 DEF AsAsked
<1>5. CASE \/ MoveOriginal \/ UNCHANGED vars
           \/ (BookNext /\ UNCHANGED <<host, original, draft, send, mailServer>>)
  BY <1>4, <1>5 DEF MoveOriginal, mailServer, vars
<1> QED
  BY <1>3, <1>5 DEF Next

\* The draft goes with a message that is out.
LEMMA DraftSentStep ==
    ASSUME TypeOK, EachSend, DraftSent, [Next]_vars
    PROVE  DraftSent'
<1>1. ASSUME NEW s \in Sends, SendNext(s), ~draft'
      PROVE  \E delivery \in delivered' : send'[delivery.message.id].ask.draft
  <2>1. Stands(s) /\ Keeps(s)
    BY <1>1, StepStands DEF EachSend
  <2>2. \A delivery \in delivered :
            /\ delivery \in delivered'
            /\ send'[delivery.message.id].ask = send[delivery.message.id].ask
    BY <2>1, AskedOnce DEF Keeps
  <2>3. CASE ~draft
    BY <2>2, <2>3 DEF DraftSent
  <2>4. CASE draft
    <3>1. RemoveDraft(s)
      BY <1>1, <2>4
      DEF SendNext, Ask, Fetch, FetchFails, Refuse, Deliver, SmtpFails, SmtpAnswers, FindCopy,
          AppendCopy, FilingFails, RecordSent, RecordSentFails, Drop
    <3>2. send[s].ask.draft /\ At(s, "undrafting")
      BY <1>1, <2>4, <3>1 DEF RemoveDraft
    <3>3. Out(s)
      BY <2>1, <3>2 DEF Stands, GoesOut, GoneOut, At
    <3> QED
      BY <2>2, <3>2, <3>3 DEF Out
  <2> QED
    BY <2>3, <2>4
<1>2. CASE \/ MoveOriginal \/ UNCHANGED vars
           \/ (BookNext /\ UNCHANGED <<host, original, draft, send, mailServer>>)
  BY <1>2 DEF MoveOriginal, mailServer, vars, DraftSent
<1> QED
  BY <1>1, <1>2 DEF Next, DraftSent

\* Whoever files a copy found none.
LEMMA OneCopyStep ==
    ASSUME TypeOK, EachSend, OneCopy, [Next]_vars
    PROVE  OneCopy'
<1>1. CASE sentFolder' = sentFolder
  BY <1>1 DEF OneCopy
<1>2. ASSUME NEW s \in Sends, SendNext(s)
      PROVE  OneCopy'
  <2>1. Keeps(s)
    BY <1>2, StepStands DEF EachSend
  <2>2. CASE ~Copied(s) /\ \E copy \in Message :
                 copy.id = s /\ sentFolder' = Append(sentFolder, copy)
    <3> SUFFICES ASSUME NEW i \in DOMAIN sentFolder', NEW j \in DOMAIN sentFolder',
                        sentFolder'[i].id = sentFolder'[j].id
                 PROVE  i = j
      BY DEF OneCopy
    <3>1. PICK copy \in Message : copy.id = s /\ sentFolder' = Append(sentFolder, copy)
      BY <2>2
    <3> DEFINE n == Len(sentFolder)
    <3>2. /\ n \in Nat /\ DOMAIN sentFolder = 1..n /\ DOMAIN sentFolder' = 1..n + 1
          /\ \A k \in DOMAIN sentFolder : sentFolder'[k] = sentFolder[k]
          /\ sentFolder'[n + 1] = copy
      BY <3>1, Copying DEF TypeOK
    <3>3. \A k \in DOMAIN sentFolder' : k \in DOMAIN sentFolder \/ k = n + 1
      BY <3>2
    <3>4. \A k \in DOMAIN sentFolder : sentFolder[k].id # s
      BY <2>2 DEF Copied
    <3> HIDE DEF n
    <3> QED
      BY <3>1, <3>2, <3>3, <3>4 DEF OneCopy
  <2> QED
    BY <1>1, <2>1, <2>2 DEF Keeps
<1>3. CASE \/ MoveOriginal \/ UNCHANGED vars
           \/ (BookNext /\ UNCHANGED <<host, original, draft, send, mailServer>>)
  BY <1>1, <1>3 DEF MoveOriginal, mailServer, vars
<1> QED
  BY <1>2, <1>3 DEF Next

LEMMA FiniteStep ==
    ASSUME TypeOK, EachSend, IsFiniteSet(delivered), [Next]_vars
    PROVE  IsFiniteSet(delivered')
<1>1. ASSUME NEW s \in Sends, SendNext(s)
      PROVE  IsFiniteSet(delivered')
  BY <1>1, StepStands, FS_AddElement DEF EachSend, Keeps
<1>2. CASE \/ MoveOriginal \/ UNCHANGED vars
           \/ (BookNext /\ UNCHANGED <<host, original, draft, send, mailServer>>)
  BY <1>2 DEF MoveOriginal, mailServer, vars
<1> QED
  BY <1>1, <1>2 DEF Next

-----------------------------------------------------------------------------
(* The address book counts only what is sent *)

\* The messages that name an address, and where they do
LEMMA Mentioned ==
    ASSUME NEW email, NEW mention
    PROVE  mention \in Mentions(email) <=>
               \E delivery \in delivered : \E i \in DOMAIN delivery.envelope :
                   /\ delivery.envelope[i].email = email
                   /\ mention = <<delivery, i>>
BY DEF Mentions

LEMMA PlacesFinite ==
    ASSUME NEW out, IsFiniteSet(out), \A delivery \in out : delivery \in Delivery,
           NEW S, \A mention \in S : \E delivery \in out :
                      \E i \in DOMAIN delivery.envelope : mention = <<delivery, i>>
    PROVE  IsFiniteSet(S)
<1> DEFINE Places(delivery) == {delivery} \X DOMAIN delivery.envelope
           f == [delivery \in out |-> Places(delivery)]
           T == {Places(delivery) : delivery \in out}
<1>1. f \in Surjection(out, T)
  BY DEF Surjection
<1>2. IsFiniteSet(T)
  BY <1>1, FS_Surjection
<1>3. \A places \in T : IsFiniteSet(places)
  <2> SUFFICES ASSUME NEW delivery \in out
               PROVE  IsFiniteSet(Places(delivery))
    OBVIOUS
  <2>1. delivery.envelope \in Seq(Person)
    BY DEF Delivery
  <2> QED
    BY <2>1, ElementsOf, FS_Singleton, FS_Product
<1>4. IsFiniteSet(UNION T)
  BY <1>2, <1>3, FS_UNION
<1>5. S \in SUBSET UNION T
  OBVIOUS
<1> QED
  BY <1>4, <1>5, FS_Subset

LEMMA MentionsFinite ==
    ASSUME TypeOK, IsFiniteSet(delivered), NEW email
    PROVE  /\ IsFiniteSet(Mentions(email)) /\ IsFiniteSet(Recorded(email))
           /\ Recorded(email) \in SUBSET Mentions(email)
           /\ Cardinality(Recorded(email)) <= Cardinality(Mentions(email))
           /\ Cardinality(Recorded(email)) \in Nat /\ Cardinality(Mentions(email)) \in Nat
<1>1. IsFiniteSet(Mentions(email))
  <2>1. \A delivery \in delivered : delivery \in Delivery
    BY DEF TypeOK
  <2>2. \A mention \in Mentions(email) : \E delivery \in delivered :
            \E i \in DOMAIN delivery.envelope : mention = <<delivery, i>>
    BY Mentioned
  <2> QED
    BY <2>1, <2>2, PlacesFinite
<1>2. Recorded(email) \in SUBSET Mentions(email)
  BY DEF Recorded
<1> QED
  BY <1>1, <1>2, FS_Subset, FS_CardinalityType

\* A send that is recorded or past it does not come back.
LEMMA OnlyForward ==
    ASSUME TypeOK, NEW s \in Sends, SendNext(s), ~RecordSent(s),
           send[s].at \in {"recording", "undrafting", "end"}
    PROVE  send'[s].at \in {"undrafting", "end"}
<1>1. RecordSentFails(s) \/ RemoveDraft(s) \/ Drop(s)
  BY DEF SendNext, Ask, Fetch, FetchFails, Refuse, Deliver, SmtpFails, SmtpAnswers, FindCopy,
         AppendCopy, FilingFails, At, Fetching, Mailing
<1>2. CASE RecordSentFails(s)
  <2> DEFINE q == [send[s] EXCEPT !.people = <<>>, !.at = "undrafting"]
  <2>1. send' = [send EXCEPT ![s] = q]
    BY <1>2 DEF RecordSentFails
  <2>2. q.at = "undrafting"
    BY SendTyped DEF Send
  <2> HIDE DEF q
  <2> QED
    BY <2>1, <2>2 DEF TypeOK
<1>3. CASE RemoveDraft(s) \/ Drop(s)
  <2>1. PICK answer \in Answers : End(s, answer)
    BY <1>3 DEF RemoveDraft, Drop, Answers, Answer
  <2> QED
    BY <2>1, EndOf DEF Becomes
<1> QED
  BY <1>1, <1>2, <1>3

\* What is recorded stays so.
LEMMA RecordedStays ==
    ASSUME TypeOK, EachSend, NEW s \in Sends, SendNext(s), NEW email
    PROVE  Recorded(email) \in SUBSET Recorded(email)'
<1>1. Stands(s) /\ Keeps(s)
  BY StepStands DEF EachSend
<1>2. SUFFICES ASSUME NEW mention \in Recorded(email)
               PROVE  mention \in Recorded(email)'
  OBVIOUS
<1>3. PICK delivery \in delivered : \E i \in DOMAIN delivery.envelope :
          delivery.envelope[i].email = email /\ mention = <<delivery, i>>
  BY <1>2, Mentioned DEF Recorded
<1>31. PICK i \in DOMAIN delivery.envelope :
           delivery.envelope[i].email = email /\ mention = <<delivery, i>>
  BY <1>3
<1>4. PICK t : t = delivery.message.id
  OBVIOUS
<1>5. /\ mention[1].message.id = t /\ mention[2] = i
      /\ t \in Sends /\ i \in Nat
  <2>1. delivery.envelope \in Seq(Person) /\ t \in Sends
    BY <1>4 DEF TypeOK, Delivery, Message
  <2> QED
    BY <1>31, <1>4, <2>1, ElementsOf
<1>6. mention \in Mentions(email)'
  <2>1. delivery \in delivered'
    BY <1>1, <1>3 DEF Keeps
  <2> QED
    BY <1>31, <2>1 DEF Mentions
<1>7. /\ send[t].at \notin {"taken", "filing", "appending"}
      /\ send[t].at = "recording" => i <= Told(t)
  BY <1>2, <1>5 DEF Recorded
<1>8. /\ send'[t].at \notin {"taken", "filing", "appending"}
      /\ send'[t].at = "recording" => i <= Told(t)'
  <2>1. CASE t # s
    BY <1>1, <1>5, <1>7, <2>1 DEF Keeps, Told
  <2>2. CASE t = s
    <3>1. Out(s)
      BY <1>3, <1>4, <2>2 DEF Out
    <3>2. send[s].at \in {"recording", "undrafting", "end"}
      BY <1>1, <1>7, <2>2, <3>1, SendTyped DEF Stands, GoesOut, Steps
    <3>3. CASE RecordSent(s)
      <4>1. send[s].at = "recording" /\ Told(s) \in Nat
        BY <1>1, <3>3 DEF RecordSent, At, Stands, Sendable, PeopleLeft
      <4>2. /\ send'[s].at \in {"recording", "undrafting"}
            /\ send'[s].at = "recording" => Told(s)' = Told(s) + 1
        BY <1>1, <3>3, RecordSentStands
      <4> QED
        BY <1>5, <1>7, <2>2, <4>1, <4>2
    <3>4. CASE ~RecordSent(s)
      BY <2>2, <3>2, <3>4, OnlyForward
    <3> QED
      BY <3>3, <3>4
  <2> QED
    BY <2>1, <2>2
<1> QED
  BY <1>5, <1>6, <1>8 DEF Recorded

\* Recording someone is recording a mention of theirs that was not.
LEMMA RecordedMore ==
    ASSUME TypeOK, EachSend, SentAsAsked, NEW s \in Sends, RecordSent(s),
           NEW email, email = Head(send[s].people).email
    PROVE  \E mention : mention \in Recorded(email)' \ Recorded(email)
<1>1. Stands(s) /\ SendNext(s) /\ send[s].at = "recording"
  BY DEF EachSend, SendNext, RecordSent, At
<1>2. /\ Keeps(s) /\ Head(send[s].people) = recipients(send[s].ask)[Told(s) + 1]
      /\ Told(s) + 1 \in 1..Len(recipients(send[s].ask))
      /\ send'[s].at \in {"recording", "undrafting"}
      /\ send'[s].at = "recording" => Told(s)' = Told(s) + 1
  BY <1>1, RecordSentStands
<1>3. Told(s) \in Nat /\ send[s].ask \in Requests
  BY <1>1 DEF Stands, Sendable, PeopleLeft, InHand, GoneOut
<1>4. PICK delivery \in delivered : delivery.message.id = s
  BY <1>1 DEF Stands, GoesOut, GoneOut, Out
<1>5. delivery.envelope = recipients(send[s].ask)
  BY <1>4 DEF SentAsAsked
<1>6. PICK i : i = Told(s) + 1
  OBVIOUS
<1>7. i \in DOMAIN delivery.envelope /\ delivery.envelope[i].email = email /\ i \in Nat
  <2>1. recipients(send[s].ask) \in Seq(Person)
    BY <1>3, Asked
  <2> QED
    BY <1>2, <1>5, <1>6, <2>1, LenProperties
<1>8. PICK mention : mention = <<delivery, i>>
  OBVIOUS
<1>9. mention[1].message.id = s /\ mention[2] = i
  BY <1>4, <1>8
<1>10. delivery \in delivered'
  BY <1>2 DEF Keeps
<1>11. mention \in Mentions(email)'
  BY <1>7, <1>8, <1>10 DEF Mentions
<1>12. mention \in Recorded(email)'
  <2>1. send'[s].at = "recording" => i <= Told(s)'
    BY <1>2, <1>3, <1>6
  <2> QED
    BY <1>2, <1>9, <1>11, <2>1 DEF Recorded
<1>13. mention \notin Recorded(email)
  <2>1. ~(i <= Told(s))
    BY <1>3, <1>6
  <2> QED
    BY <1>1, <1>9, <2>1 DEF Recorded
<1> QED
  BY <1>12, <1>13

LEMMA CountedStep ==
    ASSUME IInv, [Next]_vars
    PROVE  Counted'
<1>0. /\ TypeOK /\ BookTypeOK /\ EachSend /\ SentAsAsked /\ Counted
      /\ TypeOK' /\ IsFiniteSet(delivered) /\ IsFiniteSet(delivered')
  BY TypeStep, FiniteStep DEF IInv, TypeOK
<1>1. ASSUME NEW s \in Sends, SendNext(s), NEW email \in Emails, contacts'[email] # NULL
      PROVE  contacts'[email].times <= Cardinality(Recorded(email)')
  <2>1. Stands(s)
    BY <1>0, <1>1 DEF EachSend
  <2>2. Recorded(email) \in SUBSET Recorded(email)'
    BY <1>0, <1>1, RecordedStays
  <2>3. IsFiniteSet(Recorded(email)) /\ Cardinality(Recorded(email)) \in Nat
    BY <1>0, MentionsFinite
  <2>4. IsFiniteSet(Recorded(email)') /\ Cardinality(Recorded(email)') \in Nat
    <3>1. \A delivery \in delivered' : delivery \in Delivery
      BY <1>0 DEF TypeOK, Delivery, Message
    <3>2. \A mention \in Recorded(email)' : \E delivery \in delivered' :
              \E i \in DOMAIN delivery.envelope : mention = <<delivery, i>>
      BY DEF Recorded, Mentions
    <3> QED
      BY <1>0, <3>1, <3>2, PlacesFinite, FS_CardinalityType
  <2>5. Cardinality(Recorded(email)) <= Cardinality(Recorded(email)')
    BY <2>2, <2>4, FS_Subset
  <2>6. contacts[email] \in Entry \union {NULL}
    BY <1>0, <1>1 DEF BookTypeOK
  <2>7. CASE contacts'[email] = contacts[email]
    <3>1. contacts[email].times \in Nat /\ contacts[email].times <= Cardinality(Recorded(email))
      BY <1>0, <1>1, <2>6, <2>7 DEF Counted, Entry
    <3> QED
      BY <2>3, <2>4, <2>5, <2>7, <3>1
  <2>8. CASE /\ RecordSent(s) /\ contacts' = WithSent(Head(send[s].people))
             /\ email = Head(send[s].people).email
    <3>1. Head(send[s].people) \in Person
      BY <1>0, <2>1, <2>8, RecordSentStands
    <3>2. PICK mention : mention \in Recorded(email)' \ Recorded(email)
      BY <1>0, <2>8, RecordedMore
    <3>3. Cardinality(Recorded(email)) + 1 <= Cardinality(Recorded(email)')
      <4>1. Recorded(email) \union {mention} \in SUBSET Recorded(email)'
        BY <2>2, <3>2
      <4>2. Cardinality(Recorded(email) \union {mention}) = Cardinality(Recorded(email)) + 1
        BY <2>3, <3>2, FS_AddElement
      <4>3. Cardinality(Recorded(email) \union {mention}) <= Cardinality(Recorded(email)')
        BY <2>4, <4>1, FS_Subset
      <4> QED
        BY <4>2, <4>3
    <3>4. /\ contacts[email] = NULL => contacts'[email].times = 1
          /\ contacts[email] # NULL => contacts'[email].times = contacts[email].times + 1
      BY <1>0, <2>8, <3>1, WithSentWrites
    <3>5. contacts[email] # NULL => /\ contacts[email].times \in Nat
                                    /\ contacts[email].times <= Cardinality(Recorded(email))
      BY <1>0, <1>1, <2>6 DEF Counted, Entry
    <3> QED
      BY <2>3, <2>4, <3>3, <3>4, <3>5
  <2> QED
    <3>1. CASE UNCHANGED book
      BY <2>7, <3>1 DEF book
    <3>2. CASE RecordSent(s) /\ contacts' = WithSent(Head(send[s].people))
      <4>1. Head(send[s].people) \in Person
        BY <1>0, <2>1, <3>2, RecordSentStands
      <4> QED
        BY <1>0, <2>7, <2>8, <3>2, <4>1, WithSentWrites
    <3> QED
      BY <1>1, <3>1, <3>2, BookLeft
<1>2. ASSUME UNCHANGED <<send, delivered>>, NEW email
      PROVE  Recorded(email)' = Recorded(email)
  BY <1>2 DEF Recorded, Mentions, Told
<1>3. ASSUME UNCHANGED <<send, delivered>>, UNCHANGED contacts
      PROVE  Counted'
  BY <1>0, <1>2, <1>3 DEF Counted
<1>4. ASSUME UNCHANGED <<send, delivered>>, BookNext, NEW email \in Emails,
             contacts'[email] # NULL
      PROVE  contacts'[email].times <= Cardinality(Recorded(email)')
  <2>1. Cardinality(Recorded(email)) \in Nat /\ Recorded(email)' = Recorded(email)
    BY <1>0, <1>2, <1>4, MentionsFinite
  <2>2. contacts'[email] = contacts[email]
        \/ contacts'[email].times = IF contacts[email] = NULL THEN 0 ELSE contacts[email].times
    BY <1>0, <1>4, BookWrites
  <2> QED
    BY <1>0, <1>4, <2>1, <2>2 DEF Counted
<1>5. CASE MoveOriginal \/ UNCHANGED vars
  BY <1>3, <1>5 DEF MoveOriginal, mailServer, vars, book
<1>6. CASE BookNext /\ UNCHANGED <<host, original, draft, send, mailServer>>
  BY <1>4, <1>6 DEF mailServer, Counted
<1> QED
  BY <1>1, <1>5, <1>6 DEF Next, Counted

-----------------------------------------------------------------------------
(* The invariant *)

LEMMA IInvInit == Init => IInv
<1> SUFFICES ASSUME Init
             PROVE  IInv
  OBVIOUS
<1> DEFINE q == [at |-> "no", ask |-> NULL, indexes |-> <<>>, files |-> <<>>,
                 people |-> <<>>, saved |-> FALSE, answer |-> NULL]
<1>1. q \in Send /\ q.at = "no" /\ q.saved = FALSE /\ q.answer = NULL
  BY EmptySeq DEF Send
<1>2. send = [s \in Sends |-> q]
  BY DEF Init
<1> HIDE DEF q
<1>3. TypeOK
  BY <1>1, <1>2, EmptySeq DEF Init, TypeOK, BookInit, BookTypeOK
<1>4. \A s : ~Out(s) /\ ~Copied(s)
  BY DEF Init, Out, Copied
<1>5. EachSend
  BY <1>1, <1>2, <1>4
  DEF EachSend, Stands, Sendable, GoesOut, IsFiled, Ended, At, InHand, GoneOut
<1>6. IsFiniteSet(delivered) /\ SentAsAsked /\ OneCopy /\ DraftSent /\ Counted
  BY FS_EmptySet DEF Init, BookInit, SentAsAsked, OneCopy, DraftSent, Counted
<1> QED
  BY <1>3, <1>5, <1>6 DEF IInv

LEMMA IInvStep == IInv /\ [Next]_vars => IInv'
BY TypeStep, FiniteStep, EachSendStep, SentAsAskedStep, OneCopyStep, DraftSentStep, CountedStep
DEF IInv

\* The inductive invariant: each send stands with what is out, filed and left to
\* be done of it, no message is filed twice, and no count exceeds the mentions
\* that were recorded.
THEOREM Invariant == Spec => []IInv
BY IInvInit, IInvStep, PTL DEF Spec

\* Every send, message and row stays one the program can be in.
THEOREM WellTyped == Spec => []TypeOK
<1>1. IInv => TypeOK
  BY DEF IInv
<1> QED
  BY <1>1, Invariant, PTL

\* What goes out is what was asked for: to everyone addressed, no Bcc shown,
\* every attachment once, in order and within the limit, though they are fetched
\* one by one from a message that others may move (mailbox::send).
THEOREM GoesOutAsAsked == Spec => []SentAsAsked
<1>1. IInv => SentAsAsked
  BY DEF IInv
<1> QED
  BY <1>1, Invariant, PTL

LEMMA InvAnswers == IInv => AnswersAreTrue
<1> SUFFICES ASSUME IInv
             PROVE  AnswersAreTrue
  OBVIOUS
<1>1. \A s : Deliveries(s) # {} <=> Out(s)
  BY DEF Deliveries, Out
<1>2. RefusedIsUnsent
  BY <1>1 DEF RefusedIsUnsent, IInv, EachSend, Stands, GoesOut
<1>3. FiledOnce
  <2> SUFFICES ASSUME NEW s \in Sends
               PROVE  LET copies == {i \in DOMAIN sentFolder : sentFolder[i].id = s}
                      IN  /\ Cardinality(copies) <= 1
                          /\ copies # {} => Deliveries(s) # {}
                          /\ Ended(s, {"sent"}) /\ send[s].saved => copies # {}
    BY DEF FiledOnce
  <2> DEFINE copies == {i \in DOMAIN sentFolder : sentFolder[i].id = s}
  <2>1. Cardinality(copies) <= 1
    <3>1. CASE copies = {}
      BY <3>1, FS_EmptySet
    <3>2. CASE copies # {}
      <4>1. PICK i : i \in copies
        BY <3>2
      <4>2. copies = {i}
        BY <4>1 DEF IInv, OneCopy
      <4> HIDE DEF copies
      <4> QED
        BY <4>2, FS_Singleton
    <3> QED
      BY <3>1, <3>2
  <2>2. copies # {} <=> Copied(s)
    BY DEF Copied
  <2> HIDE DEF copies
  <2>3. /\ copies # {} => Deliveries(s) # {}
        /\ Ended(s, {"sent"}) /\ send[s].saved => copies # {}
    BY <1>1, <2>2 DEF IInv, EachSend, Stands, IsFiled
  <2> QED
    BY <2>1, <2>3 DEF copies
<1>4. OnlySentCounts
  <2>1. ASSUME NEW email \in Emails, contacts[email] # NULL
        PROVE  contacts[email].times <= Cardinality(Mentions(email))
    <3>1. contacts[email].times <= Cardinality(Recorded(email)) /\ contacts[email].times \in Nat
      BY <2>1 DEF IInv, Counted, TypeOK, BookTypeOK, Entry
    <3>2. /\ Cardinality(Recorded(email)) <= Cardinality(Mentions(email))
          /\ Cardinality(Recorded(email)) \in Nat /\ Cardinality(Mentions(email)) \in Nat
      BY MentionsFinite DEF IInv
    <3> QED
      BY <3>1, <3>2
  <2> QED
    BY <2>1 DEF OnlySentCounts, IInv, DraftSent
<1> QED
  BY <1>2, <1>3, <1>4 DEF AnswersAreTrue

\* A send's answer is true: a refusal means that nothing went out, success that
\* it did; a message is filed once at most and its receipt says so truly; and no
\* row counts more than the messages sent to it, nor is a draft gone unsent.
THEOREM AnswersTrue == Spec => []AnswersAreTrue
BY Invariant, InvAnswers, PTL

LEMMA NamesStep ==
    ASSUME IInv, [Next]_vars, NEW email \in Emails
    PROVE  NameKept(email)
<1>0. TypeOK /\ BookTypeOK /\ EachSend
  BY DEF IInv, TypeOK
<1> SUFFICES ASSUME contacts[email] # NULL, contacts'[email] # NULL,
                    contacts'[email].name # contacts[email].name
             PROVE  \/ \E person \in Entered : SaveContact(person)
                    \/ /\ ~contacts[email].locked
                       /\ \/ contacts[email].name = NULL
                          \/ contacts'[email].times > contacts[email].times
  BY DEF NameKept
<1>1. contacts[email].locked \in BOOLEAN /\ contacts[email].times \in Nat
  BY <1>0 DEF BookTypeOK, Entry
<1>2. ASSUME NEW s \in Sends, SendNext(s)
      PROVE  /\ ~contacts[email].locked
             /\ contacts'[email].times > contacts[email].times
  <2>1. RecordSent(s) /\ contacts' = WithSent(Head(send[s].people))
    BY <1>2, BookLeft DEF book
  <2>2. Head(send[s].people) \in Person
    BY <1>0, <2>1, RecordSentStands DEF EachSend
  <2> QED
    BY <1>0, <1>1, <2>1, <2>2, WithSentWrites
<1>3. CASE BookNext
  BY <1>0, <1>1, <1>3, BookWrites
<1>4. CASE MoveOriginal \/ UNCHANGED vars
  BY <1>4 DEF MoveOriginal, vars, book
<1> QED
  BY <1>2, <1>3, <1>4 DEF Next

\* A name set by hand changes by hand alone; another also by the user writing to
\* the address, never by reading its mail (record_seen, record_sent, save).
THEOREM NamesKeptByHand == Spec => NamesKept
<1>1. IInv /\ [Next]_vars => [\A email \in Emails : NameKept(email)]_vars
  BY NamesStep
<1> QED
  BY <1>1, Invariant, PTL DEF Spec, NamesKept

-----------------------------------------------------------------------------
(***************************************************************************)
(* The compose dialog, which asks for a message to be sent (Compose), for  *)
(* any number of changes, of saves that wait and of messages sent.         *)
(***************************************************************************)

LEMMA ComposeBounds ==
    /\ LastText \in Nat /\ MaxEdits \in Nat /\ MaxSaves \in Nat /\ MaxSends \in Nat
    /\ Impatient \in BOOLEAN /\ NULL \notin Nat
BY BoundsAssumption, NullAssumption

\* The saves are made one after another: only the first is past the queue, and
\* it carries what the form held when its turn came.
OneAtATime ==
    \A i \in 1..Len(saving) :
        saving[i].at # "queued" => i = 1 /\ saving[i].content \in Texts

\* While nothing takes the draft away, its row is what counts as saved, unless
\* the last save stored another text than it counts, one has stored its own and
\* not answered, or one failed, which may have stored it all the same.
RowKeepsUp ==
    sent = 0 /\ ~discarded =>
        /\ saved # 0 => hasDraft
        /\ hasDraft => store # NULL
        /\ saving # <<>> /\ saving[1].at = "stored" => store = saving[1].content
        /\ hasDraft /\ ~drifted /\ ~draftError
                /\ (saving # <<>> => saving[1].at # "stored")
               => store = saved

\* Who takes it away: a message that was sent, a discard that was confirmed.
TakenAway ==
    /\ submission.at \in {"waiting", "mailing"} => sent < MaxSends
    /\ submission.at \in {"removing", "answering"} => sent > 0
    /\ discard.at # "no" => discarded

DraftInv == ComposeTypeOK /\ OneAtATime /\ RowKeepsUp /\ TakenAway

-----------------------------------------------------------------------------
(* With no Send while Discard is under way: only one of them waits for the *)
(* saves, no save is added meanwhile, and none is left afterwards.         *)

Waits(wait) ==
    /\ wait.at # "no" => sending
    /\ wait.at = "waiting" => wait.ahead = Len(saving)
    /\ wait.at \notin {"no", "waiting"} => saving = <<>>

OneWaits ==
    /\ Waits(discard) /\ Waits(submission)
    /\ discard.at = "no" \/ submission.at = "no"
    /\ submission.at # "no" => busy
    /\ busy => ~confirming

NoSaveLeft ==
    dialog \in {"sent", "discarded"} =>
        /\ saving = <<>> /\ sending
        /\ discard.at = "no" /\ submission.at = "no"

GoneInv == ComposeTypeOK /\ OneWaits /\ NoSaveLeft

-----------------------------------------------------------------------------
(* Types *)

\* The initial states of the dialog are well typed.
LEMMA TypeInit == ComposeInit => ComposeTypeOK
<1> SUFFICES ASSUME ComposeInit PROVE ComposeTypeOK
  OBVIOUS
<1>1. 0 \in Texts /\ 0 \in 0..MaxEdits /\ 0 \in 0..MaxSaves /\ 0 \in 0..MaxSends
  BY ComposeBounds DEF Texts
<1>2. <<>> \in Seq(Save) /\ Len(<<>>) <= MaxSaves
  BY ComposeBounds
<1> QED
  BY <1>1, <1>2 DEF ComposeInit, ComposeTypeOK, Discarding, Submission

\* A save that is added, that goes a step on, or that ends.
LEMMA SaveType ==
    ASSUME ComposeTypeOK
    PROVE  /\ \A closes \in BOOLEAN :
                  SaveDraft(closes) =>
                      saving' \in Seq(Save) /\ Len(saving') <= MaxSaves
           /\ saving # <<>> =>
                  /\ saving[1] \in Save /\ Len(saving) \in 1..MaxSaves
                  /\ Tail(saving) \in Seq(Save) /\ Len(Tail(saving)) = Len(saving) - 1
                  /\ \A save \in Save :
                         /\ [saving EXCEPT ![1] = save] \in Seq(Save)
                         /\ Len([saving EXCEPT ![1] = save]) = Len(saving)
<1>1. ASSUME NEW closes \in BOOLEAN, SaveDraft(closes)
      PROVE  saving' \in Seq(Save) /\ Len(saving') <= MaxSaves
  <2>1. [signature |-> text, content |-> NULL, at |-> "queued", closes |-> closes] \in Save
    BY DEF ComposeTypeOK, Save
  <2> QED
    BY <1>1, <2>1, ComposeBounds DEF ComposeTypeOK, SaveDraft
<1>2. ASSUME saving # <<>>
      PROVE  /\ saving[1] \in Save /\ Len(saving) \in 1..MaxSaves
             /\ Tail(saving) \in Seq(Save) /\ Len(Tail(saving)) = Len(saving) - 1
  BY <1>2, ComposeBounds DEF ComposeTypeOK
<1>3. ASSUME saving # <<>>, NEW save \in Save
      PROVE  /\ [saving EXCEPT ![1] = save] \in Seq(Save)
             /\ Len([saving EXCEPT ![1] = save]) = Len(saving)
  BY <1>3 DEF ComposeTypeOK
<1>4. \A closes \in BOOLEAN :
          SaveDraft(closes) => saving' \in Seq(Save) /\ Len(saving') <= MaxSaves
  BY <1>1
<1>5. saving # <<>> =>
          \A save \in Save :
              /\ [saving EXCEPT ![1] = save] \in Seq(Save)
              /\ Len([saving EXCEPT ![1] = save]) = Len(saving)
  BY <1>3
<1> QED
  BY <1>2, <1>4, <1>5

\* A wait that is let go of a save is still one.
LEMMA WaitType ==
    ASSUME NEW wait, wait \in Discarding \/ wait \in Submission
    PROVE  /\ Fewer(wait).at = wait.at /\ Fewer(wait).ahead \in 0..MaxSaves
           /\ wait.ahead # 0 => Fewer(wait).ahead = wait.ahead - 1
           /\ wait \in Discarding => Fewer(wait) \in Discarding
           /\ wait \in Submission => Fewer(wait) \in Submission
BY ComposeBounds DEF Fewer, Discarding, Submission

\* Every step keeps the types.
LEMMA DraftTypeStep ==
    ASSUME ComposeTypeOK, TakenAway, [ComposeNext]_composeVars
    PROVE  ComposeTypeOK'
<1> USE DEF ComposeTypeOK, written, form, refs, flags, server, Close, unsaved
<1>1. CASE UNCHANGED composeVars
  BY <1>1 DEF composeVars
<1>2. CASE Type
  <2>1. edits' \in 0..MaxEdits
    BY <1>2, ComposeBounds DEF Type
  <2> QED
    BY <1>2, <2>1 DEF Type
<1>3. CASE Autosave
  BY <1>3, SaveType DEF Autosave
<1>4. CASE Warn
  BY <1>4, SaveType DEF Warn
<1>5. CASE StartSave
  <2>1. [saving[1] EXCEPT !.at = "asked", !.content = text] \in Save
    BY <1>5, SaveType DEF StartSave, Save
  <2> QED
    BY <1>5, <2>1, SaveType DEF StartSave
<1>6. CASE StoreDraft
  <2>1. [saving[1] EXCEPT !.at = "stored"] \in Save
    BY <1>6, SaveType DEF StoreDraft, Save
  <2>2. store' \in Texts \union {NULL}
    BY <1>6, SaveType DEF StoreDraft, Save
  <2> QED
    BY <1>6, <2>1, <2>2, SaveType DEF StoreDraft
<1>7. ASSUME NextSave, saving # <<>>
      PROVE  /\ saving' \in Seq(Save) /\ Len(saving') <= MaxSaves
             /\ discard' \in Discarding /\ submission' \in Submission
  BY <1>7, SaveType, WaitType, ComposeBounds DEF NextSave
<1>8. CASE SaveEnds
  <2>1. saved' \in Texts
    BY <1>8, SaveType DEF SaveEnds, Save
  <2> QED
    BY <1>7, <1>8, <2>1 DEF SaveEnds, Saved
<1>9. CASE SaveFails
  BY <1>7, <1>9 DEF SaveFails
<1>10. CASE RequestClose
  BY <1>10, SaveType DEF RequestClose
<1>11. CASE RequestDiscard
  BY <1>11 DEF RequestDiscard
<1>12. CASE KeepEditing
  BY <1>12 DEF KeepEditing
<1>13. CASE Discard
  <2>1. Len(saving) \in 0..MaxSaves
    BY ComposeBounds
  <2> QED
    BY <1>13, <2>1 DEF Discard, Discarding
<1>14. CASE GoOnDiscarding
  BY <1>14 DEF GoOnDiscarding, Discarding
<1>15. CASE DeleteDraft
  BY <1>15 DEF DeleteDraft, Discarding
<1>16. CASE DiscardEnds
  BY <1>16 DEF DiscardEnds, Discarding
<1>17. CASE DiscardFails
  BY <1>17 DEF DiscardFails, Discarding
<1>18. CASE RequestSend
  <2>1. Len(saving) \in 0..MaxSaves
    BY ComposeBounds
  <2> QED
    BY <1>18, <2>1 DEF RequestSend, Submission
<1>19. CASE Submit
  BY <1>19 DEF Submit, Submission
<1>20. CASE Mail
  <2>1. sent' \in 0..MaxSends
    BY <1>20, ComposeBounds DEF Mail, TakenAway
  <2> QED
    BY <1>20, <2>1 DEF Mail, Submission
<1>21. CASE RemoveSentDraft
  BY <1>21 DEF RemoveSentDraft, Submission
<1>22. CASE SendEnds
  BY <1>22 DEF SendEnds, Submission
<1>23. CASE SendFails
  BY <1>23 DEF SendFails, Submission
<1>24. CASE ConnectionEnds
  BY <1>24 DEF ConnectionEnds
<1> QED
  BY <1>1, <1>2, <1>3, <1>4, <1>5, <1>6, <1>8, <1>9, <1>10, <1>11, <1>12, <1>13, <1>14,
     <1>15, <1>16, <1>17, <1>18, <1>19, <1>20, <1>21, <1>22, <1>23, <1>24
  DEF ComposeNext, GoOn, Event, SaveAnswers

-----------------------------------------------------------------------------
(* The saves and the row *)

\* The initial states satisfy the invariant.
LEMMA DraftInvInit == ComposeInit => DraftInv
<1> SUFFICES ASSUME ComposeInit PROVE DraftInv
  OBVIOUS
<1>1. ComposeTypeOK
  BY TypeInit
<1>2. OneAtATime
  BY DEF ComposeInit, OneAtATime
<1>3. RowKeepsUp
  <2>1. saved = 0 /\ saving = <<>> /\ (hasDraft => store = 0 /\ store # NULL)
    BY DEF ComposeInit
  <2> QED
    BY <2>1 DEF RowKeepsUp
<1>4. TakenAway
  BY DEF ComposeInit, TakenAway
<1> QED
  BY <1>1, <1>2, <1>3, <1>4 DEF DraftInv

\* What the types say of the form and of the saves.
LEMMA Numbers ==
    ASSUME ComposeTypeOK
    PROVE  /\ saving \in Seq(Save) /\ text \in Texts /\ NULL \notin Texts
           /\ sent \in Nat /\ MaxSends \in Nat
           /\ \A i \in 1..Len(saving) : saving[i] \in Save
<1>1. \A i \in 1..Len(saving) : saving[i] \in Save
  BY DEF ComposeTypeOK
<1> QED
  BY <1>1, ComposeBounds DEF ComposeTypeOK, Texts

\* The first save goes a step on, and the others wait.
LEMMA FirstSave ==
    ASSUME ComposeTypeOK, saving # <<>>, NEW save,
           saving' = [saving EXCEPT ![1] = save]
    PROVE  /\ Len(saving') = Len(saving) /\ Len(saving) \in Nat \ {0} /\ saving' # <<>>
           /\ saving'[1] = save
           /\ \A i \in 2..Len(saving) : saving'[i] = saving[i]
BY DEF ComposeTypeOK

\* What a step may do to the saves under way leaves them one after another.
LEMMA SavingStep ==
    ASSUME DraftInv, [ComposeNext]_composeVars
    PROVE  OneAtATime'
<1> USE DEF written, form, refs, flags, server, unsaved
<1>1. /\ saving \in Seq(Save) /\ text \in Texts
      /\ \A i \in 1..Len(saving) : saving[i] \in Save
  BY Numbers DEF DraftInv
<1>2. ASSUME UNCHANGED saving
      PROVE  OneAtATime'
  BY <1>2 DEF DraftInv, OneAtATime
<1>3. ASSUME NEW closes \in BOOLEAN, SaveDraft(closes)
      PROVE  OneAtATime'
  <2>1. CASE sending
    BY <1>3, <1>2, <2>1 DEF SaveDraft
  <2>2. CASE ~sending
    <3> DEFINE save == [signature |-> text, content |-> NULL,
                        at |-> "queued", closes |-> closes]
    <3>1. saving' = Append(saving, save)
      BY <1>3, <2>2 DEF SaveDraft
    <3>2. /\ saving'[Len(saving) + 1] = save
          /\ \A i \in 1..Len(saving) : saving'[i] = saving[i]
          /\ \A i \in 1..Len(saving') : i \in 1..Len(saving) \/ i = Len(saving) + 1
      BY <1>1, <3>1
    <3>3. save.at = "queued"
      OBVIOUS
    <3> HIDE DEF save
    <3> QED
      BY <3>2, <3>3 DEF DraftInv, OneAtATime
  <2> QED
    BY <2>1, <2>2
<1>4. ASSUME NextSave, saving # <<>>
      PROVE  OneAtATime'
  <2>1. \A i \in 1..Len(saving') : saving'[i] = saving[i + 1] /\ i + 1 \in 2..Len(saving)
    BY <1>1, <1>4 DEF NextSave
  <2>2. \A i \in 2..Len(saving) : i \in 1..Len(saving) /\ i # 1
    OBVIOUS
  <2> QED
    BY <2>1, <2>2 DEF DraftInv, OneAtATime
<1>5. CASE StartSave
  <2>1. /\ Len(saving') = Len(saving)
        /\ saving'[1] = [saving[1] EXCEPT !.at = "asked", !.content = text]
        /\ \A i \in 2..Len(saving) : saving'[i] = saving[i]
    BY <1>5, FirstSave DEF StartSave, DraftInv
  <2>2. saving # <<>> /\ 1 \in 1..Len(saving)
    BY <1>1, <1>5 DEF StartSave
  <2>3. saving'[1].content = text
    BY <1>1, <2>1, <2>2 DEF Save
  <2>4. \A i \in 1..Len(saving) : i = 1 \/ i \in 2..Len(saving)
    OBVIOUS
  <2> QED
    BY <1>1, <2>1, <2>3, <2>4 DEF DraftInv, OneAtATime
<1>6. CASE StoreDraft
  <2>1. /\ Len(saving') = Len(saving)
        /\ saving'[1] = [saving[1] EXCEPT !.at = "stored"]
        /\ \A i \in 2..Len(saving) : saving'[i] = saving[i]
    BY <1>6, FirstSave DEF StoreDraft, DraftInv
  <2>2. 1 \in 1..Len(saving) /\ saving[1].at # "queued"
    BY <1>1, <1>6 DEF StoreDraft
  <2>3. saving'[1].content = saving[1].content
    BY <1>1, <2>1, <2>2 DEF Save
  <2>4. \A i \in 1..Len(saving) : i = 1 \/ i \in 2..Len(saving)
    OBVIOUS
  <2> QED
    BY <2>1, <2>2, <2>3, <2>4 DEF DraftInv, OneAtATime
<1>7. CASE SaveEnds \/ SaveFails
  BY <1>4, <1>7 DEF SaveEnds, Saved, SaveFails
<1>8. CASE Autosave \/ Warn \/ RequestClose
  BY <1>2, <1>3, <1>8 DEF Autosave, Warn, RequestClose
<1>9. CASE \/ Type \/ GoOnDiscarding \/ Submit \/ RequestDiscard \/ KeepEditing \/ Discard
           \/ DeleteDraft \/ DiscardEnds \/ DiscardFails \/ ConnectionEnds
  BY <1>2, <1>9
  DEF Type, GoOnDiscarding, Submit, RequestDiscard, KeepEditing, Discard, DeleteDraft,
      DiscardEnds, DiscardFails, ConnectionEnds
<1>10. CASE RequestSend \/ Mail \/ RemoveSentDraft \/ SendEnds \/ SendFails \/ UNCHANGED composeVars
  BY <1>2, <1>10 DEF RequestSend, Mail, RemoveSentDraft, SendEnds, SendFails, composeVars
<1> QED
  BY <1>5, <1>6, <1>7, <1>8, <1>9, <1>10 DEF ComposeNext, GoOn, Event, SaveAnswers

\* Only sending and discarding take the draft away, and the rest of the steps
\* keep its row up with the form.
LEMMA RowStep ==
    ASSUME DraftInv, [ComposeNext]_composeVars
    PROVE  RowKeepsUp' /\ TakenAway'
<1> USE DEF written, form, refs, flags, server, unsaved
<1>1. /\ saving \in Seq(Save) /\ text \in Texts /\ NULL \notin Texts
      /\ sent \in Nat /\ MaxSends \in Nat
      /\ \A i \in 1..Len(saving) : saving[i] \in Save
  BY Numbers DEF DraftInv
<1>2. ASSUME UNCHANGED <<refs, server, discarded>>,
             saving # <<>> => saving' # <<>>,
             saving' # <<>> =>
                 \/ saving # <<>> /\ saving'[1] = saving[1]
                 \/ saving'[1].at # "stored" /\ (saving # <<>> => saving[1].at # "stored")
      PROVE  RowKeepsUp'
  BY <1>2 DEF DraftInv, RowKeepsUp
<1>3. ASSUME UNCHANGED <<refs, server, discarded, saving>>
      PROVE  RowKeepsUp'
  BY <1>2, <1>3
<1>4. ASSUME UNCHANGED <<sent, discarded>>, discard'.at = discard.at, submission'.at = submission.at
      PROVE  TakenAway'
  BY <1>4 DEF DraftInv, TakenAway
<1>5. CASE Type
  BY <1>3, <1>4, <1>5 DEF Type
<1>6. ASSUME NEW closes \in BOOLEAN, SaveDraft(closes),
             UNCHANGED <<refs, server, discarded>>
      PROVE  RowKeepsUp'
  <2>1. CASE sending
    BY <1>3, <1>6, <2>1 DEF SaveDraft
  <2>2. CASE ~sending
    <3>1. /\ saving' # <<>>
          /\ saving # <<>> => saving'[1] = saving[1]
          /\ saving = <<>> => saving'[1].at = "queued"
      BY <1>1, <1>6, <2>2 DEF SaveDraft
    <3> QED
      BY <1>2, <1>6, <3>1
  <2> QED
    BY <2>1, <2>2
<1>7. CASE Autosave \/ Warn \/ RequestClose
  BY <1>3, <1>4, <1>6, <1>7 DEF Autosave, Warn, RequestClose
<1>8. CASE StartSave
  <2>1. saving' # <<>> /\ saving'[1].at = "asked"
    BY <1>1, <1>8 DEF StartSave, Save
  <2> QED
    BY <1>2, <1>4, <1>8, <2>1 DEF StartSave
<1>9. CASE StoreDraft
  <2>1. /\ saving'[1].content = saving[1].content /\ saving'[1].at = "stored"
        /\ saving' # <<>> /\ UNCHANGED <<refs, sent, discarded, discard, submission>>
    BY <1>1, <1>9 DEF StoreDraft, Save
  <2>2. store' = saving[1].content /\ store' # NULL
    <3>1. 1 \in 1..Len(saving) /\ saving[1].at # "queued"
      BY <1>1, <1>9 DEF StoreDraft
    <3> QED
      BY <1>1, <1>9, <3>1 DEF DraftInv, OneAtATime, StoreDraft
  <2> QED
    BY <1>4, <2>1, <2>2 DEF DraftInv, RowKeepsUp
<1>10. ASSUME NextSave, saving # <<>>
       PROVE  saving' # <<>> => saving'[1].at = "queued"
  <2>1. saving' # <<>> => saving'[1] = saving[2] /\ 2 \in 1..Len(saving)
    BY <1>1, <1>10 DEF NextSave
  <2> QED
    BY <2>1 DEF DraftInv, OneAtATime
<1>11. ASSUME NextSave
       PROVE  discard'.at = discard.at /\ submission'.at = submission.at
  BY <1>11, WaitType DEF NextSave, DraftInv, ComposeTypeOK
<1>12. CASE SaveEnds
  <2>1. 1 \in 1..Len(saving) /\ saving[1].at = "stored" /\ saving # <<>>
    BY <1>1, <1>12 DEF SaveEnds
  <2>2. /\ saved' = saving[1].signature /\ hasDraft' = TRUE
        /\ drifted' = (saving[1].content # saving[1].signature)
        /\ NextSave /\ UNCHANGED <<server, discarded>>
    BY <1>12, <2>1 DEF SaveEnds, Saved
  <2>3. saving[1].content # NULL
    BY <1>1, <2>1 DEF DraftInv, OneAtATime
  <2>4. saving' # <<>> => saving'[1].at = "queued"
    BY <1>10, <2>1, <2>2
  <2>5. RowKeepsUp'
    BY <2>1, <2>2, <2>3, <2>4 DEF DraftInv, RowKeepsUp
  <2>6. TakenAway'
    BY <1>4, <1>11, <2>2
  <2> QED
    BY <2>5, <2>6
<1>13. CASE SaveFails
  <2>1. /\ draftError' = TRUE /\ NextSave /\ saving # <<>>
        /\ UNCHANGED <<saved, hasDraft, server, discarded>>
    BY <1>13 DEF SaveFails
  <2>2. saving' # <<>> => saving'[1].at = "queued"
    BY <1>10, <2>1
  <2>3. RowKeepsUp'
    BY <2>1, <2>2 DEF DraftInv, RowKeepsUp
  <2>4. TakenAway'
    BY <1>4, <1>11, <2>1
  <2> QED
    BY <2>3, <2>4
<1>14. CASE RequestDiscard \/ KeepEditing \/ ConnectionEnds \/ UNCHANGED composeVars
  BY <1>3, <1>4, <1>14 DEF RequestDiscard, KeepEditing, ConnectionEnds, composeVars
<1>15. CASE Discard
  BY <1>15 DEF Discard, RowKeepsUp, DraftInv, TakenAway
<1>16. CASE GoOnDiscarding \/ DiscardEnds \/ DiscardFails
  <2>1. RowKeepsUp'
    BY <1>3, <1>16 DEF GoOnDiscarding, DiscardEnds, DiscardFails
  <2>2. discard.at # "no" /\ UNCHANGED <<sent, submission, discarded>>
    BY <1>16 DEF GoOnDiscarding, DiscardEnds, DiscardFails
  <2> QED
    BY <2>1, <2>2 DEF DraftInv, TakenAway
<1>17. CASE DeleteDraft
  <2>1. discarded /\ discarded' = discarded /\ sent' = sent /\ submission' = submission
    BY <1>17 DEF DeleteDraft, DraftInv, TakenAway
  <2> QED
    BY <2>1 DEF RowKeepsUp, DraftInv, TakenAway
<1>18. CASE RequestSend
  <2>1. RowKeepsUp'
    BY <1>3, <1>18 DEF RequestSend
  <2> QED
    BY <2>1, <1>18 DEF RequestSend, DraftInv, TakenAway
<1>19. CASE Submit
  <2>1. RowKeepsUp'
    BY <1>3, <1>19 DEF Submit
  <2>2. submission'.at = "mailing" /\ submission.at = "waiting"
    BY <1>19 DEF Submit, DraftInv, ComposeTypeOK, Submission
  <2> QED
    BY <2>1, <2>2, <1>19 DEF Submit, DraftInv, TakenAway
<1>20. CASE Mail
  <2>1. sent' > 0 /\ sent' # 0
    BY <1>1, <1>20 DEF Mail
  <2>2. submission'.at = "removing"
    BY <1>20 DEF Mail, DraftInv, ComposeTypeOK, Submission
  <2> QED
    BY <1>20, <2>1, <2>2 DEF Mail, RowKeepsUp, DraftInv, TakenAway
<1>21. CASE RemoveSentDraft
  <2>1. sent > 0 /\ sent' = sent /\ sent' # 0
    BY <1>1, <1>21 DEF RemoveSentDraft, DraftInv, TakenAway
  <2>2. submission'.at = "answering"
    BY <1>21 DEF RemoveSentDraft, DraftInv, ComposeTypeOK, Submission
  <2> QED
    BY <1>21, <2>1, <2>2 DEF RemoveSentDraft, RowKeepsUp, DraftInv, TakenAway
<1>22. CASE SendEnds \/ SendFails
  <2>1. RowKeepsUp'
    BY <1>3, <1>22 DEF SendEnds, SendFails
  <2>2. submission'.at = "no"
    BY <1>22 DEF SendEnds, SendFails, DraftInv, ComposeTypeOK, Submission
  <2> QED
    BY <1>22, <2>1, <2>2 DEF SendEnds, SendFails, DraftInv, TakenAway
<1> QED
  BY <1>5, <1>7, <1>8, <1>9, <1>12, <1>13, <1>14, <1>15, <1>16, <1>17, <1>18, <1>19,
     <1>20, <1>21, <1>22
  DEF ComposeNext, GoOn, Event, SaveAnswers

\* Every step keeps the invariant.
LEMMA DraftInvStep ==
    ASSUME DraftInv, [ComposeNext]_composeVars
    PROVE  DraftInv'
<1>1. ComposeTypeOK'
  BY DraftTypeStep DEF DraftInv
<1> QED
  BY <1>1, SavingStep, RowStep DEF DraftInv

\* Whatever is typed, saved late, sent, discarded or fails, the form, the saves
\* waiting in the queue and the draft's row stand together (ComposeDialog.jsx).
THEOREM DraftInvariant == ComposeSpec => []DraftInv
BY DraftInvInit, DraftInvStep, PTL DEF ComposeSpec

\* The form, the saves waiting, the row and the messages sent stay of their
\* types and within their bounds, whatever is typed, saved, discarded, sent or
\* fails.
THEOREM ComposeWellTyped == ComposeSpec => []ComposeTypeOK
<1>1. DraftInv => ComposeTypeOK
  BY DEF DraftInv
<1> QED
  BY <1>1, DraftInvariant, PTL

\* "Draft saved" is true: with nothing unsaved, no save under way and no failure
\* shown, the row of the draft is what the form holds, unless the message was
\* sent or discarded, or the last save stored another text than it counts as
\* saved (ComposeDialog.jsx, save; drafts.rs, save).
THEOREM DraftIsStored == ComposeSpec => []SavedIsStored
<1>1. DraftInv => SavedIsStored
  <2> SUFFICES ASSUME DraftInv, hasDraft, ~unsaved, NothingOnItsWay, ~drifted
               PROVE  store = text
    BY DEF SavedIsStored
  <2> QED
    BY DEF DraftInv, RowKeepsUp, NothingOnItsWay, unsaved
<1> QED
  BY <1>1, DraftInvariant, PTL

\* A dialog that closes with something written leaves a draft: of what the form
\* held when the save began that closing waits for, or, with nothing unsaved,
\* of what it holds, where no save is on its way, none failed, and none stored
\* another text than it counts as saved (ComposeDialog.jsx, requestClose).
THEOREM ClosingKeeps == ComposeSpec => ClosingKeepsWriting
<1>1. ASSUME DraftInv, [ComposeNext]_composeVars PROVE CloseKeeps
  <2> USE <1>1 DEF written, form, refs, flags, server, unsaved
  <2> DEFINE Kept == /\ store # NULL
                     /\ saving # saving' =>
                            /\ saving # <<>> /\ Head(saving).closes
                            /\ store = Head(saving).content
                     /\ NothingOnItsWay /\ ~drifted => store = text
  <2> SUFFICES ASSUME dialog = "open", dialog' = "closed", text # 0, sent = 0, ~discarded
               PROVE  Kept
    BY DEF CloseKeeps
  <2>1. CASE \/ Type \/ Autosave \/ Warn \/ StoreDraft \/ SaveFails \/ KeepEditing
             \/ Discard \/ DeleteDraft \/ DiscardEnds \/ DiscardFails
    BY <2>1
    DEF Close, Type, Autosave, Warn, StoreDraft, SaveFails, KeepEditing,
        Discard, DeleteDraft, DiscardEnds, DiscardFails
  <2>2. CASE SaveEnds
    <3>1. /\ 1 \in 1..Len(saving) /\ saving # <<>>
          /\ saving[1].at = "stored" /\ Head(saving) = saving[1]
      BY <2>2, Numbers DEF SaveEnds, DraftInv
    <3>2. saving[1].closes
      BY <2>2, <3>1 DEF SaveEnds, Saved
    <3>3. store = saving[1].content /\ store # NULL
      BY <3>1, Numbers DEF DraftInv, OneAtATime, RowKeepsUp
    <3> QED
      BY <3>1, <3>2, <3>3 DEF NothingOnItsWay
  <2>3. CASE RequestClose
    <3>1. text = saved /\ saving' = saving
      BY <2>3 DEF RequestClose
    <3>2. hasDraft /\ store # NULL
      BY <3>1 DEF DraftInv, RowKeepsUp
    <3> QED
      BY <3>1, <3>2 DEF DraftInv, RowKeepsUp, NothingOnItsWay
  <2>4. CASE RequestDiscard
    BY <2>4 DEF RequestDiscard
  <2>5. CASE \/ RequestSend \/ Mail \/ RemoveSentDraft \/ SendEnds \/ SendFails
             \/ ConnectionEnds
             \/ StartSave \/ GoOnDiscarding \/ Submit \/ UNCHANGED composeVars
    BY <2>5
    DEF Close, RequestSend, Mail, RemoveSentDraft, SendEnds, SendFails, ConnectionEnds,
        StartSave, GoOnDiscarding, Submit, composeVars
  <2> QED
    BY <2>1, <2>2, <2>3, <2>4, <2>5 DEF ComposeNext, GoOn, Event, SaveAnswers
<1>2. DraftInv /\ [ComposeNext]_composeVars => [CloseKeeps]_composeVars
  BY <1>1
<1> QED
  BY <1>2, DraftInvariant, PTL DEF ComposeSpec, ClosingKeepsWriting

-----------------------------------------------------------------------------
(* What was sent or discarded stays gone *)

\* A discard and a sending do not overlap, and each drains the saves first.
LEMMA GoneStep ==
    ASSUME GoneInv, ComposeTypeOK', ~Impatient, [ComposeNext]_composeVars
    PROVE  OneWaits' /\ NoSaveLeft'
<1> USE DEF written, form, refs, flags, server, unsaved, Close
<1>1. /\ saving \in Seq(Save) /\ discard \in Discarding /\ submission \in Submission
      /\ Len(saving) \in Nat /\ (Len(saving) = 0 <=> saving = <<>>)
      /\ MaxSaves \in Nat
  BY ComposeBounds DEF GoneInv, ComposeTypeOK
<1>2. ASSUME UNCHANGED <<sending, busy, discard, submission>>,
             confirming' => confirming \/ ~busy,
             dialog' = dialog \/ dialog' \notin {"sent", "discarded"},
             \/ ~sending
             \/ Len(saving') = Len(saving) /\ (saving' = <<>> <=> saving = <<>>)
      PROVE  OneWaits' /\ NoSaveLeft'
  BY <1>2 DEF GoneInv, OneWaits, NoSaveLeft, Waits
<1>3. CASE Type \/ Autosave \/ Warn \/ RequestClose
  <2>1. \A closes \in BOOLEAN : SaveDraft(closes) => ~sending \/ saving' = saving
    BY DEF SaveDraft
  <2> QED
    BY <1>2, <1>3, <2>1 DEF Type, Autosave, Warn, RequestClose
<1>4. CASE StartSave \/ StoreDraft
  <2>1. Len(saving') = Len(saving) /\ saving # <<>> /\ saving' # <<>>
    BY <1>4, FirstSave DEF StartSave, StoreDraft, GoneInv
  <2> QED
    BY <1>2, <1>4, <2>1 DEF StartSave, StoreDraft
<1>5. CASE RequestDiscard \/ KeepEditing \/ ConnectionEnds \/ UNCHANGED composeVars
  BY <1>2, <1>5 DEF RequestDiscard, KeepEditing, ConnectionEnds, composeVars
<1>6. CASE SaveEnds \/ SaveFails
  <2>1. /\ saving # <<>> /\ Len(saving') = Len(saving) - 1
        /\ UNCHANGED <<sending, busy, confirming>>
        /\ discard' = Fewer(discard) /\ submission' = Fewer(submission)
        /\ dialog' = dialog \/ dialog' = "closed"
    BY <1>1, <1>6 DEF SaveEnds, Saved, SaveFails, NextSave
  <2>2. dialog \notin {"sent", "discarded"} /\ Len(saving) # 0
    BY <1>1, <2>1 DEF GoneInv, NoSaveLeft
  <2>3. ASSUME NEW wait, Waits(wait), wait \in Discarding \/ wait \in Submission
        PROVE  /\ Fewer(wait).at = wait.at
               /\ wait.at # "no" =>
                      wait.at = "waiting" /\ Fewer(wait).ahead = Len(saving) - 1
    BY <2>1, <2>2, <2>3, WaitType DEF Waits
  <2> QED
    BY <1>1, <2>1, <2>2, <2>3 DEF GoneInv, OneWaits, NoSaveLeft, Waits
<1>7. CASE Discard
  <2>1. discard'.at = "waiting" /\ discard'.ahead = Len(saving) /\ sending'
    BY <1>7 DEF Discard
  <2>2. submission.at = "no" /\ ~busy /\ dialog = "open"
    BY <1>7 DEF Discard, GoneInv, OneWaits
  <2> QED
    BY <1>7, <2>1, <2>2 DEF Discard, OneWaits, NoSaveLeft, Waits
<1>8. CASE GoOnDiscarding \/ DeleteDraft \/ DiscardEnds
  <2>1. /\ discard.at # "no" /\ discard'.at \in {"no", "deleting", "deleted"}
        /\ UNCHANGED <<sending, busy, confirming, saving, submission>>
        /\ \/ dialog' = dialog
           \/ dialog' = "discarded" /\ discard'.at = "no"
    <3>1. \A at \in {"no", "deleting", "deleted"} : [discard EXCEPT !.at = at].at = at
      BY <1>1 DEF Discarding
    <3> QED
      BY <1>8, <3>1 DEF GoOnDiscarding, DeleteDraft, DiscardEnds
  <2>2. /\ saving = <<>> /\ sending /\ submission.at = "no"
        /\ dialog \notin {"sent", "discarded"}
    BY <1>1, <1>8, <2>1
    DEF GoOnDiscarding, DeleteDraft, DiscardEnds, GoneInv, OneWaits, NoSaveLeft, Waits
  <2> QED
    BY <2>1, <2>2 DEF GoneInv, OneWaits, NoSaveLeft, Waits
<1>9. CASE DiscardFails
  <2>1. discard.at # "no" /\ discard'.at = "no"
    BY <1>1, <1>9 DEF DiscardFails, Discarding
  <2>2. submission.at = "no" /\ dialog \notin {"sent", "discarded"}
    BY <2>1 DEF GoneInv, OneWaits, NoSaveLeft
  <2> QED
    BY <1>9, <2>1, <2>2 DEF DiscardFails, OneWaits, NoSaveLeft, Waits
<1>10. CASE RequestSend
  <2>1. submission'.at = "waiting" /\ submission'.ahead = Len(saving) /\ sending' /\ busy'
    BY <1>10 DEF RequestSend
  <2>2. discard.at = "no" /\ ~confirming' /\ dialog = "open"
    BY <1>10 DEF RequestSend
  <2> QED
    BY <1>10, <2>1, <2>2 DEF RequestSend, OneWaits, NoSaveLeft, Waits
<1>11. CASE Submit \/ Mail \/ RemoveSentDraft \/ SendEnds
  <2>1. /\ submission.at # "no" /\ submission'.at \in {"no", "mailing", "removing", "answering"}
        /\ UNCHANGED <<sending, busy, confirming, saving, discard>>
        /\ \/ dialog' = dialog
           \/ dialog' = "sent" /\ submission'.at = "no"
    <3>1. \A at \in {"no", "mailing", "removing", "answering"} :
              [submission EXCEPT !.at = at].at = at
      BY <1>1 DEF Submission
    <3> QED
      BY <1>11, <3>1 DEF Submit, Mail, RemoveSentDraft, SendEnds
  <2>2. /\ saving = <<>> /\ sending /\ discard.at = "no" /\ busy
        /\ dialog \notin {"sent", "discarded"}
    BY <1>1, <1>11, <2>1
    DEF Submit, Mail, RemoveSentDraft, SendEnds, GoneInv, OneWaits, NoSaveLeft, Waits
  <2> QED
    BY <2>1, <2>2 DEF GoneInv, OneWaits, NoSaveLeft, Waits
<1>12. CASE SendFails
  <2>1. submission.at # "no" /\ submission'.at = "no"
    BY <1>1, <1>12 DEF SendFails, Submission
  <2>2. discard.at = "no" /\ dialog \notin {"sent", "discarded"}
    BY <2>1 DEF GoneInv, OneWaits, NoSaveLeft
  <2> QED
    BY <1>12, <2>1, <2>2 DEF SendFails, OneWaits, NoSaveLeft, Waits
<1> QED
  BY <1>3, <1>4, <1>5, <1>6, <1>7, <1>8, <1>9, <1>10, <1>11, <1>12
  DEF ComposeNext, GoOn, Event, SaveAnswers

LEMMA GoneInvHolds ==
    ASSUME ~Impatient
    PROVE  ComposeSpec => []GoneInv
<1>1. ComposeInit => GoneInv
  <2> SUFFICES ASSUME ComposeInit PROVE GoneInv
    OBVIOUS
  <2>1. OneWaits /\ NoSaveLeft
    BY DEF ComposeInit, OneWaits, NoSaveLeft, Waits
  <2> QED
    BY <2>1, TypeInit DEF GoneInv
<1>2. ComposeTypeOK' /\ GoneInv /\ [ComposeNext]_composeVars => GoneInv'
  BY GoneStep DEF GoneInv
<1> QED
  BY <1>1, <1>2, ComposeWellTyped, PTL DEF ComposeSpec

\* Where Send waits for a Discard under way to end, a draft that is gone when
\* its message was sent or discarded is brought back by no save: the saves
\* before it are done first, and none is made after (ComposeDialog.jsx, send
\* and discard).
THEOREM GoneForGood ==
    ASSUME ~Impatient
    PROVE  ComposeSpec => GoneStaysGone
<1>1. ASSUME GoneInv, [ComposeNext]_composeVars, dialog \in {"sent", "discarded"}, store = NULL
      PROVE  store' = NULL
  <2> USE <1>1 DEF written, form, refs, flags, server
  <2>1. saving = <<>>
    BY DEF GoneInv, NoSaveLeft
  <2>2. CASE StoreDraft \/ DeleteDraft \/ RemoveSentDraft
    BY <2>1, <2>2 DEF StoreDraft, DeleteDraft, RemoveSentDraft
  <2>3. CASE \/ Type \/ Autosave \/ Warn \/ StartSave \/ SaveEnds \/ SaveFails
             \/ RequestClose \/ RequestDiscard \/ KeepEditing \/ Discard
             \/ GoOnDiscarding \/ DiscardEnds \/ DiscardFails \/ RequestSend \/ Submit
             \/ Mail \/ SendEnds \/ SendFails \/ ConnectionEnds \/ UNCHANGED composeVars
    BY <2>3
    DEF Type, Autosave, Warn, StartSave, SaveEnds, Saved, SaveFails, RequestClose,
        RequestDiscard, KeepEditing, Discard, GoOnDiscarding, DiscardEnds,
        DiscardFails, RequestSend, Submit, Mail, SendEnds, SendFails, ConnectionEnds, composeVars
  <2> QED
    BY <2>2, <2>3 DEF ComposeNext, GoOn, Event, SaveAnswers
<1>2. GoneInv /\ [ComposeNext]_composeVars => [StaysGone]_composeVars
  BY <1>1 DEF StaysGone
<1> QED
  BY <1>2, GoneInvHolds, PTL DEF ComposeSpec, GoneStaysGone

=============================================================================
