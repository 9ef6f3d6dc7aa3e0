---------------------------- MODULE AddressBook ----------------------------
(***************************************************************************)
(* One user's address book (crates/core/src/contacts.rs): a row per        *)
(* address, filled by the mail the user opens and sends, and by hand.      *)
(* Each row is written by a statement of its own.  Addresses are           *)
(* normalised and names cleaned; a blank name is none.                     *)
(***************************************************************************)
EXTENDS Null, Naturals, SequencesExt

CONSTANTS
    Emails, Names,
    Automated,  \* addresses of machines
    Own,        \* the mailbox mail is opened in
    MaxPeople,  \* MAX_PEOPLE_PER_MESSAGE
    Mails,      \* the people of the messages there are to open: From, Reply-To
    Entered     \* what the user may enter by hand

Person == [email: Emails, name: Names \union {NULL}]

ASSUME BookAssumption ==
    /\ Automated \subseteq Emails /\ MaxPeople \in Nat
    /\ Mails \subseteq Seq(Person) /\ Entered \subseteq Person

VARIABLES
    contacts,  \* the rows, by address
    seen       \* people of an opened message whose rows are still to be written

book == <<contacts, seen>>

Entry == [name: Names \union {NULL}, locked: BOOLEAN, times: Nat]

BookTypeOK ==
    /\ contacts \in [Emails -> Entry \union {NULL}]
    /\ seen \in Seq(Person)

BookInit == contacts = [e \in Emails |-> NULL] /\ seen = <<>>

\* Mutant of WithSeen: the newest message's name is taken.
WithLatest(person) ==
    LET row == contacts[person.email]
    IN  [contacts EXCEPT ![person.email] =
            IF row = NULL THEN [name |-> person.name, locked |-> FALSE, times |-> 0]
            ELSE [row EXCEPT !.name = IF row.locked THEN @ ELSE person.name]]

\* record_seen's statement
WithSeen(person) ==
    LET row == contacts[person.email]
    IN  [contacts EXCEPT ![person.email] =
            IF row = NULL THEN [name |-> person.name, locked |-> FALSE, times |-> 0]
            ELSE [row EXCEPT !.name = IF row.locked \/ @ # NULL THEN @ ELSE person.name]]

\* record_sent's statement
WithSent(person) ==
    LET row == contacts[person.email]
    IN  [contacts EXCEPT ![person.email] =
            IF row = NULL THEN [name |-> person.name, locked |-> FALSE, times |-> 1]
            ELSE [row EXCEPT !.times = @ + 1,
                             !.name = IF row.locked \/ person.name = NULL THEN @
                                      ELSE person.name]]

-----------------------------------------------------------------------------

\* The numbers in a finite set, in their order
Ascending(numbers) ==
    [i \in 1..Cardinality(numbers) |->
        CHOOSE n \in numbers : Cardinality({k \in numbers : k < n}) = i - 1]

IsPerson(person) == person.email \notin Automated \union {Own}

\* get_email
OpenEmail(people) ==
    /\ seen = <<>>
    /\ LET persons == Ascending({i \in DOMAIN people : IsPerson(people[i])})
       IN  seen' = [i \in 1..IF Len(persons) > MaxPeople THEN MaxPeople ELSE Len(persons)
                       |-> people[persons[i]]]
    /\ UNCHANGED contacts

RecordSeen ==
    /\ seen # <<>>
    /\ contacts' = WithSeen(Head(seen))
    /\ seen' = Tail(seen)

\* Reading does not fail because of it.
RecordSeenFails == seen # <<>> /\ seen' = <<>> /\ UNCHANGED contacts

\* save
SaveContact(person) ==
    /\ contacts' = [contacts EXCEPT ![person.email] =
                       [name |-> person.name, locked |-> TRUE,
                        times |-> IF @ = NULL THEN 0 ELSE @.times]]
    /\ UNCHANGED seen

\* delete
DeleteContact(email) ==
    /\ contacts[email] # NULL
    /\ contacts' = [contacts EXCEPT ![email] = NULL]
    /\ UNCHANGED seen

BookNext ==
    \/ \E people \in Mails : OpenEmail(people)
    \/ RecordSeen \/ RecordSeenFails
    \/ \E person \in Entered : SaveContact(person)
    \/ \E email \in Emails : DeleteContact(email)
=============================================================================
