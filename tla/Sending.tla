------------------------------ MODULE Sending ------------------------------
(***************************************************************************)
(* Sending a message: checking it (crates/core/src/outgoing.rs), fetching  *)
(* what it forwards and what follows once it is sent                       *)
(* (crates/core/src/mailbox.rs), SMTP (smtp.rs) and the copy in the Sent   *)
(* folder (imap_client.rs).  Sends overlap; one action per await.  A send  *)
(* is a number, and so is its fresh Message-ID.                            *)
(*                                                                         *)
(* Abstractions.  Texts are their lengths, files their sizes; an upload    *)
(* that is not base64 is NULL.  The sends are of one message, whose draft  *)
(* is one row and which forwards the attachments of one other.             *)
(***************************************************************************)
EXTENDS AddressBook, FiniteSets

CONSTANTS
    Sends,     \* bound: the sends there are
    Requests,  \* what may be asked for
    Valid,     \* the addresses that can be written to
    MaxRecipients, MaxSubject, MaxBody, MaxBytes, MaxForwarded,
    Original   \* the attachments of the message that is forwarded

Request == [to: Seq(Person), cc: Seq(Person), bcc: Seq(Person), subject: Nat,
            body: Nat, uploads: Seq(Nat \union {NULL}), indexes: Seq(Nat \ {0}),
            draft: BOOLEAN]

\* That it was sent, or the kind of the error
Answer == {"sent", "bad request", "not found", "imap", "auth", "sending failed"}

ASSUME SendingAssumption ==
    /\ Requests \subseteq Request /\ Valid \subseteq Emails
    /\ {MaxRecipients, MaxSubject, MaxBody, MaxBytes, MaxForwarded} \subseteq Nat
    /\ Original \in Seq(Nat) /\ NULL \notin Nat \union Answer

VARIABLES
    host,       \* of the SMTP server: in config.rs's list, files sent mail
                \* without being in it, or leaves filing to the program
    original,   \* whether the message forwarded is still where it was
    draft,      \* whether the draft's row is there
    send,
    delivered,  \* what the SMTP server took
    sentFolder  \* the copies in the Sent folder

vars == <<book, host, original, draft, send, delivered, sentFolder>>
mailServer == <<delivered, sentFolder>>

Send == [at: {"no", "fetching", "taken", "filing", "appending", "recording",
              "undrafting", "end"},
         ask: Requests \union {NULL},
         indexes: Seq(Nat),  \* what is still to be fetched
         files: Seq(Nat),    \* what is attached by now
         people: Seq(Person),
         saved: BOOLEAN,     \* saved_to_sent
         answer: Answer \union {NULL}]
Message == [id: Sends, shown: Seq(Person), files: Seq(Nat)]
Delivery == [message: Message, envelope: Seq(Person)]

TypeOK ==
    /\ BookTypeOK
    /\ host \in {"listed", "files", "plain"}
    /\ {original, draft} \subseteq BOOLEAN
    /\ send \in [Sends -> Send]
    /\ \A delivery \in delivered : delivery \in Delivery
    /\ sentFolder \in Seq(Message)

Init ==
    /\ BookInit
    /\ host \in {"listed", "files", "plain"}
    /\ original = TRUE /\ draft = TRUE
    /\ send = [s \in Sends |-> [at |-> "no", ask |-> NULL, indexes |-> <<>>,
                 files |-> <<>>, people |-> <<>>, saved |-> FALSE, answer |-> NULL]]
    /\ delivered = {} /\ sentFolder = <<>>

-----------------------------------------------------------------------------
(* outgoing.rs *)

\* check_attachment_size
Total(files) == FoldSeq(+, 0, files)
TooLarge(files) == Total(files) > MaxBytes

recipients(ask) == ask.to \o ask.cc \o ask.bcc

\* The provider is known to file what it sends.
server_files_sent_mail == host = "listed"

\* OutgoingEmail::new, and the number of attachments forwarded
Unacceptable(ask) ==
    \/ \E person \in ToSet(recipients(ask)) : person.email \notin Valid
    \/ Len(recipients(ask)) \notin 1..MaxRecipients
    \/ ask.subject > MaxSubject \/ ask.body > MaxBody
    \/ NULL \in ToSet(ask.uploads) \/ TooLarge(ask.uploads)
    \/ Cardinality(ToSet(ask.indexes)) > MaxForwarded

message(s, keep_bcc) ==
    [id |-> s,
     shown |-> send[s].ask.to \o send[s].ask.cc
               \o IF keep_bcc THEN send[s].ask.bcc ELSE <<>>,
     files |-> send[s].files]

-----------------------------------------------------------------------------
(* Before it is sent: a failure is the answer *)

At(s, step) == send[s].at = step
End(s, answer) == send' = [send EXCEPT ![s].at = "end", ![s].answer = answer]

Sorted(indexes) == Ascending(ToSet(indexes))

Ask(s, ask) ==
    /\ At(s, "no")
    /\ send' = [send EXCEPT ![s] =
           IF Unacceptable(ask)
           THEN [@ EXCEPT !.at = "end", !.ask = ask, !.answer = "bad request"]
           ELSE [@ EXCEPT !.at = "fetching", !.ask = ask,
                          !.indexes = Sorted(ask.indexes), !.files = ask.uploads]]
    /\ UNCHANGED <<book, host, original, draft, mailServer>>

Fetching(s) == At(s, "fetching") /\ send[s].indexes # <<>>
Mailing(s) == At(s, "fetching") /\ send[s].indexes = <<>>
Found(s) == original /\ Head(send[s].indexes) <= Len(Original)

Fetch(s) ==
    /\ Fetching(s) /\ Found(s)
    /\ LET files == Append(send[s].files, Original[Head(send[s].indexes)])
       IN  IF TooLarge(files) THEN End(s, "bad request")
           ELSE send' = [send EXCEPT ![s].files = files, ![s].indexes = Tail(@)]
    /\ UNCHANGED <<book, host, original, draft, mailServer>>

\* Mutant of FetchFails: what cannot be fetched is left out.
FetchSkips(s) ==
    /\ Fetching(s)
    /\ send' = [send EXCEPT ![s].indexes = Tail(@)]
    /\ UNCHANGED <<book, host, original, draft, mailServer>>

FetchFails(s) ==
    /\ Fetching(s)
    /\ (End(s, "imap") \/ (~Found(s) /\ End(s, "not found")))
    /\ UNCHANGED <<book, host, original, draft, mailServer>>

\* The mail server turns the message or the password down.
Refuse(s) ==
    /\ Mailing(s)
    /\ End(s, "bad request") \/ End(s, "auth")
    /\ UNCHANGED <<book, host, original, draft, mailServer>>

Deliver(s) ==
    /\ Mailing(s)
    /\ send' = [send EXCEPT ![s].at = "taken"]
    /\ delivered' = delivered \union
           {[message |-> message(s, FALSE), envelope |-> recipients(send[s].ask)]}
    /\ sentFolder' = IF host = "plain" THEN sentFolder
                     ELSE Append(sentFolder, message(s, FALSE))
    /\ UNCHANGED <<book, host, original, draft>>

SmtpFails(s) ==
    /\ Mailing(s) \/ At(s, "taken")
    /\ End(s, "sending failed")
    /\ UNCHANGED <<book, host, original, draft, mailServer>>

-----------------------------------------------------------------------------
(* Once it is sent: nothing fails the send any more *)

Filed(s, saved) ==
    send' = [send EXCEPT ![s].at = "recording", ![s].saved = saved,
                         ![s].people = recipients(send[s].ask)]

SmtpAnswers(s) ==
    /\ At(s, "taken")
    /\ IF server_files_sent_mail THEN Filed(s, TRUE)
       ELSE send' = [send EXCEPT ![s].at = "filing"]
    /\ UNCHANGED <<book, host, original, draft, mailServer>>

\* Mutant of FindCopy: it does not look.
NoLook(s) ==
    /\ At(s, "filing")
    /\ send' = [send EXCEPT ![s].at = "appending"]
    /\ UNCHANGED <<book, host, original, draft, mailServer>>

\* file_in_sent, find_message_id
FindCopy(s) ==
    /\ At(s, "filing")
    /\ IF \E copy \in ToSet(sentFolder) : copy.id = s THEN Filed(s, TRUE)
       ELSE send' = [send EXCEPT ![s].at = "appending"]
    /\ UNCHANGED <<book, host, original, draft, mailServer>>

AppendCopy(s) ==
    /\ At(s, "appending")
    /\ sentFolder' = Append(sentFolder, message(s, TRUE))
    /\ Filed(s, TRUE)
    /\ UNCHANGED <<book, host, original, draft, delivered>>

\* Mutant of FilingFails: the receipt leaves it open.
FilingUnknown(s) ==
    /\ At(s, "filing") \/ At(s, "appending")
    /\ Filed(s, NULL)
    /\ UNCHANGED <<book, host, original, draft, mailServer>>

\* No Sent folder, no connection, or out of time; the APPEND may still be
\* carried out.
FilingFails(s) ==
    /\ At(s, "filing") \/ At(s, "appending")
    /\ Filed(s, FALSE)
    /\ \/ UNCHANGED sentFolder
       \/ At(s, "appending") /\ sentFolder' = Append(sentFolder, message(s, TRUE))
    /\ UNCHANGED <<book, host, original, draft, delivered>>

RecordSent(s) ==
    /\ At(s, "recording")
    /\ contacts' = WithSent(Head(send[s].people))
    /\ send' = [send EXCEPT ![s].people = Tail(@),
                            ![s].at = IF Len(send[s].people) = 1 THEN "undrafting" ELSE @]
    /\ UNCHANGED <<seen, host, original, draft, mailServer>>

RecordSentFails(s) ==
    /\ At(s, "recording")
    /\ send' = [send EXCEPT ![s].people = <<>>, ![s].at = "undrafting"]
    /\ UNCHANGED <<book, host, original, draft, mailServer>>

RemoveDraft(s) ==
    /\ At(s, "undrafting")
    /\ draft' \in IF send[s].ask.draft THEN {draft, FALSE} ELSE {draft}
    /\ End(s, "sent")
    /\ UNCHANGED <<book, host, original, mailServer>>

\* The browser is gone, and its request is dropped where it waits.
Drop(s) ==
    /\ send[s].at \notin {"no", "end"}
    /\ End(s, NULL)
    /\ UNCHANGED <<book, host, original, draft, mailServer>>

-----------------------------------------------------------------------------
\* Another page or program moves the message away.
MoveOriginal ==
    /\ original
    /\ original' = FALSE
    /\ UNCHANGED <<book, host, draft, send, mailServer>>

SendNext(s) ==
    \/ \E ask \in Requests : Ask(s, ask)
    \/ Fetch(s) \/ FetchFails(s)
    \/ Refuse(s) \/ Deliver(s) \/ SmtpFails(s) \/ SmtpAnswers(s)
    \/ FindCopy(s) \/ AppendCopy(s) \/ FilingFails(s)
    \/ RecordSent(s) \/ RecordSentFails(s) \/ RemoveDraft(s) \/ Drop(s)

Next ==
    \/ \E s \in Sends : SendNext(s)
    \/ MoveOriginal
    \/ BookNext /\ UNCHANGED <<host, original, draft, send, mailServer>>

Spec == Init /\ [][Next]_vars
-----------------------------------------------------------------------------
(* Properties that hold *)

Deliveries(s) == {delivery \in delivered : delivery.message.id = s}
Ended(s, answers) == At(s, "end") /\ send[s].answer \in answers

\* What goes out is all that was asked for and no more: everyone addressed,
\* nobody's Bcc shown, every attachment once and within the limit, though they
\* are fetched one by one from a message that others may move (mailbox::send).
SentAsAsked ==
    \A delivery \in delivered :
        LET ask == send[delivery.message.id].ask
            files == delivery.message.files
        IN  /\ delivery.envelope = recipients(ask)
            /\ ToSet(delivery.message.shown) = ToSet(ask.to \o ask.cc)
            /\ \A index \in ToSet(ask.indexes) : index <= Len(Original)
            /\ files = ask.uploads \o [i \in 1..Len(Sorted(ask.indexes)) |->
                                          Original[Sorted(ask.indexes)[i]]]
            /\ ~TooLarge(files)

\* An answer that tells the user to try again is true: only when the SMTP
\* exchange itself failed may the message have gone out all the same, never
\* because of what follows it (imap_client.rs: "a retry would send it twice").
RefusedIsUnsent ==
    \A s \in Sends :
        /\ Ended(s, {"bad request", "not found", "imap", "auth"}) => Deliveries(s) = {}
        /\ Ended(s, {"sent"}) => Deliveries(s) # {}

\* One copy of each message in the Sent folder, of a message that was sent, by
\* whoever files it, and there if the receipt says so.
FiledOnce ==
    \A s \in Sends :
        LET copies == {i \in DOMAIN sentFolder : sentFolder[i].id = s}
        IN  /\ Cardinality(copies) <= 1
            /\ copies # {} => Deliveries(s) # {}
            /\ Ended(s, {"sent"}) /\ send[s].saved => copies # {}

\* The address book counts, and the draft goes, only once the message is sent,
\* whatever fails or is dropped in between.
Mentions(email) ==
    UNION {{<<delivery, i>> : i \in {k \in DOMAIN delivery.envelope :
                                       delivery.envelope[k].email = email}}
              : delivery \in delivered}
OnlySentCounts ==
    /\ \A email \in Emails : contacts[email] # NULL =>
           contacts[email].times <= Cardinality(Mentions(email))
    /\ ~draft => \E delivery \in delivered : send[delivery.message.id].ask.draft

\* The answer of a send is true of the message, of its copy, and of what the
\* address book and the drafts make of it.
AnswersAreTrue == RefusedIsUnsent /\ FiledOnce /\ OnlySentCounts

\* A name set by hand, the blank one included, changes by hand alone; another
\* may also change by the user writing to the address, never by reading its mail.
NameKept(email) ==
    contacts[email] # NULL /\ contacts'[email] # NULL
            /\ contacts'[email].name # contacts[email].name =>
        \/ \E person \in Entered : SaveContact(person)
        \/ /\ ~contacts[email].locked
           /\ \/ contacts[email].name = NULL
              \/ contacts'[email].times > contacts[email].times
NamesKept == [][\A email \in Emails : NameKept(email)]_vars

-----------------------------------------------------------------------------
(* A claim of the repository that the code does not keep *)

\* A name given while addressing, which a reply takes from the message it
\* answers, "fills in a missing one" (record_sent's comment).
NameFilled(email) ==
    contacts[email] # NULL /\ contacts'[email] # NULL
            /\ contacts'[email].name # contacts[email].name =>
        \/ \E person \in Entered : SaveContact(person)
        \/ contacts[email].name = NULL
NamesOnlyFilled == [][\A email \in Emails : NameFilled(email)]_vars
=============================================================================
