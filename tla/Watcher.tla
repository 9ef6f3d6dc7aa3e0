------------------------------ MODULE Watcher ------------------------------
(***************************************************************************)
(* The desktop app's watch for new mail (desktop/src/watcher.rs) with the  *)
(* two other writers of the state it reads: connecting and removing a      *)
(* mailbox (desktop/src/state.rs), and putting a message back in the inbox *)
(* (desktop/src/commands.rs, restore_email), whose move is carried out     *)
(* before the command notes the message as restored.                       *)
(*                                                                         *)
(* Abstractions.  A message is its Message-ID, in one mailbox; copies in   *)
(* the inbox have UIDs.  Connecting and removing are one step each.  A day *)
(* back holds the whole inbox.  Time is the two windows ending.  A report  *)
(* is both the event and the notification.                                 *)
(***************************************************************************)
EXTENDS Null, Naturals, FiniteSets, FiniteSetsExt

CONSTANTS
    Accounts, Passwords, Messages,
    MaxUid,         \* bound: UIDs a mailbox gives out
    MaxValidity,    \* bound: times an inbox is numbered
    MaxBack         \* bound: times a message is put back

ASSUME BoundsAssumption == MaxUid \in Nat \ {0} /\ MaxValidity \in Nat \ {0} /\ MaxBack \in Nat
ASSUME NullAssumption == NULL \notin Passwords

VARIABLES
    inbox,      \* per mailbox, the copies in its inbox
    uidNext, validity,
    away,       \* per mailbox, the mail moved out of it
    connected,  \* per mailbox, its password in this run
    restoring,  \* mail put back whose command has not ended
    restored,   \* messages noted as put back
    newest,     \* per mailbox, the UIDVALIDITY and newest UID seen
    refused,    \* per mailbox, the password refused lately
    round,      \* the passwords of the mailboxes still to check
    snapshot,   \* what the server answered for the mailbox being checked
    news,       \* the mail of the last report
    told,       \* mail reported before it, or there from the start
    settled     \* mail put back that no check has met

vars == <<inbox, uidNext, validity, away, connected, restoring, restored,
          newest, refused, round, snapshot, news, told, settled>>
mailboxes == <<inbox, uidNext, validity, away>>
watcher == <<newest, refused, round, snapshot>>
putBack == <<restoring, restored, settled>>
reports == <<news, told>>

Uids == 1..MaxUid
Mail == [id: Messages, back: 0..MaxBack]
Copy == [uid: Uids, mail: Mail]
Seen == [validity: 1..MaxValidity, uid: 0..MaxUid]
Snapshot == [account: Accounts, validity: 1..MaxValidity, copies: SUBSET Copy]

TypeOK ==
    /\ inbox \in [Accounts -> SUBSET Copy]
    /\ uidNext \in [Accounts -> 1..MaxUid + 1]
    /\ validity \in [Accounts -> 1..MaxValidity]
    /\ away \in [Accounts -> SUBSET Mail]
    /\ connected \in [Accounts -> Passwords \union {NULL}]
    /\ restored \subseteq Messages
    /\ {restoring, news, told, settled} \subseteq SUBSET Mail
    /\ newest \in [Accounts -> Seen \union {NULL}]
    /\ refused \in [Accounts -> Passwords \union {NULL}]
    /\ round \in [Accounts -> Passwords \union {NULL}]
    /\ snapshot \in Snapshot \union {NULL}

Mails(copies) == {c.mail : c \in copies}
Noted(mails) == {x \in mails : x.id \in restored}
Nowhere == [a \in Accounts |-> NULL]

\* The app starts with some mailboxes open, each with at most one message.
Init ==
    /\ inbox \in [Accounts -> {{}} \union
                    {{[uid |-> 1, mail |-> [id |-> m, back |-> 0]]} : m \in Messages}]
    /\ \A a, b \in Accounts : a # b => Mails(inbox[a]) \intersect Mails(inbox[b]) = {}
    /\ uidNext = [a \in Accounts |-> Cardinality(inbox[a]) + 1]
    /\ validity = [a \in Accounts |-> 1]
    /\ away = [a \in Accounts |-> {}]
    /\ connected \in [Accounts -> Passwords \union {NULL}]
    /\ restoring = {} /\ restored = {} /\ settled = {}
    /\ newest = Nowhere /\ refused = Nowhere /\ round = Nowhere
    /\ snapshot = NULL
    /\ news = {}
    /\ told = UNION {Mails(inbox[a]) : a \in Accounts}

-----------------------------------------------------------------------------
(* The mailboxes *)

Put(a, x) ==
    /\ uidNext[a] <= MaxUid
    /\ inbox' = [inbox EXCEPT ![a] = @ \union {[uid |-> uidNext[a], mail |-> x]}]
    /\ uidNext' = [uidNext EXCEPT ![a] = @ + 1]

Deliver(a, m) ==
    /\ \A b \in Accounts : \A x \in Mails(inbox[b]) \union away[b] : x.id # m
    /\ Put(a, [id |-> m, back |-> 0])
    /\ UNCHANGED <<validity, away, connected, watcher, putBack, reports>>

\* Another program, or this one, moves a message out of the inbox.
MoveOut(a, c) ==
    /\ inbox' = [inbox EXCEPT ![a] = @ \ {c}]
    /\ away' = [away EXCEPT ![a] = @ \union {c.mail}]
    /\ UNCHANGED <<uidNext, validity, connected, watcher, putBack, reports>>

\* The server numbers the inbox anew.
Renumber(a, from) ==
    /\ validity[a] < MaxValidity
    /\ from + Cardinality(inbox[a]) <= MaxUid
    /\ validity' = [validity EXCEPT ![a] = @ + 1]
    /\ inbox' = [inbox EXCEPT ![a] =
           {[c EXCEPT !.uid = from + Cardinality({d \in inbox[a] : d.uid <= c.uid})] :
               c \in inbox[a]}]
    /\ uidNext' = [uidNext EXCEPT ![a] = from + Cardinality(inbox[a]) + 1]
    /\ UNCHANGED <<away, connected, watcher, putBack, reports>>

-----------------------------------------------------------------------------
(* The commands *)

Followed(a) ==
    \/ newest[a] # NULL \/ round[a] # NULL
    \/ snapshot # NULL /\ snapshot.account = a

\* A mailbox opened is looked at for the first time, if it is not followed.
Connect(a, p) ==
    /\ connected[a] # p
    /\ connected' = [connected EXCEPT ![a] = p]
    /\ told' = IF connected[a] # NULL \/ Followed(a) THEN told
             ELSE told \union (Mails(inbox[a]) \ news)
    /\ UNCHANGED <<mailboxes, watcher, putBack, news>>

Remove(a) ==
    /\ connected[a] # NULL
    /\ connected' = [connected EXCEPT ![a] = NULL]
    /\ UNCHANGED <<mailboxes, watcher, putBack, reports>>

\* restore_email, up to the move ...
Restore(a, x) ==
    /\ connected[a] # NULL /\ x.back < MaxBack
    /\ Put(a, [x EXCEPT !.back = @ + 1])
    /\ away' = [away EXCEPT ![a] = @ \ {x}]
    /\ restoring' = restoring \union {[x EXCEPT !.back = @ + 1]}
    /\ UNCHANGED <<validity, connected, watcher, restored, settled, reports>>

\* ... and after it.
NoteRestored(x) ==
    /\ restoring' = restoring \ {x}
    /\ restored' = restored \union {x.id}
    /\ settled' = IF x \in news \union told THEN settled ELSE settled \union {x}
    /\ UNCHANGED <<mailboxes, connected, watcher, reports>>

\* The answer of the move is lost.
RestoreFails(x) ==
    /\ restoring' = restoring \ {x}
    /\ UNCHANGED <<mailboxes, connected, watcher, restored, settled, reports>>

\* RESTORED_WINDOW
WindowEnds(m) ==
    /\ m \in restored
    /\ restored' = restored \ {m}
    /\ settled' = {x \in settled : x.id # m}
    /\ UNCHANGED <<mailboxes, connected, watcher, restoring, reports>>

-----------------------------------------------------------------------------
(* The watch *)

Retained(f) == [a \in Accounts |-> IF connected[a] = NULL THEN NULL ELSE f[a]]

\* check_all, up to its loop
StartRound ==
    /\ round = Nowhere /\ snapshot = NULL
    /\ round' = connected
    /\ newest' = Retained(newest)
    /\ refused' = Retained(refused)
    /\ UNCHANGED <<mailboxes, connected, putBack, snapshot, reports>>

MayCheck(a) == refused[a] # round[a]
Checked(a) == round' = [round EXCEPT ![a] = NULL]
Turn(a) == round[a] # NULL /\ snapshot = NULL

LeaveAlone(a) ==
    /\ Turn(a) /\ ~MayCheck(a)
    /\ Checked(a)
    /\ UNCHANGED <<mailboxes, connected, putBack, newest, refused, snapshot, reports>>

Fetch(a) ==
    /\ Turn(a) /\ MayCheck(a)
    /\ Checked(a)
    /\ snapshot' = [account |-> a, validity |-> validity[a], copies |-> inbox[a]]
    /\ UNCHANGED <<mailboxes, connected, putBack, newest, refused, reports>>

\* The password is wrong, or the server has too many connections.
Refuse(a) ==
    /\ Turn(a) /\ MayCheck(a)
    /\ Checked(a)
    /\ refused' = [refused EXCEPT ![a] = round[a]]
    /\ UNCHANGED <<mailboxes, connected, putBack, newest, snapshot, reports>>

FetchFails(a) ==
    /\ Turn(a) /\ MayCheck(a)
    /\ Checked(a)
    /\ UNCHANGED <<mailboxes, connected, putBack, newest, refused, snapshot, reports>>

\* Mutant of PauseEnds: only a reconnection ends it.
PauseStays(a) ==
    /\ refused[a] # NULL /\ connected[a] # refused[a]
    /\ refused' = [refused EXCEPT ![a] = NULL]
    /\ UNCHANGED <<mailboxes, connected, putBack, newest, round, snapshot, reports>>

\* REFUSED_PAUSE
PauseEnds(a) ==
    /\ refused[a] # NULL
    /\ refused' = [refused EXCEPT ![a] = NULL]
    /\ UNCHANGED <<mailboxes, connected, putBack, newest, round, snapshot, reports>>

\* Mutant of Known: the UIDs of an earlier numbering are compared too.
KnownAnyhow(a) == newest[a] # NULL

\* Whether UIDs seen before still mean the same messages
Known(a) == newest[a] # NULL /\ newest[a].validity = snapshot.validity

Arrived(a) ==
    IF Known(a) THEN Mails({c \in snapshot.copies : c.uid > newest[a].uid}) ELSE {}

\* Mutant of Newest: the UID that comes next.
NewestNext(a) ==
    Max({IF Known(a) THEN newest[a].uid ELSE 0} \union {c.uid + 1 : c \in snapshot.copies})

Newest(a) ==
    Max({IF Known(a) THEN newest[a].uid ELSE 0} \union {c.uid : c \in snapshot.copies})

\* Mutant of Forget: a check leaves nothing noted.
ForgetAll(met) == restored' = {} /\ settled' = {x \in settled : x.id \notin met}

Forget(met) ==
    /\ restored' = restored \ met
    /\ settled' = {x \in settled : x.id \notin met}

\* Watcher::check and without_restored
Report ==
    /\ snapshot # NULL
    /\ LET a == snapshot.account IN
           /\ newest' = [newest EXCEPT ![a] = [validity |-> snapshot.validity, uid |-> Newest(a)]]
           /\ news' = Arrived(a) \ Noted(Arrived(a))
           /\ told' = told \union news \union (IF Known(a) THEN {} ELSE Mails(snapshot.copies))
           /\ Forget({x.id : x \in Noted(Arrived(a))})
    /\ snapshot' = NULL
    /\ UNCHANGED <<mailboxes, connected, restoring, refused, round>>

-----------------------------------------------------------------------------
Watching ==
    \/ StartRound \/ Report
    \/ \E a \in Accounts : LeaveAlone(a) \/ Fetch(a) \/ Refuse(a) \/ FetchFails(a)

Next ==
    \/ \E a \in Accounts, m \in Messages : Deliver(a, m)
    \/ \E a \in Accounts : \E c \in inbox[a] : MoveOut(a, c)
    \/ \E a \in Accounts : \E x \in away[a] : Restore(a, x)
    \/ \E a \in Accounts, from \in 0..MaxUid : Renumber(a, from)
    \/ \E a \in Accounts : Remove(a) \/ PauseEnds(a)
    \/ \E a \in Accounts, p \in Passwords : Connect(a, p)
    \/ \E x \in restoring : NoteRestored(x) \/ RestoreFails(x)
    \/ \E m \in Messages : WindowEnds(m)
    \/ Watching

Spec == Init /\ [][Next]_vars

\* The loop goes on, a pause ends, and a server is not out of reach for good.
FairSpec ==
    /\ Spec
    /\ WF_vars(Watching)
    /\ \A a \in Accounts : WF_vars(PauseEnds(a)) /\ SF_vars(Fetch(a))

-----------------------------------------------------------------------------
(* Properties *)

\* A message is reported at most once, and never one that was there when its
\* mailbox was opened, whatever is renumbered, refused, closed or opened
\* again between the checks; put back in the inbox it counts anew.
ReportedOnce == news \intersect told = {}

\* A message whose restoring has ended is not news to the next check that
\* meets it, within the window.
RestoredIsNotNews == news \intersect settled = {}

\* Mail that arrives in a mailbox that is followed is reported, unless it is
\* moved out, put back, or the mailbox renumbered or removed meanwhile.
LooksAt(a) ==
    connected[a] # NULL /\ newest[a] # NULL /\ newest[a].validity = validity[a]
NewIsReported ==
    \A a \in Accounts, m \in Messages :
        LET x == [id |-> m, back |-> 0] IN
        (LooksAt(a) /\ x \in Mails(inbox[a]))
        ~> (x \in news \union told \/ x \notin Mails(inbox[a]) \/ ~LooksAt(a))
=============================================================================
