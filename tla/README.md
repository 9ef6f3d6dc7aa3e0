# Inbox Max: models, checks and proofs

Inbox Max shows the mail of an IMAP inbox that arrived since the reader last
worked through it. The same core library (`src/crates/core`) serves a web
server (`src/server`), with sign-ins and several users, and a desktop app
(`src/desktop`); both are driven by one React client (`src/client`). This
directory models the parts of it in which requests, devices, timers and a mail
server run side by side, checks them with TLC on small instances, and proves
the most important properties for all instances with TLAPS.

- [The system](#the-system) - its parts, their state and what makes them correct
- [The modules](#the-modules) - what stands for what
- [The runs](#the-runs) - what is checked, on which instances
- [The proofs](#the-proofs) - what holds for every value of the constants
- [Where the code and its documents differ](#where-the-code-and-its-documents-differ)
- [What is not modelled](#what-is-not-modelled)
- [The plan](#the-plan)

To check one model and one set of proofs:

    tlc -workers 2 -config MailboxOverlap.cfg MCMailbox
    tlapm MoveMessageProofs.tla

`PROJECT.json` lists every run with its configuration, the source lines each
definition stands for, the ways of breaking the code that each property was
seen to catch, and the hazards each property is for.

## The system

State is kept in six places, and nearly every hard question is about two of
them: the mail servers (folders, flags, UIDs and their UIDVALIDITY; what SMTP
took), the SQLite database, the web server's memory (sessions), the desktop
app's memory (open mailboxes, the watch), the operating system (keychain,
Downloads folder) and the client's pages. There are no transactions across any
two of them and few inside one; requests are independent Tokio tasks, which
interleave at every `.await`, and any of them may be given up by a timeout or a
client that goes away.

| Component | State | Operations | What makes it correct |
| --- | --- | --- | --- |
| Mailbox bookkeeping, `core/mailbox.rs` | `accounts.uid_validity`, `watermark_uid`, `last_open`; rows of `remembered` | `list_emails`, `set_watermark`, `remember`, `forget`, `list_remembered` | a stored or answered UID is only ever used under the numbering it was recorded with; the stored numbering becomes the server's |
| Moving mail, `core/imap_client.rs` | the IMAP folders; the row shown and the Undo offered by each page | `move_message`, `restore_message`, `handleMove`, `handleUndo`, `handleMoveToInbox` | no message is lost; a move that was answered is final; other programs' `\Deleted` marks are not acted on |
| Sign-ins, sessions, accounts, `server/session.rs`, `handlers/auth.rs`, `handlers/accounts.rs`, `core/account.rs` | the session store, `device_tokens`, `accounts`, the browsers' cookies | sign in, register, sign out, connect, remove, every request's look-up of its user | a session acts for one user; a sign-out or removal is final for what comes after it; the tokens stay bounded; an account has one owner |
| Composing, `ComposeDialog.jsx`, `core/drafts.rs` | the form, the chain of saves, four flags; the draft's row | change, autosave, close, discard, send | what is said to be saved is saved; what is sent or discarded stays gone; closing keeps the text (the exceptions are told below) |
| The watch, `desktop/watcher.rs`, `commands.rs` | per mailbox the newest UID seen and the password refused; the notes of restored mail | a round of checks a minute, connect, remove, restore | mail is reported once, and in the end; what the user put back is not news |
| Building and sending mail, `core/outgoing.rs`, `smtp.rs`, `mailbox.rs` | the send under way; the Sent folder; the draft's row | check, fetch what is forwarded, SMTP, file the copy, record the people, delete the draft | what goes out is what was asked for; "failed" is only said of what is not sent; one copy is filed |
| Address book, `core/contacts.rs` | `contacts` | learn from mail opened and sent, edit, delete, suggest | the user's own entries win; only sent mail counts |
| Profile and passwords, `desktop/state.rs`, `credentials.rs` | passwords in this run, those in the keychain, the list | launch, connect, remove | a password is kept if and only if that was asked for last; a launch ends |
| Demo, `core/fake_mail.rs` | what is moved, the message that arrives, the outbox; its rows of every table | reset, list, move, restore, send | opening it gives the starting state, whatever an earlier opening left; what arrives is new |
| Server folders and attachments, `core/imap_client.rs`, `attachment.rs` | the server's folders | find or create the archive, list a folder, fetch an attachment | mail moved to a folder is listed there; an attachment is of the message listed |
| Attachments saved, `desktop/downloads.rs` | files | save | no file is written over; what is not whole is being written, or could not be removed |
| The inbox page, `InboxPage.jsx`, `useEmails.js`, `useAccounts.js` | the mailbox shown, its list and marker, request numbers, the marker's save queue | listing, searching, marking, moving, changing the mailbox | an answer that is late does not undo a later choice; the page comes to agree with the server |
| Attempt limiter, `server/rate_limit.rs` | failures per key and window | check, record, clear | the number of attempts is bounded |

The others are wrappers, pure functions or data: routes (`server/lib.rs`,
`handlers/emails.rs`, ...), the desktop's shell, the client's transports and
screens, configuration, signatures, the parsing of messages, migrations.

How they interact. A page calls `api.js`, which is an HTTP request or a Tauri
command; both end in the same functions of `crates/core`. On the web server a
request first finds its user and the account's password (Sessions), then does
its work on an IMAP session of its own and on the database (Mailbox,
MoveMessage, Reading, Sending). On the desktop the password comes from the open
mailboxes, which the watch reads as well; the watch tells the page of new mail
by an event. Nothing tells a page what another device did: its lists are old
until it asks again, and its requests name messages of those old lists.

What is hard, then: state read before an `.await` and used after it; requests
of two devices on the same message; a move made of three IMAP commands that can
stop after any of them, or be carried out after its request was given up; UIDs
that start to mean other messages; saves that overtake or outlive the message
they belong to; answers that come after the page went on to something else;
restarts between two statements. `PROJECT.json` lists each such
hazard at its line ("hazards"), with the properties that are for it, or the
reason why none covers it yet.

## The modules

| Module | Subject | With |
| --- | --- | --- |
| `Mailbox` | one mailbox's row and bookmarks, and the devices using them | last part of `InboxClientProofs` |
| `MailPlaces` | abstract: in which folders a message is listed | |
| `MoveMessage` | moving and restoring on an IMAP server | `MoveMessageProofs` |
| `Sessions` | sign-ins, sessions, device tokens, accounts | `SessionsProofs` |
| `Compose` | one compose dialog, its draft and its message | last part of `SendingProofs` |
| `Watcher` | the desktop app's watch for new mail | `WatcherProofs` |
| `AddressBook` | the contacts' rows and the four ways they are written | |
| `Sending` | sends from their check to their answer; extends `AddressBook` | `SendingProofs` |
| `Profile` | launches, passwords, connecting and removing on the desktop | `ProfileProofs` |
| `Demo` | the demo mailbox, its reset and its pages | `DemoProofs` |
| `Downloads` | saving files under free names | |
| `Reading` | folders, archives made, attachments; extends `Downloads` | `ReadingProofs` |
| `InboxClient` | the inbox page with its two hooks | `InboxClientProofs` |
| `Null` | the constant for what is not there, which they share | |

Each (but `MailPlaces`, `Null` and those that another extends) has an `MC` module,
which adds only what TLC's configurations need (symmetry sets, constraints, a first
inbox). Two modules share the proofs of another: `Mailbox` is the database's side of
the page, `Compose` the dialog that asks for the sending, so what is proved of them
stands at the end of the proofs of `InboxClient` and of `Sending`. Those extend both
modules, whose names differ for it (`MailboxInit`, `ComposeNext`, ...); the two have
nothing in common but `NULL`.

Requests and statements fail everywhere, as an action of their own (`FailListing`,
`FailWrite`, `GiveUp`, `Drop`, `SaveFails`, ...). An operator whose comment begins
with "Mutant" is not part of the model: it is what the definition after it would be
if the code had a certain bug, and serves to show that a property notices it.

### Mailbox

`mailbox.rs` has one function per request, and each `.await` in it lets other
requests run; so `list_emails` is `StartListing` (SELECT of the row),
`FetchEnvelopes` (IMAP), then one of `ResetForNewNumbering`,
`RecordFirstNumbering` with `AdoptBookmarks`, or `KeepNumbering`, then
`RecordFirstVisit` and `Answer`. `remember` is `ReadNumbering` and
`InsertBookmark`; `set_watermark` is one UPDATE; `move_email` is `MoveOut`
and `Forget`. A message is a pair of UIDVALIDITY and UID; a device can only send
the UID, and the numbering it was meant under (`of`), like the one that was
stored when a marker was written (`under`), is history that no guard reads, and
so is whether a marker was `carried` over: kept by a first listing although
another one had recorded a different numbering since it read the row.
`Renumber` is the mail server's. Every row begins without a numbering, as
`save_account` leaves it; `Upgraded` lets it be one of an earlier release, which
may have a marker and bookmarks before it has a numbering. `Omits` lets the
server leave the UIDVALIDITY out of its answer.

### MoveMessage and MailPlaces

One action per IMAP command: `Find`, then `MoveInOne` where the server has
MOVE, else `MakeCopy`, `FlagOriginal` and, with UIDPLUS, `ExpungeOriginal`. The
commands' effects (`UidCopy`, `UidMove`, `UidStoreDeleted`, `UidExpunge`) are
operators of their own, because `GiveUp` may leave one of them on its way and
`CarryOutLate` carries it out later, whatever happened in between. A UID that is
not there (any more) is no error to an IMAP server, and copies may or may not
keep the `\Deleted` flag. `Tidy` is another program that expunges what is marked.
The devices act on what they show (`shown`), which `Refresh` and the answers to
their own moves alone bring up to date.

`MailPlaces` is what a user is promised: a message is always listed somewhere,
appears in one more folder, or goes from one that is not the last. `MoveMessage`
implements it under the mapping `places <- listedIn`; the property is
`PlacesSpec`.

### Sessions

A sign-in is a number: its device token, its session token and the browser's
cookies all carry it, since all are created and handed out together. What the
code does between two locks or statements is an action: `signin` is
`ForgetPrevious`, `CleanUp`, `InsertToken`, `StartSession`, `Answer`; `signout`
is `DeleteToken`, `RemoveSession`, `Answer`; `get_user_from_jar` is `LookUp` and
then, without a session, `Validate` and `Hydrate`; connecting is `SaveAccount`,
`SelectId`, `AddAccount`; removing is `DeleteAccount` and `RemoveEverywhere`.
A request carries the cookies it was sent with to its end, and what it found out
at its start as well: one let in before a sign-out or a removal goes on after it,
which is why `SignedOut` and `Removed` except such requests and two of the claims
below do not hold. `Forget` and `Expire`
are time and the store's limit; `Restart` is the process. Which device tokens
count as the most recently used is left open, so what is shown does not rest on
`last_used`, which the code keeps only roughly.

### Compose

One dialog from its opening to the end of the requests it leaves behind. A text
is a number, and a change makes it any other, one the form held before included:
the dialog compares contents, so going back to what was saved before is being
saved. `edits` counts the changes, for the bound. `saving` is the promise chain of `saveDraft`:
the first element is the one under way; `ahead` counts the saves that a `send`
or `discard` waits for. JavaScript runs what follows a settled promise before
the next event, hence `ComposeNext == GoOn \/ (~Due /\ Event)`. A save has the text
it was asked for with (`signature`, what counts as saved from then on) and the
one it sends (`content`, what the form holds when its turn comes); `drifted` is
history: the last save that ended had two different ones. A request fails before
or after the server did its part (`SaveFails`, `SendFails`, `DiscardFails`), and
a draft that cannot be removed after its message was sent stays
(`RemoveSentDraft`). `ConnectionEnds` is the page closing the dialog after an answer
401. `Impatient` says whether the user presses Send (Ctrl+Enter, which the
dialog does not stop) while Discard is under way.

### Watcher

`check_all` is `StartRound` and, for each mailbox that was open then, one of
`LeaveAlone` (its password was refused lately), `Fetch` with `Report`, `Refuse`
and `FetchFails`. Everything else runs beside it: mail is delivered, moved out
and renumbered, mailboxes are removed and connected, and `restore_email` moves a
message (`Restore`) before it notes that (`NoteRestored`), if its answer is not
lost (`RestoreFails`). `told` and `settled` are history: what was reported, or
there from the start, and what was put back and noted and met by no check since.
A message put back counts as a new one (`back`), because the code means to
report it again once its note is gone.

### AddressBook and Sending

A row of the address book is written by one statement each: `RecordSeen` and
`RecordSent` for the people of a message opened or sent, `SaveContact` and
`DeleteContact` by hand. A send is a record that goes through the awaits of
`mailbox::send`: the check of what is asked for (lengths, sizes, addresses,
uploads), the attachments of a forwarded message fetched one by one, the SMTP
exchange, the look for a copy the provider filed itself, APPEND, a statement for
each person, and the draft. Each may fail, be given up or, where a server is
asked, be carried out with its answer lost; the request as a whole may be
dropped at any await, as a web server does when its client goes away. Texts are
lengths and files are sizes. The overlapping sends share the address book, the
Sent folder, one draft and the message they forward from.

### Profile

`state.rs` at its awaits: a launch is `ListRows` and `ReadPasswords`; connecting
is `SaveAccount`, `SelectId`, one of the four outcomes at the keychain,
`MarkSaved` and `OpenMailbox`; removing is `DeleteAccount`, `DeletePassword`,
`Unmark` and `CloseMailbox`. Requests overlap, since a command goes on when the
page that sent it has turned away; the keychain may be missing or refuse
anything; `Restart` may come at any step, and each launch decides anew whether
there is a keychain (`credentials.rs:84`). `settled` is history: what the last
request for a mailbox asked for, unless another one, or a keychain that refused
to give up a password, came in between; `left` in it is an older password that
the request could not delete, as its launch had no keychain.

### Demo

`reset_demo` is its statements, before and after `generate_all` is read (which is
one step, as in the code); any may fail and leave the rest undone. Beside it run
the requests of a page (listing, marking, remembering, moving, restoring,
sending, saving a draft or a signature), the message that arrives and the app
quitting. One reset runs at a time, and of one that others interfere with
(`Disturb`) nothing is promised. A list is the set of its UIDs, of which the
newest comes first (`Listed`). The real demo has more
generated messages; what the properties are about is which are moved, the newest
UID and how many are unseen, so three are enough.

### Downloads and Reading

`save_new` tries name after name and creates each only if it does not exist
(`CreateNew`), then writes and, where that fails, removes its own file; whether
that worked is not looked at (`RemoveHalf`), and `left` is history: the files that
stayed half written. A name is
its text, what a file name must not have, and the numbers added. `Reading` has
what comes before: each request asks for the list of folders (`folder_for`,
`Look`), picks the one meant by its mark or its name as `locate` does, may create
an archive, and moves, lists or fetches. `FETCH` answers may be about other
messages, of which `Mine` keeps the right one. Other mail programs create folders
and delete mail. A folder's name is a sequence of parts and delimiters (`Parts`,
which on the instance are all strings).

### InboxClient

One page over the life of several mailboxes. An event's handler, React's
rendering and the effects it causes are one step, as no other event comes in
between (`Show` has the effect that lists a mailbox when it becomes readable).
`fetches` and `searches` are the requests under way, with whether they carry the
last number given out; `saves` is the promise chain of `persistWatermark`;
`lists` are the refreshes of the list of mailboxes, which have no number: each is
read at the server (`ServeList`) and answers (`ListAnswers`, `refresh`) in any
order, so that an older list may replace a newer one. `task` is a mailbox being
connected or removed; once that is answered (`connectWith`, `removeAccount`) its
own refresh is `awaited`, and the others were asked for after an answer 401. The
server is small: what is in each inbox, the marker stored, and whether the
mailbox is open, locked or removed. `list_accounts` reads the session and then the
rows; here it is one reading. `placed` is history: the marker the user set last,
with a save that has not failed; so is `chosen` of a search and of its results:
the mailbox searched was the one the user had chosen, not one the page fell back
to.

## The runs

All bounds are constants, given in the configurations.

| Run | Instance | Shows |
| --- | --- | --- |
| `mailbox` | 2 devices, 1 UID, 2 numberings, a row without a numbering at first, all requests | `MarkerMatchesRow`, `AnswersAreCoherent`: markers and answers never mix numberings, but for a marker carried over by overlapping first listings; `RememberedIsListed`: a bookmark made while the numbering stands still is listed |
| `mailbox_live` | 2 devices, 3 numberings, rows of an earlier release | `NumberingConverges`: whatever overlaps, the stored numbering becomes the server's |
| `mailbox_uid_reuse` | 1 device | violates `MessagesAreThoseMeant` |
| `moves` | 2 devices, 2 messages (one marked by another program), 3 kinds of servers, up to 3 UIDs a folder, 5 copies | `NeverLost`, `MarkedAreKept`, `MovedIsGone`, `PlacesSpec` |
| `sessions` | 2 users, 1 browser, 1 mailbox, 2 requests at a time, 2 sign-ins, 2 account rows, 1 token kept | `OneUserPerSession`, `TokensBounded`, `SignedOutStaysOut`, `RemovedStaysRemoved` |
| `compose` | 2 texts and none, 4 changes, 2 saves in the chain, 2 messages sent | `SavedIsStored`, `ClosingKeepsWriting`, `GoneStaysGone`, `WritingIsSaved` |
| `watcher` | 1 mailbox, 2 messages, 2 UIDs, 2 numberings, 1 restoring a message | `ReportedOnce`, `RestoredIsNotNews`, `NewIsReported` |
| `sending` | 2 sends, 4 addresses (a machine's and the user's own among them), 2 names, 3 kinds of providers, forwards of 2 attachments, requests at each limit and past it | `SentAsAsked`: what goes out is what was asked for; `AnswersAreTrue`: a refusal is true, one copy is filed, only sent mail counts, the draft goes only with its message; `NamesKept`: a name set by hand is never replaced |
| `profile` | 2 mailboxes (one the demo), 2 passwords, 2 requests, any launches, each with a keychain or without | `AsAsked`: the keychain and memory hold what the last undisturbed request asked for; `LaunchEnds` |
| `demo` | 3 messages, 2 openings a run of the app, 1 move at a time, 4 sends into an outbox of 2 | `ArrivalIsNew`, `StartsOver` |
| `reading` | 2 messages, 2 requests, 4 layouts of folders, 3 folders in all, 2 names a file may get, 1 half-written file that stays, 1 row a folder view shows | `MovedIsListed`, `SavedAsListed` |
| `inbox` | 2 mailboxes, 2 UIDs, 3 requests under way (at most 2 listings, 2 lists of mailboxes, 2 saves), 2 choices | `LastChoiceCounts`: no late answer shows one mailbox's list under another, nor the results of a search in a mailbox the user chose under another he chose, and the marker placed last is the one stored; `PageAgrees`: in the end the page shows the inbox and the marker stored |

Why they are enough. *Mailbox*: one UID is the hardest case, for every two
messages of different numberings then share it; two overlapping listings and
writes give every order of two statements; a third numbering lets the older of
two findings be stored last and be repaired. *MoveMessage*: two requests and a
late command of a third are the most that can meet on one message; a folder
needs a UID for the message, for its copy and for the copy a repetition makes.
*Sessions*: one browser whose two sign-ins have different users is where a
session could change hands; a token kept and two sign-ins at a time are what
exceeds the limit of tokens. *Compose*: of the texts one is saved, one waits and
one is newer than either, four changes go to each and back; a second message sent
is a retry. *Watcher*: the second UID is the
first that can be new, in each of two numberings. One password is enough: a
changed one only ends a refusal sooner. *Sending*: the limits of two recipients, one
letter, three bytes and two forwarded attachments each have a request that comes up
to them and one that goes past; two sends are what
the shared rows can tell apart. *Profile*: a request overlaps at most one other
of its mailbox that matters, the other mailbox is the demo, which skips the
keychain; an address removed and added again has a second id. *Demo*: a second
opening meets what the first left or is in the middle of. Its constraints drop
combinations that share no state: `SendsApart` lets mail be sent only where
nothing else goes on, since no step touches both the outbox and the rest;
`OneWritten` has a draft or a signature, not both. *Reading*: the layouts are the
four shapes `locate` tells apart (no archive, all under INBOX, all mail only, an
archive beside it), and the third folder is an archive the app made or one of
another program's; one row in a view makes a second message push the first out;
one file that stays half written is in the way of every other save of its name.
*InboxClient*: two listings, or two lists of mailboxes, give every order of two
answers, a late one included; two saves are one under way and one behind it; three
requests in all let two of a kind meet one of another; two choices (of the user, or mail,
locks and removals elsewhere) are a choice and what overtakes it. The bounds on requests
(`MaxRequests`, `MaxAlike`) hold back the timer and the user, never an answer.
Polling, leaving the page and answers that fail are not bounded.

For the safety of all of these the proofs lift the bounds: they hold for every
number of devices, messages, requests, UIDs and steps, so that a run shows that
the interesting cases happen, finds out cheaply what would not hold, and shows
what must happen in the end, which no proof does.

Symmetry is used for devices, users, browsers and requests where only safety is
checked. Deadlock is checked but in `compose` (a dialog that was closed, with its
requests ended, has nothing more to do) and in `inbox` (a page whose mailboxes
are locked or removed waits for the user).

### Fairness

- `mailbox_live`: an open page asks for the list every two minutes
  (`InboxPage.jsx`), and a listing ends by its timeout, so `Listings` is weakly
  fair for each device. That a server asked again and again answers, and that
  the statements after it succeed, some of the time, is strong fairness of
  `FetchEnvelopes`, `ResetForNewNumbering` and `RecordFirstNumbering`: each may
  fail any number of times, but not always.
- `compose`: what follows a settled promise runs, timers fire, and a save's
  request ends well or badly (all weak). Sends and deletions need not end.
- `watcher`: the loop goes on and a pause ends (weak); a server is not out of
  reach for good, so `Fetch` is strongly fair. No mail need arrive and nobody
  need press anything.
- `profile`: the keychain answers a launch in the end, however it answers (weak);
  `LaunchEnds` excepts a user who starts the app again and again.
- `inbox`: the page is visible, so its timer goes on (`InboxPage.jsx:158`), and
  requests, saves and tasks end, well or badly (weak). A server asked again and
  again answers some of the time, and lists of mailboxes are read and answered some
  of the time, in whatever order (strong): each may fail any number of times. The
  user need do nothing.

## The proofs

TLAPS checks the following for every value of the constants that satisfies the
named assumptions of the module. Those say of what kind a constant is (a number,
a set of requests of the right shape, NULL different from the values it stands
beside) and no more, but for `Requests` in `Sessions`, which is finite because it
is counted, for the first inbox of `MoveMessage`, where no two messages share
a UID, and for the servers of `Reading`, where no two folders share a name. A condition in
the last column is on a constant that chooses what the user may do, or on the kind of
server looked at.

| Theorem | States | For |
| --- | --- | --- |
| `InboxClientProofs!MailboxTyped` | `[]MailboxTypeOK` | all |
| `InboxClientProofs!MarkerFollowsNumbering` | `[]MarkerMatchesRow` | all |
| `InboxClientProofs!AnswersCoherent` | `[]AnswersAreCoherent` | all |
| `InboxClientProofs!RememberedListed` | `RememberedIsListed` | all |
| `MoveMessageProofs!TypeCorrect` | `[]TypeOK` | all |
| `MoveMessageProofs!NothingIsLost` | `[]NeverLost` | all |
| `MoveMessageProofs!MarkedStay` | `[]MarkedAreKept` | all |
| `MoveMessageProofs!MovesAreFinal` | `[]MovedIsGone` | all |
| `MoveMessageProofs!ImplementsMailPlaces` | `PlacesSpec` | all |
| `SessionsProofs!TypeCorrect` | `[]TypeOK` | all |
| `SessionsProofs!OneUser` | `[]OneUserPerSession` | all |
| `SessionsProofs!TokensAreBounded` | `[]TokensBounded` | all |
| `SessionsProofs!SignedOutIsFinal`, `RemovedIsFinal`, `OwnersStay` | `SignedOutStaysOut`, `RemovedStaysRemoved`, `OwnerIsKept` (the last is in no run) | all |
| `SendingProofs!ComposeWellTyped` | `[]ComposeTypeOK` | all |
| `SendingProofs!DraftIsStored` | `[]SavedIsStored` | all |
| `SendingProofs!ClosingKeeps` | `ClosingKeepsWriting` | all |
| `SendingProofs!GoneForGood` | `GoneStaysGone` | `~Impatient`, as the run |
| `WatcherProofs!WellTyped` | `[]TypeOK` | all |
| `WatcherProofs!ReportsOnce` | `[]ReportedOnce` | all |
| `WatcherProofs!RestoredIsKnown` | `[]RestoredIsNotNews` | all |
| `SendingProofs!WellTyped` | `[]TypeOK` | all |
| `SendingProofs!GoesOutAsAsked` | `[]SentAsAsked` | all |
| `SendingProofs!AnswersTrue` | `[]AnswersAreTrue` | all |
| `SendingProofs!NamesKeptByHand` | `NamesKept` | all |
| `ProfileProofs!WellTyped` | `[]TypeOK` | all |
| `ProfileProofs!StaysAsAsked` | `[]AsAsked` | all |
| `InboxClientProofs!WellTyped` | `[]TypeOK` | all |
| `InboxClientProofs!ChoiceCounts` | `[]LastChoiceCounts` | all |
| `DemoProofs!DemoWellTyped` | `[]TypeOK` | all |
| `DemoProofs!DemoArrivalIsNew` | `[]ArrivalIsNew` | all |
| `DemoProofs!DemoStartsOver` | `[]StartsOver` | all |
| `ReadingProofs!ReadingWellTyped` | `[]TypeOK` | all |
| `ReadingProofs!SavedFromTheListed` | `[]SavedAsListed` | all |
| `ReadingProofs!MovedToTheListed` | `[]MovedIsListed` | servers whose delimiter is `.` or `/` |

None of these properties but some of the types is inductive as it stands. The
inductive invariant of a module is `IInv` of its proofs (`DemoInv`, `ReadingInv`,
`DraftInv` for `Compose`, `Coherent` for `Mailbox`; `TypeInv`, `GoneInv` and `KeptInv`
for `MoveMessage`); TLC checked each on the instance of the run before it was proved.

**Mailbox.** The type invariant needs `MailFetched`: a listing past its fetch
holds mail of some numbering, although the server may not have reported which.
`Coherent` is inductive on top of it. A marker on the screen comes from the row
as it was read before the fetch, so the invariant follows it through the
request: a marker in flight was recorded under the numbering read with it
(`stored`), and a listing that gets as far as answering with one has found its
mail to have that numbering. It holds of every account, from the row without a
numbering that connecting leaves, on servers that report UIDVALIDITY or do not, with
one exception in its own words: of two first listings that overlap, the one that
stores its numbering last takes it for the first and keeps a marker placed in
between, which is `carried` from then on (`MarkerIsOfRow` below is the claim without
the exception). A later listing that finds another numbering removes the marker; a
marker set anew is not carried. `RememberedIsListed` rests on `Selected`, that a
bookmark is only ever written under a numbering that was read.

**MoveMessage.** `NeverLost` is not inductive on its own words "is listed
somewhere": a STORE on its way would take the copy away. What is kept is that
some listed copy has no STORE on its way to it (`~Doomed`). A STORE is only ever
sent after a COPY, and the copy has a UID that no request or late command can
name, since UIDs only grow (`Fresh`, part of `TypeInv`). The proof reduces every
action to one of a few changes of the mail (`MailStep`: nothing, a copy, a move,
a mark, a removal) and of the requests (`DoomStep`), and argues about those:
`Step` does this once, and `NeverLostStep`, `GoneStep`, `KeptStep` and the refinement all
use it. `GoneInv` carries `MovedIsGone` back to the request that will be
answered: past its last command its UID is not listed, and a UID below the
folder's next that is not listed stays so (`StaysUnlisted`). The refinement
needs `NeverLost` for `Disappear`'s guard: a mark takes a message off a list
only when another lists it. `MarkedAreKept` says "somewhere"; what is kept is more,
that the copy another program marked stays in the inbox under the UID it arrived
with. It is in no list, so no device shows it (`NotShown`), so no request and no
command left behind is about it (`NotNamed`): a UID EXPUNGE names another, and
without UIDPLUS none is sent.

**Sessions.** `IInv` adds three things to `OneUserPerSession`:
`RequestsHonest` (what a request has found out about its sign-in is true, and a
new sign-in's user is the one recorded), `CookiesHonest` (no browser has
cookies of a sign-in that is not made yet) and `RowsCounted` (no account has an
id not given out, and an id found is one given out). The step properties follow
from `IInv` one step at a time, with a lemma for each of the actions that could
break them. What they say is of a sign-in or an account that no request let in
before is about any more; with such a request both are false (`SignOutRevokes`,
`RemovedIsForgotten` below). `TokensBounded` is not the limit of ten, which overlapping
sign-ins exceed (`TenTokens`), but how far they can. It weighs tokens against the requests about to add one:
only `CleanUp` starts such a request, leaving at most `Keep` tokens; every other
one past its clean-up is a different member of `Requests`.

**Compose.** A save is asked for, waits in the chain, reads the form late and ends
later still, and the form may hold any text again by then, so `SavedIsStored` cannot
go by an order of texts. What is kept is about the save that ended last: but for one
that failed, one that has written and not ended, and one that sent another text than
it counts as saved (`drifted`), the draft's row is what counts as saved, and
between its writing and its end it is what the first save in the chain sent
(`RowKeepsUp`); only that one is past the queue (`OneAtATime`). While the row has
drifted "Draft saved" can be false and closing can lose the text on screen, which is
`DraftSavedIsTrue` and `ClosedIsDrafted` below. `TakenAway` names the only two who may take the row away. That it
stays away (`GoneForGood`) has an invariant of its own: Send and Discard wait for as
many saves as there are in the chain, one of them at a time, and none is added
meanwhile (`OneWaits`, `NoSaveLeft`). This needs `~Impatient`: with a Send that does
not wait for a Discard it is false, as the table below shows.

**Watcher.** `ReportedOnce` compares all that was ever reported. The invariant
places every copy instead: above the newest UID seen, under its numbering, nothing
was spoken of (`AboveIsUntold`), and what came in after a check asked, and before
its answer is looked at, was not either (`SinceIsUntold`). Both depend on a message
being in one place with one number (`OnePlace`, `NumberedOnce`) and on an answer
being about the mailbox that was asked (`OfTheOneAsked`). `SettledIsNoted` is what
lets a check know mail put back for what it is.

**Sending.** `Stands` says for each step of a send what is out, what is filed and
what is left: while attachments are fetched one by one those that are there are
the first of those asked for, in order (`FetchedSoFar`); from the SMTP exchange on
the message is out, and a refusal that has been given means it is not (`GoesOut`);
the copy is filed when the provider or the append has filed it, never by both
(`IsFiled`, `OneCopy`). The address book is tied to the mail by `Counted`: a row
counts at most the mentions of its address in messages recorded by now, a finite
set that grows by the one that is being recorded. The order of the attachments is
proved of `Ascending`, which has every number of a set in its place. Sizes are
compared through `TooLarge` alone: that a list of no attachments is not too large
and that each one is tested is all the argument needs of them.

**Profile.** What a request for a mailbox asked for can be said only of one that no
other disturbs (`alone`, which is history). Such a request is the only one for its
mailbox and nothing is settled about that mailbox while it runs (`OneAtAMailbox`);
`SoFar` says for each of its steps what the row, the keychain and the memory hold by
then. At its end that is the outcome, and `AsAsked` is kept by every step of another
mailbox's request and by a launch, with or without a keychain. What a request could not
delete for want of one is part of what is settled (`left`), and the only password
other than the one asked for that a mailbox may be opened with (`NoneLeftBehind`
below says that there is none). `AfterLaunch` keeps requests and the reading of
saved passwords apart; `NothingKept` and `DemoAccepted` are the cases with no
keychain.

**InboxClient.** An answer changes the page long after it was asked for, so the
invariant is about the requests under way: the one listing that can still be shown
is of the mailbox the hook is at (`OfCursor`), and a search made in a mailbox the
user chose is of the one chosen now (`OfChoice`), since a choice ends the search. The
list of mailboxes the one on screen is worked out from may be older than the one
before it, so nothing is assumed of it: a mailbox it has lost may come back
(`RefreshIs` says what its answers can do). `PlacedStands` follows a marker placed by
hand through the queue: its save is the last one for its mailbox or the marker is
stored, and until the user marks all seen or turns away nothing else marks that
mailbox. `ListStep` reduces every action to one of five things it may do to the list,
`FirstOf` is worked out by `MinIsMember`. Of the results of a search in a mailbox the
page fell back to nothing can be said: another one takes its place as soon as it is in
the list again, the one the user chose included (see `ResultsAreOwn` below).

**Demo.** `ArrivalIsNew` compares the message that arrives with all that pages were
ever shown and have sent back since. The invariant bounds them from above: nothing
handed out, moved or asked to be moved is newer than the newest a list can hold by
now (`HandedOut`), and a reset goes by such lists only (`ByTheList`). Of the marker
that is not so at once: it is below the arrival when the reset sets it, and a page
sets it to what it has seen (`MarkerBelow`). The reset is held to its promise step by
step (`Sofar`); what it reads in the middle, before or after the message came, is
still the list or the list without its newest (`Whole`), so that in the end the
positions are those of a list one message may have been put in front of (`Over`,
`ListedAfter`). That a finite set has exactly one message at each position (`Places`)
is what lets `Listed`, a CHOOSE, be reasoned about.

**Reading.** Two halves, which meet in the request that saves. `SavesApart` is about
the files: a save that has created one is alone with it and nobody was told of it,
so a write that fails takes away its own file only, and a path given out stays
taken; one that fails to take it away leaves a file that no other save is alone
with. `AsFound` and `MovedInPlace` are about the server: while the app alone makes
folders, a request at work knows the folder its kind is found as, a row a page shows
is at its place in that folder or gone, and mail moved is in it. The one step that
could change what kinds are found as is `CreateArchive`; it makes a folder with no
mark and a name no other kind is looked for under, and only where no archive is found
(`locate` would otherwise answer that one). That the one it makes is found by name
afterwards needs the delimiter to be one `FOLDER_NAMES` has; this is the hypothesis
of `MovedToTheListed`, and it is needed: see the first of the smaller differences
below. `SavedFromTheListed` does not need it. That a message in a
folder is in its view, or the view is full, is `InTheView`: the newest of finitely
many are as many as asked for, or all (`NewestFill`).

Only model-checked: liveness (`NumberingConverges`, `WritingIsSaved`,
`NewIsReported`, `LaunchEnds`, `PageAgrees`), which is out of the prover's reach;
that the cases of interest happen; and of course the counterexamples. No invariant
and no step property of a run is left to TLC alone. What a fold over a sequence
amounts to (the bytes of `TooLarge`) is evaluated by TLC and left alone by the proofs.

## Where the code and its documents differ

One is a run that ends in a counterexample, and an entry of "findings" with the
lines of both.

- `mailbox_uid_reuse`. A marker or a bookmark is stored under the numbering that
  the row has when the request arrives, not the one of the list it was taken
  from. A listing that finds the inbox renumbered, and whose answer is not shown
  yet, is enough for the UID to name another message.

The others are stated in their modules, under "claims the code does not keep",
without a run of their own. TLC shows each when the property is put into the
configuration named, changed as said.

| Property | Configuration | What happens |
| --- | --- | --- |
| `BookmarksBackfilled` | `MailboxOverlap.cfg`, one device, `Upgraded = TRUE` | The first listing stores the numbering, then adopts the old bookmarks (`mailbox.rs:136`). If it ends in between, no later one does that. |
| `MarkerIsOfRow` | `MailboxOverlap.cfg` | Of two first listings of a new account that overlap a renumbering, the one that stores last takes its numbering for the first (`mailbox.rs:135`) and keeps a marker placed under the other's: "a changed UIDVALIDITY means stored UIDs may now name different messages". |
| `RestoredIsListed` | `MoveMessage.cfg`, one device, one message, a server without MOVE and UIDPLUS, six copies | After a move whose answer was lost and that was done again, the newest copy in the folder can be one marked deleted; Undo brings back that one and reports success (`imap_client.rs:681`). |
| `TenTokens` | `Sessions.cfg`, one user, `MaxSignIns = 3` | "keep at most ten tokens" (`REVIEW_REMEDIATION_PLAN.md:13`): sign-ins that overlap delete the tokens beyond nine before any of them adds its own. |
| `SignOutRevokes` | `Sessions.cfg` | A request that validated the device token before the sign-out deleted it makes the session again after the sign-out removed it (`auth.rs:250`): the cookies go on letting their holder in. |
| `RemovedIsForgotten` | `Sessions.cfg` | A connect that had the account's id when it was removed, or a removal that ends between its two steps, leaves the password of a deleted account in a session (`session.rs`, "in every session that holds it"). |
| `AccountsAreOwn` | `Sessions.cfg`, two browsers | `save_account` finds its row by address in a second statement. A removal and another user's connection in between give a session another user's account (`account.rs:249`). |
| `DraftSavedIsTrue` | `Compose.cfg` | A save asked for with one text waits for another, and sends what the form holds when its turn comes; a user who then goes back to the first text is shown "Draft saved" and the row holds the second (`ComposeDialog.jsx:115`, `:157`). |
| `ClosedIsDrafted` | `Compose.cfg` | A dialog taken away by an answer 401 (`InboxPage.jsx:124`), closed while a save is awaited and the user types on, or closed at once on a text that counts as saved as above, leaves text that is in no draft. |
| `GoneStaysGone` | `Compose.cfg`, `Impatient = TRUE` | Send and Discard share one flag (`ComposeDialog.jsx:317`); a send that fails while the draft is being deleted lets a save bring it back. |
| `NamesOnlyFilled` | `Sending.cfg` | A reply takes the name the message gives its sender, which replaces the name the address book had, where the comment says that it only fills in a missing one (`contacts.rs:90`). |
| `NoneLeftBehind` | `Profile.cfg` | A launch without a keychain replaces or removes a password and cannot delete the one an earlier launch saved; a later one with it opens the mailbox with that (`state.rs`: "don't leave an older password behind to be used on the next launch"). |
| `NothingHalfWritten` | `Reading.cfg` | Whether the file of a failed write could be removed is not looked at (`downloads.rs:41`): it may stay under the name, where the comment says that none does. |
| `ResultsAreOwn` | `InboxClient.cfg` | A mailbox that is locked or removed elsewhere while its search results are shown, or another that comes back to the list, also by a list that was read earlier and answers later (`useAccounts.js:33`): the page goes on to another mailbox and keeps the results, which then open there (`InboxPage.jsx:119`; "never show one account's emails under another", `useEmails.js:63`). |

Smaller ones, seen while reading and left out of the models or written into them
as they are:

- An archive created under INBOX on a server whose delimiter is neither "." nor
  "/" is not found by its name again (`imap_client.rs:592`).
- A provider that files sent mail later than the look for its copy gives two
  copies in the Sent folder (`imap_client.rs:736`); `Sending` has providers that
  file at once, or not.
- An address in both To and Cc is counted twice by `times_sent`.
- A full demo outbox drops its oldest message and renumbers the others
  (`fake_mail.rs:918`), so that a Sent folder loaded before opens another one.
- `useEmails.js:49` says that a marker placed by hand turns automatic updates off
  "for this page load"; changing the mailbox turns them on again.
- Mail that arrives under the "Add a mailbox" form, or while a message is read,
  is marked seen on leaving the page (`InboxPage.jsx:140` asks only for searches
  and folders).
- Requests for the bookmark list have no number (`useRemembered.js:19`): one of
  the mailbox left that answers late hides the new one's bookmarks, and answers
  out of order show an old list, until the next.
- `session.rs:198`: a token's last use is written only when no session is in
  memory. `state.rs:33`: the notes of restored mail are shared by all mailboxes.
  `commands.rs:272`: the note is taken after the move.
- Limits that overlapping requests pass together: drafts (`drafts.rs:122`),
  failed attempts (`rate_limit.rs:38`) and device tokens (`TenTokens` above).

## What is not modelled

- *Left out of the modules above*, because the properties do not depend on it:
  the contents of mail, dates and the window of days shown, quotas, passwords'
  hashing, the times behind expiry and `last_used`, accounts from before users
  existed; MIME structure, threading headers and wording of outgoing mail; hosts
  and ports; what makes an address a machine's; the mark of the web.
- *Components not modelled*: the attempt limiter (a map under one lock and a
  clock; its one hazard is above), signatures (one row, single statements; the
  demo's reset of it is in `Demo`), routes and transports (they look up and
  call), the database's opening and migrations (their rows are the initial
  states), the desktop shell, screens and text helpers, configuration.
- *Of the inbox page*: `useRemembered` and `useDrafts`, the message open, Undo
  and restoring (in `MoveMessage`), the demo's `reload`, signing out, the page
  hidden (its timer then stands still), the forms and the cursor of the window.
  Mail is moved out of the inbox by this page alone, and numbering is fixed
  (`Mailbox` has renumbering).
- *Of Reading*: the parsing of messages; All Mail is a plain folder; a message
  has one attachment; once others have created a folder, rows listed before are
  exempt, because a folder's UID then may name another folder's message. Its folders
  are not renumbered, and neither is the message that `Sending` forwards: it can be
  moved away, but its UID never comes to name another one.
- *Of Downloads*: other programs leave alone what is being written, and the app
  does not quit in the middle of a write, which would leave a half-written file too.
- *Outside the code*: the IMAP and SMTP servers, other mail programs, the keychain
  and the file system are modelled by what the code relies on.
- *A sent message whose answer was lost* may be sent again; SMTP gives no means
  to tell. `Sending` lets that failure alone leave a message delivered.
- *The watch over several mailboxes*: the instance has one.

## The plan

Done, in the order of importance: `Mailbox`, `MoveMessage` with `MailPlaces`,
`Sessions`, `Compose`, `Watcher`, and the proofs of the first three; then
`Sending` with `AddressBook`, `Profile`, `Demo`, `Reading` with `Downloads`, and
`InboxClient`. Runs are kept few: a new module brings one passing run, and takes
that of a difference already told, which stays as a property in its module.

Proved, in this order: `Mailbox`, `MoveMessage` with its refinement, `Sessions`,
`Compose`, `Watcher`, `Profile`, `Sending`, `InboxClient`, `Reading` and `Demo`, each
with its types and every safety property its run checks.

What is left lies outside the modules: the bookmark list of the inbox page
(`useRemembered`), whose requests have no number, and a move, a lost answer and an
Undo over folders the server renames.
