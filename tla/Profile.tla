------------------------------ MODULE Profile ------------------------------
(***************************************************************************)
(* The desktop app's profile: the mailboxes in its database, which of them *)
(* are open, and the passwords in the operating system's keychain          *)
(* (desktop/src/state.rs, credentials.rs, commands.rs and                  *)
(* crates/core/src/account.rs), over launches.  Requests are cancelled     *)
(* only on the screen, so they overlap.  The keychain may refuse anything, *)
(* and the app may quit at any await.                                      *)
(*                                                                         *)
(* An account's id is its mailbox and the number of times it was added.    *)
(* "left" and "alone" of a request are history, for "settled": the         *)
(* password that could not be taken out of the keychain, and whether no    *)
(* other request for the mailbox ran meanwhile.                            *)
(***************************************************************************)
EXTENDS Null, Naturals

CONSTANTS
    Mailboxes,
    Demo,             \* those with the demo's address and host
    Passwords, DemoPassword,
    Requests,
    MaxIds            \* bound: how often each mailbox is added anew

ASSUME ProfileAssumption ==
    /\ Demo \subseteq Mailboxes /\ DemoPassword \in Passwords
    /\ MaxIds \in [Mailboxes -> Nat]
ASSUME NullAssumption == NULL \notin Passwords \union Nat

Ids(m) == 1..MaxIds[m]

VARIABLES
    store,      \* whether this launch has a keychain
    keychain,   \* the passwords in it
    rows,       \* the ids in the accounts table
    connected,  \* the passwords in memory, by mailbox and id
    saved,      \* saved_emails
    loading,    \* where the launch is
    request,
    settled     \* history: what the last request for a mailbox made of it, if
                \* nothing else touched it meanwhile

vars == <<store, keychain, rows, connected, saved, loading, request, settled>>
memory == <<connected, saved>>

Idle == [at |-> "idle"]
Request == [at: {"saving", "selecting", "keychain", "marking", "opening",
                 "deleting", "forgetting", "unmarking", "closing"},
            mailbox: Mailboxes, password: Passwords \union {NULL}, remember: BOOLEAN,
            id: Nat \union {NULL}, kept: BOOLEAN,
            left: Passwords \union {NULL}, alone: BOOLEAN]
Outcome == [listed: BOOLEAN, password: Passwords \union {NULL}, kept: BOOLEAN,
            left: Passwords \union {NULL}]

TypeOK ==
    /\ store \in BOOLEAN
    /\ keychain \in [Mailboxes -> Passwords \union {NULL}]
    /\ \A m \in Mailboxes : rows[m] \in Ids(m) \union {NULL}
    /\ \A m \in Mailboxes : connected[m] \in [Ids(m) -> Passwords \union {NULL}]
    /\ saved \subseteq Mailboxes
    /\ loading \in {"listing", "reading", "done"}
    /\ request \in [Requests -> Request \union {Idle}]
    /\ \A r \in Requests : request[r].at \notin {"idle", "saving", "selecting"} =>
           request[r].id \in Ids(request[r].mailbox)
    /\ settled \in [Mailboxes -> Outcome \union {NULL}]

Closed == [m \in Mailboxes |-> [id \in Ids(m) |-> NULL]]

Init ==
    /\ store \in BOOLEAN
    /\ keychain = [m \in Mailboxes |-> NULL]
    /\ rows = [m \in Mailboxes |-> NULL]
    /\ connected = Closed /\ saved = {}
    /\ loading = "listing"
    /\ request = [r \in Requests |-> Idle]
    /\ settled = [m \in Mailboxes |-> NULL]

Loaded == loading = "done"
Listed == {m \in Mailboxes : rows[m] # NULL}
Open(m) == rows[m] # NULL /\ connected[m][rows[m]] # NULL

-----------------------------------------------------------------------------
(* Launch *)

\* The demo is open at once; without a keychain that is all.
ListRows ==
    /\ loading = "listing"
    /\ connected' = [m \in Mailboxes |-> [id \in Ids(m) |->
           IF m \in Demo /\ rows[m] = id THEN DemoPassword ELSE connected[m][id]]]
    /\ loading' = IF store THEN "reading" ELSE "done"
    /\ UNCHANGED <<store, keychain, rows, saved, request, settled>>

\* Mutant of ListFails: nobody is told.
ListFailsSilently ==
    /\ loading = "listing"
    /\ loading' = "failed"
    /\ UNCHANGED <<store, keychain, rows, memory, request, settled>>

ListFails ==
    /\ loading = "listing"
    /\ loading' = "done"
    /\ UNCHANGED <<store, keychain, rows, memory, request, settled>>

\* The passwords that can be read, of the mailboxes that are listed
ReadPasswords ==
    /\ loading = "reading"
    /\ \E read \in SUBSET {m \in Listed \ Demo : keychain[m] # NULL} :
           /\ saved' = saved \union read
           /\ connected' = [m \in Mailboxes |-> [id \in Ids(m) |->
                IF m \in read /\ rows[m] = id THEN keychain[m] ELSE connected[m][id]]]
    /\ loading' = "done"
    /\ UNCHANGED <<store, keychain, rows, request, settled>>

-----------------------------------------------------------------------------
(* Connecting and removing *)

Begin(r, req) ==
    /\ request[r] = Idle
    /\ LET others == {s \in Requests : request[s] # Idle /\ request[s].mailbox = req.mailbox}
       IN  request' = [s \in Requests |->
                IF s = r THEN [req EXCEPT !.alone = (others = {})]
                ELSE IF s \in others THEN [request[s] EXCEPT !.alone = FALSE]
                ELSE request[s]]
    /\ settled' = [settled EXCEPT ![req.mailbox] = NULL]

At(r, step) == request[r].at = step
Go(r, step) == request' = [request EXCEPT ![r].at = step]
End(r, outcome) ==
    /\ request' = [request EXCEPT ![r] = Idle]
    /\ settled' = [settled EXCEPT ![request[r].mailbox] =
                      IF request[r].alone THEN outcome ELSE @]

\* Commands are offered once the list is there.
Connect(r, m, password, remember) ==
    /\ Loaded
    /\ Begin(r, [at |-> "saving", mailbox |-> m, password |-> password,
                 remember |-> remember, id |-> NULL, kept |-> FALSE,
                 left |-> NULL, alone |-> TRUE])
    /\ UNCHANGED <<store, keychain, rows, memory, loading>>

\* The mail server refuses or does not answer, or a statement fails.
ConnectFails(r) ==
    /\ request[r].at \in {"saving", "selecting"}
    /\ End(r, NULL)
    /\ UNCHANGED <<store, keychain, rows, memory, loading>>

\* An id never given before: none of the row, memory or a request.
Fresh(m) == {id \in Ids(m) : /\ rows[m] # id /\ connected[m][id] = NULL
                          /\ \A r \in Requests : request[r] = Idle
                                \/ request[r].mailbox # m \/ request[r].id # id}

\* The mail server accepts; save_account: the upsert, then the id
SaveAccount(r) ==
    LET m == request[r].mailbox
    IN  /\ At(r, "saving")
        /\ m \in Demo => request[r].password = DemoPassword
        /\ IF rows[m] # NULL THEN UNCHANGED rows
           ELSE \E id \in Fresh(m) : rows' = [rows EXCEPT ![m] = id]
        /\ Go(r, "selecting")
        /\ UNCHANGED <<store, keychain, memory, loading, settled>>

\* Mutant of SelectId: that there is a row is taken for granted.
SelectAnyway(r) ==
    /\ At(r, "selecting")
    /\ request' = [request EXCEPT ![r].at = "keychain",
                                  ![r].id = rows[request[r].mailbox]]
    /\ UNCHANGED <<store, keychain, rows, memory, loading, settled>>

SelectId(r) ==
    /\ At(r, "selecting") /\ rows[request[r].mailbox] # NULL
    /\ request' = [request EXCEPT ![r].at = "keychain",
                                  ![r].id = rows[request[r].mailbox]]
    /\ UNCHANGED <<store, keychain, rows, memory, loading, settled>>

Keep(r, password, kept) ==
    /\ keychain' = [keychain EXCEPT ![request[r].mailbox] = password]
    /\ request' = [request EXCEPT ![r].at = "marking", ![r].kept = kept,
                                  ![r].remember = FALSE]
    /\ UNCHANGED <<store, rows, memory, loading, settled>>

Leave(r) ==
    /\ request' = [request EXCEPT ![r].at = "marking", ![r].remember = FALSE,
                                  ![r].left = keychain[request[r].mailbox]]
    /\ UNCHANGED <<store, keychain, rows, memory, loading, settled>>

NoKeychain(r) == ~store \/ request[r].mailbox \in Demo

SkipKeychain(r) ==
    /\ At(r, "keychain") /\ NoKeychain(r)
    /\ Leave(r)

SavePassword(r) ==
    /\ At(r, "keychain") /\ ~NoKeychain(r) /\ request[r].remember
    /\ Keep(r, request[r].password, TRUE)

\* It was not asked for, or cannot be saved.
ForgetPassword(r) ==
    /\ At(r, "keychain") /\ ~NoKeychain(r)
    /\ Keep(r, NULL, FALSE)

\* Nor can an older one be deleted, which only the log is told.
KeychainFails(r) ==
    /\ At(r, "keychain") /\ ~NoKeychain(r)
    /\ Leave(r)

\* Mutant of MarkSaved: it only ever adds.
MarkOnly(r) ==
    /\ At(r, "marking")
    /\ saved' = IF request[r].kept THEN saved \union {request[r].mailbox} ELSE saved
    /\ Go(r, "opening")
    /\ UNCHANGED <<store, keychain, rows, connected, loading, settled>>

MarkSaved(r) ==
    /\ At(r, "marking")
    /\ saved' = IF request[r].kept THEN saved \union {request[r].mailbox}
                ELSE saved \ {request[r].mailbox}
    /\ Go(r, "opening")
    /\ UNCHANGED <<store, keychain, rows, connected, loading, settled>>

OpenMailbox(r) ==
    /\ At(r, "opening")
    /\ connected' = [connected EXCEPT ![request[r].mailbox][request[r].id] =
                        request[r].password]
    /\ End(r, [listed |-> TRUE, password |-> request[r].password,
               kept |-> request[r].kept, left |-> request[r].left])
    /\ UNCHANGED <<store, keychain, rows, saved, loading>>

\* remove_account: the row was there, or there is nothing to remove.
Remove(r, m) ==
    /\ Loaded /\ rows[m] # NULL
    /\ Begin(r, [at |-> "deleting", mailbox |-> m, password |-> NULL,
                 remember |-> FALSE, id |-> rows[m], kept |-> FALSE,
                 left |-> NULL, alone |-> TRUE])
    /\ UNCHANGED <<store, keychain, rows, memory, loading>>

DeleteAccount(r) ==
    LET m == request[r].mailbox
    IN  /\ At(r, "deleting")
        /\ IF rows[m] = request[r].id
           THEN /\ rows' = [rows EXCEPT ![m] = NULL]
                /\ Go(r, "forgetting")
                /\ UNCHANGED settled
           ELSE End(r, NULL) /\ UNCHANGED rows
        /\ UNCHANGED <<store, keychain, memory, loading>>

\* The keychain has nothing of the demo's to delete; it may refuse.
DeletePassword(r) ==
    /\ At(r, "forgetting")
    /\ \E done \in BOOLEAN :
           /\ keychain' = IF store /\ done
                          THEN [keychain EXCEPT ![request[r].mailbox] = NULL] ELSE keychain
           /\ request' = [request EXCEPT ![r].at = "unmarking",
                                         ![r].left = keychain'[request[r].mailbox]]
    /\ UNCHANGED <<store, rows, memory, loading, settled>>

Unmark(r) ==
    /\ At(r, "unmarking")
    /\ saved' = saved \ {request[r].mailbox}
    /\ Go(r, "closing")
    /\ UNCHANGED <<store, keychain, rows, connected, loading, settled>>

CloseMailbox(r) ==
    /\ At(r, "closing")
    /\ connected' = [connected EXCEPT ![request[r].mailbox][request[r].id] = NULL]
    /\ End(r, [listed |-> FALSE, password |-> NULL, kept |-> FALSE,
               left |-> request[r].left])
    /\ UNCHANGED <<store, keychain, rows, saved, loading>>

\* The app quits, or is killed, and is started again; system_store decides anew
\* whether there is a keychain.
Restart ==
    /\ store' \in BOOLEAN
    /\ connected' = Closed /\ saved' = {}
    /\ loading' = "listing"
    /\ request' = [r \in Requests |-> Idle]
    /\ UNCHANGED <<keychain, rows, settled>>

-----------------------------------------------------------------------------
Launch == ListRows \/ ListFails \/ ReadPasswords

Serve(r) ==
    \/ ConnectFails(r) \/ SaveAccount(r) \/ SelectId(r)
    \/ SkipKeychain(r) \/ SavePassword(r) \/ ForgetPassword(r) \/ KeychainFails(r)
    \/ MarkSaved(r) \/ OpenMailbox(r)
    \/ DeleteAccount(r) \/ DeletePassword(r) \/ Unmark(r) \/ CloseMailbox(r)

Next ==
    \/ Launch
    \/ \E r \in Requests, m \in Mailboxes :
          \/ \E password \in Passwords, remember \in BOOLEAN :
                Connect(r, m, password, remember)
          \/ Remove(r, m)
    \/ \E r \in Requests : Serve(r)
    \/ Restart

Spec == Init /\ [][Next]_vars

\* The keychain answers in the end, however it answers.
FairSpec == Spec /\ WF_vars(Launch)
-----------------------------------------------------------------------------
(* Properties *)

\* What an undisturbed request asked for stays so, over launches with and
\* without a keychain and whatever is done to other mailboxes or went wrong
\* before: the keychain holds the password if and only if that was asked for and
\* told, or an older one that this launch had no keychain to delete it from, or
\* the keychain refused to delete (add_connected, remove_account).
KeychainAsAsked ==
    \A m \in Mailboxes : settled[m] # NULL =>
        /\ (rows[m] # NULL) = settled[m].listed
        /\ keychain[m] = IF settled[m].kept THEN settled[m].password ELSE settled[m].left

\* Likewise in memory: a mailbox is only ever open with the password of the
\* last request, and the list says that a password is saved only if it is;
\* with an older one only where that was left in the keychain.
OpenAsAsked ==
    \A m \in Mailboxes : settled[m] # NULL =>
        /\ m \in saved => settled[m].kept \/ settled[m].left # NULL
        /\ Open(m) => connected[m][rows[m]] \in {settled[m].password, settled[m].left}

\* Both, of the keychain and of memory
AsAsked == KeychainAsAsked /\ OpenAsAsked

\* The page, which waits for the list, gets it however the launch goes, unless
\* the app is started again and again.
LaunchEnds == []<>Loaded \/ []<><<Restart>>_vars

-----------------------------------------------------------------------------
(* A claim of the repository that the code does not keep *)

\* A password that was replaced or removed is not there for the next launch
\* ("don't leave an older password behind to be used on the next launch",
\* state.rs).  A launch without a keychain cannot delete it, and a keychain may
\* refuse; a later launch opens the mailbox with it.
NoneLeftBehind ==
    \A m \in Mailboxes : settled[m] # NULL => settled[m].left = NULL
=============================================================================
