------------------------------ MODULE Sessions ------------------------------
(***************************************************************************)
(* The web server's sign-ins and mail accounts: the in-memory session      *)
(* store (server/src/session.rs), the device tokens and accounts of the    *)
(* database, and the requests that use them (server/src/handlers/auth.rs,  *)
(* accounts.rs).  One action per lock taken or SQL statement: between two  *)
(* of them other requests run, and a request can end at any point (its     *)
(* client goes away, a statement fails, the server stops).                 *)
(*                                                                         *)
(* Abstractions.  A sign-in creates one device token and one session       *)
(* token, handed out together, so both are named by the sign-in's number   *)
(* and a cookie jar is such a number.  Time is left out: a token or        *)
(* session may expire whenever it likes, and where the code keeps the most *)
(* recently used ones, which they are is open, so that last_used need not  *)
(* be followed.  Passwords are checked elsewhere; the mail server may      *)
(* refuse one.                                                             *)
(***************************************************************************)
EXTENDS Null, Naturals, FiniteSets

CONSTANTS
    Users,
    Browsers,
    Mailboxes,  \* mail addresses that can be connected
    Requests,   \* bound: requests at a time
    Keep,       \* device tokens kept when another is added (9)
    MaxSignIns, \* bound: sign-ins
    MaxIds      \* bound: account rows ever created

SignIns == 1..MaxSignIns
Ids == 1..MaxIds

ASSUME BoundsAssumption == Keep \in Nat /\ MaxSignIns \in Nat /\ MaxIds \in Nat
ASSUME RequestsAssumption == IsFiniteSet(Requests)

VARIABLES
    signedIn,  \* per sign-in so far, its user
    tokens,    \* device_tokens: the user of each
    sessions,  \* the session store
    accounts,  \* accounts, by id
    ids,       \* account ids given out
    cookies,   \* per browser, its jar: a sign-in, or 0 for none
    request    \* the requests in progress

vars == <<signedIn, tokens, sessions, accounts, ids, cookies, request>>
database == <<tokens, accounts, ids>>

\* "accounts": per account whose password the session holds, who gave it
Session == [user: Users \union {NULL}, accounts: [Ids -> Users \union {NULL}]]
Account == [mailbox: Mailboxes, owner: Users]

\* A request's jar is the one it was sent with; a sign-in's becomes its new
\* one.  "user" and "account" are what it has found out (NULL, 0 before).
Request == [browser: Browsers,
            kind: {"signin", "signout", "connect", "remove"},
            stage: {"start", "cleanup", "insert", "session", "forget",
                    "validate", "hydrate", "authorized", "select", "add",
                    "purge", "answer"},
            jar: 0..MaxSignIns, user: Users \union {NULL},
            mailbox: Mailboxes \union {NULL}, account: 0..MaxIds]

ASSUME NullAssumption ==
    NULL \notin Users \union Mailboxes \union Session \union Account \union Request

TypeOK ==
    /\ signedIn \in [SignIns -> Users \union {NULL}]
    /\ tokens \in [SignIns -> Users \union {NULL}]
    /\ sessions \in [SignIns -> Session \union {NULL}]
    /\ accounts \in [Ids -> Account \union {NULL}]
    /\ ids \in 0..MaxIds
    /\ cookies \in [Browsers -> 0..MaxSignIns]
    /\ request \in [Requests -> Request \union {NULL}]

Init ==
    /\ signedIn = [n \in SignIns |-> NULL]
    /\ tokens = [n \in SignIns |-> NULL]
    /\ sessions = [n \in SignIns |-> NULL]
    /\ accounts = [i \in Ids |-> NULL]
    /\ ids = 0
    /\ cookies = [b \in Browsers |-> 0]
    /\ request = [r \in Requests |-> NULL]

-----------------------------------------------------------------------------
(* The session store, and what time does to it and to device tokens *)

Current(n) == IF sessions[n] = NULL
              THEN [user |-> NULL, accounts |-> [i \in Ids |-> NULL]]
              ELSE sessions[n]

\* Mutant of SetUser: a bare session instead of a change to the one there
BareSession(n, u) == sessions' = [sessions EXCEPT ![n] = [user |-> u]]

SetUser(n, u) ==
    sessions' = [sessions EXCEPT ![n] = [Current(n) EXCEPT !.user = u]]

\* A session expires, or makes room for another (prune, enforce_capacity).
Forget(n) ==
    /\ sessions[n] # NULL
    /\ sessions' = [sessions EXCEPT ![n] = NULL]
    /\ UNCHANGED <<signedIn, database, cookies, request>>

\* A device token is too old; the next clean-up deletes its row.
Expire(n) ==
    /\ tokens[n] # NULL
    /\ tokens' = [tokens EXCEPT ![n] = NULL]
    /\ UNCHANGED <<signedIn, accounts, ids, sessions, cookies, request>>

-----------------------------------------------------------------------------
(* Requests *)

At(r, kinds, stage) ==
    /\ request[r] # NULL
    /\ request[r].kind \in kinds
    /\ request[r].stage = stage

To(r, stage) == request' = [request EXCEPT ![r] = [@ EXCEPT !.stage = stage]]
End(r) == request' = [request EXCEPT ![r] = NULL]

ForUsers == {"connect", "remove"}

Send(r, b, kind, user, mailbox, account) ==
    /\ request[r] = NULL
    /\ request' = [request EXCEPT ![r] =
           [browser |-> b, kind |-> kind, stage |-> "start",
            jar |-> cookies[b], user |-> user, mailbox |-> mailbox,
            account |-> account]]
    /\ UNCHANGED <<signedIn, database, sessions, cookies>>

Asks(r, b) ==
    \/ \E u \in Users : Send(r, b, "signin", u, NULL, 0)
    \/ cookies[b] # 0 /\
         \/ Send(r, b, "signout", NULL, NULL, 0)
         \/ \E m \in Mailboxes : Send(r, b, "connect", NULL, m, 0)
         \/ \E i \in 1..ids : Send(r, b, "remove", NULL, NULL, i)

\* The client goes away, a statement fails, or the answer is lost.
Drop(r) ==
    /\ request[r] # NULL
    /\ End(r)
    /\ UNCHANGED <<signedIn, database, sessions, cookies>>

Restart ==
    /\ sessions' = [n \in SignIns |-> NULL]
    /\ request' = [r \in Requests |-> NULL]
    /\ UNCHANGED <<signedIn, database, cookies>>

-----------------------------------------------------------------------------
(* register and signin, from issue_session on *)

ForgetPrevious(r) ==
    /\ At(r, {"signin"}, "start")
    /\ sessions' = IF request[r].jar = 0 THEN sessions
                   ELSE [sessions EXCEPT ![request[r].jar] = NULL]
    /\ To(r, "cleanup")
    /\ UNCHANGED <<signedIn, database, cookies>>

TokensOf(u) == {n \in SignIns : tokens[n] = u}

\* Mutant of CleanUp: one more is kept.
KeepOneMore(r) ==
    /\ At(r, {"signin"}, "cleanup")
    /\ \E kept \in SUBSET TokensOf(request[r].user) :
          /\ Cardinality(kept) <= Keep + 1
          /\ kept = TokensOf(request[r].user) \/ Cardinality(kept) = Keep + 1
          /\ tokens' = [n \in SignIns |->
                 IF n \in TokensOf(request[r].user) \ kept
                 THEN NULL ELSE tokens[n]]
    /\ To(r, "insert")
    /\ UNCHANGED <<signedIn, accounts, ids, sessions, cookies>>

\* cleanup_device_tokens: the Keep most recently used stay.
CleanUp(r) ==
    /\ At(r, {"signin"}, "cleanup")
    /\ \E kept \in SUBSET TokensOf(request[r].user) :
          /\ Cardinality(kept) <= Keep
          /\ kept = TokensOf(request[r].user) \/ Cardinality(kept) = Keep
          /\ tokens' = [n \in SignIns |->
                 IF n \in TokensOf(request[r].user) \ kept
                 THEN NULL ELSE tokens[n]]
    /\ To(r, "insert")
    /\ UNCHANGED <<signedIn, accounts, ids, sessions, cookies>>

Unused(n) == signedIn[n] = NULL /\ \A m \in SignIns : m < n => signedIn[m] # NULL

\* Mutant of NewToken: a browser that has tokens keeps them.
KeepsToken(r, n) == IF request[r].jar = 0 THEN Unused(n) ELSE n = request[r].jar

\* Both tokens are random UUIDs, new for each sign-in.
NewToken(r, n) == Unused(n)

\* create_device_token
InsertToken(r) ==
    /\ At(r, {"signin"}, "insert")
    /\ \E n \in SignIns :
          /\ NewToken(r, n)
          /\ signedIn' = [signedIn EXCEPT ![n] = request[r].user]
          /\ tokens' = [tokens EXCEPT ![n] = request[r].user]
          /\ request' = [request EXCEPT ![r] =
                 [@ EXCEPT !.stage = "session", !.jar = n]]
    /\ UNCHANGED <<accounts, ids, sessions, cookies>>

StartSession(r) ==
    /\ At(r, {"signin"}, "session")
    /\ SetUser(request[r].jar, request[r].user)
    /\ To(r, "answer")
    /\ UNCHANGED <<signedIn, database, cookies>>

-----------------------------------------------------------------------------
(* signout *)

DeleteToken(r) ==
    /\ At(r, {"signout"}, "start")
    /\ tokens' = [tokens EXCEPT ![request[r].jar] = NULL]
    /\ To(r, "forget")
    /\ UNCHANGED <<signedIn, accounts, ids, sessions, cookies>>

RemoveSession(r) ==
    /\ At(r, {"signout"}, "forget")
    /\ sessions' = [sessions EXCEPT ![request[r].jar] = NULL]
    /\ To(r, "answer")
    /\ UNCHANGED <<signedIn, database, cookies>>

\* The browser takes the cookies of the answer; a sign-out's removes them.
Answer(r) ==
    /\ At(r, {"signin", "signout"}, "answer")
    /\ cookies' = [cookies EXCEPT ![request[r].browser] =
           IF request[r].kind = "signin" THEN request[r].jar ELSE 0]
    /\ End(r)
    /\ UNCHANGED <<signedIn, database, sessions>>

-----------------------------------------------------------------------------
(* get_user_from_jar.  The requests that only read do this too, as a connect *)
(* that is dropped then.                                                    *)

LookUp(r) ==
    /\ At(r, ForUsers, "start")
    /\ LET known == Current(request[r].jar).user
       IN  request' = [request EXCEPT ![r] =
               [@ EXCEPT !.stage = IF known # NULL THEN "authorized" ELSE "validate",
                         !.user = known]]
    /\ UNCHANGED <<signedIn, database, sessions, cookies>>

\* Mutant of Validate: the cookie is believed.
BelieveCookie(r) ==
    /\ At(r, ForUsers, "validate")
    /\ request' = [request EXCEPT ![r] =
           [@ EXCEPT !.stage = "hydrate", !.user = signedIn[request[r].jar]]]
    /\ UNCHANGED <<signedIn, database, sessions, cookies>>

\* validate_device_token; no row: Unauthorized
Validate(r) ==
    /\ At(r, ForUsers, "validate")
    /\ tokens[request[r].jar] # NULL
    /\ request' = [request EXCEPT ![r] =
           [@ EXCEPT !.stage = "hydrate", !.user = tokens[request[r].jar]]]
    /\ UNCHANGED <<signedIn, database, sessions, cookies>>

Hydrate(r) ==
    /\ At(r, ForUsers, "hydrate")
    /\ SetUser(request[r].jar, request[r].user)
    /\ To(r, "authorized")
    /\ UNCHANGED <<signedIn, database, cookies>>

-----------------------------------------------------------------------------
(* The requests themselves *)

RowsOf(m) == {i \in Ids : accounts[i] # NULL /\ accounts[i].mailbox = m}

\* Mutant of NewRow: the id of a removed account can come again.
ReuseRow(r, m) ==
    \E i \in Ids :
        /\ accounts[i] = NULL
        /\ \A j \in Ids : j < i => accounts[j] # NULL
        /\ ids' = IF i > ids THEN i ELSE ids
        /\ accounts' = [accounts EXCEPT ![i] =
               [mailbox |-> m, owner |-> request[r].user]]

\* An account's id is a random UUID.
NewRow(r, m) ==
    /\ ids < MaxIds
    /\ ids' = ids + 1
    /\ accounts' = [accounts EXCEPT ![ids + 1] =
           [mailbox |-> m, owner |-> request[r].user]]

\* The upsert of save_account, once the mail server has accepted the
\* password.  A mailbox of another user is a conflict.
SaveAccount(r) ==
    /\ At(r, {"connect"}, "authorized")
    /\ \/ /\ RowsOf(request[r].mailbox) = {}
          /\ NewRow(r, request[r].mailbox)
       \/ /\ \E i \in RowsOf(request[r].mailbox) :
                 accounts[i].owner = request[r].user
          /\ UNCHANGED <<accounts, ids>>
    /\ To(r, "select")
    /\ UNCHANGED <<signedIn, tokens, sessions, cookies>>

\* Its SELECT of the row's id, by the address
SelectId(r) ==
    /\ At(r, {"connect"}, "select")
    /\ \E i \in RowsOf(request[r].mailbox) :
           request' = [request EXCEPT ![r] =
               [@ EXCEPT !.stage = "add", !.account = i]]
    /\ UNCHANGED <<signedIn, database, sessions, cookies>>

AddAccount(r) ==
    /\ At(r, {"connect"}, "add")
    /\ sessions' = [sessions EXCEPT ![request[r].jar] =
           [Current(request[r].jar) EXCEPT !.accounts =
               [@ EXCEPT ![request[r].account] = request[r].user]]]
    /\ End(r)
    /\ UNCHANGED <<signedIn, database, cookies>>

\* delete_account
DeleteAccount(r) ==
    /\ At(r, {"remove"}, "authorized")
    /\ accounts[request[r].account] # NULL
    /\ accounts[request[r].account].owner = request[r].user
    /\ accounts' = [accounts EXCEPT ![request[r].account] = NULL]
    /\ To(r, "purge")
    /\ UNCHANGED <<signedIn, tokens, ids, sessions, cookies>>

\* remove_account_everywhere
RemoveEverywhere(r) ==
    /\ At(r, {"remove"}, "purge")
    /\ sessions' = [n \in SignIns |->
           IF sessions[n] = NULL THEN NULL
           ELSE [sessions[n] EXCEPT !.accounts =
                    [@ EXCEPT ![request[r].account] = NULL]]]
    /\ End(r)
    /\ UNCHANGED <<signedIn, database, cookies>>

-----------------------------------------------------------------------------
Proceeds(r) ==
    \/ ForgetPrevious(r) \/ CleanUp(r) \/ InsertToken(r) \/ StartSession(r)
    \/ DeleteToken(r) \/ RemoveSession(r) \/ Answer(r)
    \/ LookUp(r) \/ Validate(r) \/ Hydrate(r)
    \/ SaveAccount(r) \/ SelectId(r) \/ AddAccount(r)
    \/ DeleteAccount(r) \/ RemoveEverywhere(r)
    \/ Drop(r)

Next ==
    \/ \E r \in Requests : Proceeds(r) \/ \E b \in Browsers : Asks(r, b)
    \/ \E n \in SignIns : Forget(n) \/ Expire(n)
    \/ Restart

Spec == Init /\ [][Next]_vars
-----------------------------------------------------------------------------
(* Properties that hold *)

\* Whoever signed in with a session is the only user it ever acts for: its
\* user, its device token's, and the one who gave each password it holds,
\* whatever sign-ins in the same browser replace it while requests run
\* (issue_session makes a new token rather than reuse the browser's).
OneUserPerSession ==
    \A n \in SignIns :
        /\ tokens[n] \in {signedIn[n], NULL}
        /\ sessions[n] # NULL =>
               /\ sessions[n].user \in {signedIn[n], NULL}
               /\ \A i \in Ids : sessions[n].accounts[i] \in {signedIn[n], NULL}

\* How far sign-ins that overlap exceed the ten tokens meant to be kept (see
\* TenTokens): a user's device tokens, with those that a sign-in past its
\* clean-up will add, are never more than the nine that a clean-up keeps and
\* one for each request at a time; and the excess is not added up.
Adding(u) == {r \in Requests : At(r, {"signin"}, "insert") /\ request[r].user = u}
TokensBounded ==
    \A u \in Users :
        Cardinality(TokensOf(u)) + Cardinality(Adding(u))
            <= Keep + Cardinality(Requests)

\* Out: no token, no session, and no request on its way that got past
\* validation before; such a request makes the session again (SignOutRevokes).
SignedOut(n) ==
    /\ signedIn[n] # NULL /\ tokens[n] = NULL /\ sessions[n] = NULL
    /\ \A r \in Requests : request[r] # NULL /\ request[r].jar = n =>
           request[r].stage \in
               {"start", "validate", "cleanup", "insert", "forget", "answer"}

\* A sign-in that was signed out, pushed out or expired, and whose session
\* is gone, stays so, whatever requests come with its cookies from then on;
\* requests that had been let in before are excepted, until they have ended.
SignedOutStaysOut == [][\A n \in SignIns : SignedOut(n) => SignedOut(n)']_vars

\* Removed: no row, no session with its password, and no connect request
\* that has its id.
Removed(i) ==
    /\ i <= ids /\ accounts[i] = NULL
    /\ \A n \in SignIns : sessions[n] # NULL => sessions[n].accounts[i] = NULL
    /\ \A r \in Requests :
           request[r] # NULL /\ request[r].stage = "add" => request[r].account # i

\* An account removed on every device stays removed once no connect that had
\* its id before is left: connecting its mailbox again makes another.
RemovedStaysRemoved == [][\A i \in Ids : Removed(i) => Removed(i)']_vars

\* An account never passes from one user to another.
OwnerIsKept ==
    [][\A i \in Ids : accounts[i] # NULL /\ accounts'[i] # NULL =>
           accounts'[i].owner = accounts[i].owner]_vars

-----------------------------------------------------------------------------
(* Claims of the repository that the code does not keep *)

\* A user has at most ten device tokens ("keep at most ten tokens",
\* REVIEW_REMEDIATION_PLAN).  Sign-ins that overlap each delete the tokens
\* beyond nine before any of them adds its own.
TenTokens == \A u \in Users : Cardinality(TokensOf(u)) <= Keep + 1

\* The answer to a sign-out is true: the browser's cookies let nobody in any
\* more (the test signout_revokes_tokens_and_removes_root_path_cookies).  A
\* request that validated the device token before it was deleted makes the
\* session again after it was removed.
SignOutRevokes ==
    \A r \in Requests :
        At(r, {"signout"}, "answer") =>
            tokens[request[r].jar] = NULL /\ Current(request[r].jar).user = NULL

\* A session holds no password of an account that is gone, beyond the moment
\* in which it is being removed ("Forget a deleted account's password in
\* every session that holds it", session.rs).  A connect that had its id when
\* it was removed adds the password afterwards, and a removal that ends between
\* its two steps leaves it there.
RemovedIsForgotten ==
    \A n \in SignIns, i \in Ids :
        sessions[n] # NULL /\ sessions[n].accounts[i] # NULL =>
            \/ accounts[i] # NULL
            \/ \E r \in Requests : At(r, {"remove"}, "purge") /\ request[r].account = i

\* A session holds accounts of its own user's alone ("makes ownership
\* enforcement atomic", save_account).
AccountsAreOwn ==
    \A n \in SignIns, i \in Ids :
        sessions[n] # NULL /\ sessions[n].accounts[i] # NULL /\ accounts[i] # NULL
            => accounts[i].owner = signedIn[n]
=============================================================================
