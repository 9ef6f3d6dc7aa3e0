--------------------------- MODULE ProfileProofs ---------------------------
(***************************************************************************)
(* Proofs about Profile, for any mailboxes, passwords, requests at a time  *)
(* and ids given out.                                                      *)
(***************************************************************************)
EXTENDS Profile, TLAPS

Active(r) == request[r] # Idle
Sole(r) == Active(r) /\ request[r].alone

\* The rows and the memory are tables of all the mailboxes.
Tables ==
    /\ rows \in [Mailboxes -> Nat \union {NULL}]
    /\ connected = [m \in Mailboxes |-> connected[m]]

\* A request that was not disturbed is the only one for its mailbox, and
\* nothing is settled of a mailbox with a request.
OneAtAMailbox ==
    /\ \A r, s \in Requests :
           Sole(r) /\ Active(s) /\ request[s].mailbox = request[r].mailbox => r = s
    /\ \A r \in Requests : Active(r) => settled[request[r].mailbox] = NULL

\* Commands come after the launch.
AfterLaunch == \A r \in Requests : Active(r) => Loaded

\* The demo is open with its own password.
DemoAccepted ==
    /\ \A r \in Requests :
           /\ request[r].at \in {"selecting", "keychain", "marking", "opening"}
           /\ request[r].mailbox \in Demo
           => request[r].password = DemoPassword
    /\ \A m \in Demo : settled[m] # NULL /\ settled[m].listed =>
           settled[m].password = DemoPassword

\* What an undisturbed request has made of its mailbox so far.
Connecting(q) ==
    LET m == q.mailbox IN
    /\ q.at \in {"selecting", "keychain", "marking", "opening"} => rows[m] # NULL
    /\ q.at \in {"keychain", "marking", "opening"} => rows[m] = q.id
    /\ q.at \in {"saving", "selecting", "keychain"} => ~q.kept /\ q.left = NULL
    /\ q.at \in {"marking", "opening"} =>
           keychain[m] = IF q.kept THEN q.password ELSE q.left
    /\ q.at = "opening" /\ m \in saved => q.kept

Removing(q) ==
    LET m == q.mailbox IN
    /\ q.at \in {"forgetting", "unmarking", "closing"} => rows[m] = NULL
    /\ q.at \in {"unmarking", "closing"} => keychain[m] = q.left
    /\ q.at = "closing" => m \notin saved

SoFar == \A r \in Requests : Sole(r) => Connecting(request[r]) /\ Removing(request[r])

IInv ==
    /\ TypeOK /\ Tables
    /\ OneAtAMailbox /\ AfterLaunch /\ DemoAccepted
    /\ SoFar /\ AsAsked

-----------------------------------------------------------------------------
(* Types *)

Steps == {"saving", "selecting", "keychain", "marking", "opening",
          "deleting", "forgetting", "unmarking", "closing"}

\* A request under way, and what it may become.
LEMMA Requested ==
    ASSUME TypeOK, NEW r \in Requests
    PROVE  /\ Active(r) <=> request[r].at # "idle"
           /\ Active(r) => request[r] \in Request /\ request[r].at \in Steps
           /\ Active(r) => request[r].mailbox \in Mailboxes
           /\ Active(r) => request[r].alone \in BOOLEAN /\ request[r].kept \in BOOLEAN
           /\ Active(r) => /\ request[r].password \in Passwords \union {NULL}
                           /\ request[r].left \in Passwords \union {NULL}
<1>1. request[r] \in Request \union {Idle}
  BY DEF TypeOK
<1> QED
  BY <1>1 DEF Active, Request, Idle, Steps

LEMMA RequestType ==
    ASSUME NEW q \in Request, NEW at \in Steps
    PROVE  /\ [q EXCEPT !.at = at] \in Request
           /\ [q EXCEPT !.alone = FALSE] \in Request
           /\ \A id \in Nat : [q EXCEPT !.at = at, !.id = id] \in Request
           /\ \A kept \in BOOLEAN :
                  [q EXCEPT !.at = at, !.kept = kept, !.remember = FALSE] \in Request
           /\ \A left \in Passwords \union {NULL} :
                  /\ [q EXCEPT !.at = at, !.remember = FALSE, !.left = left] \in Request
                  /\ [q EXCEPT !.at = at, !.left = left] \in Request
<1>1. [q EXCEPT !.at = at] \in Request /\ [q EXCEPT !.alone = FALSE] \in Request
  BY DEF Request, Steps
<1>2. ASSUME NEW id \in Nat
      PROVE  [q EXCEPT !.at = at, !.id = id] \in Request
  BY DEF Request, Steps
<1>3. ASSUME NEW kept \in BOOLEAN
      PROVE  [q EXCEPT !.at = at, !.kept = kept, !.remember = FALSE] \in Request
  BY DEF Request, Steps
<1>4. ASSUME NEW left \in Passwords \union {NULL}
      PROVE  /\ [q EXCEPT !.at = at, !.remember = FALSE, !.left = left] \in Request
             /\ [q EXCEPT !.at = at, !.left = left] \in Request
  <2>1. [q EXCEPT !.at = at, !.remember = FALSE, !.left = left] \in Request
    BY DEF Request, Steps
  <2>2. [q EXCEPT !.at = at, !.left = left] \in Request
    BY DEF Request, Steps
  <2> QED
    BY <2>1, <2>2
<1> QED
  BY <1>1, <1>2, <1>3, <1>4

\* A connecting or removing that begins: its request, and the others for the
\* mailbox, which it disturbs.
LEMMA Begins ==
    ASSUME TypeOK, NEW r \in Requests, NEW req \in Request, Begin(r, req)
    PROVE  /\ ~Active(r)
           /\ request' \in [Requests -> Request \union {Idle}]
           /\ \E alone \in BOOLEAN : request'[r] = [req EXCEPT !.alone = alone]
           /\ request'[r].alone => \A s \in Requests :
                  Active(s) => request[s].mailbox # req.mailbox
           /\ \A s \in Requests : s # r =>
                  IF Active(s) /\ request[s].mailbox = req.mailbox
                  THEN request'[s] = [request[s] EXCEPT !.alone = FALSE]
                  ELSE request'[s] = request[s]
           /\ settled' \in [Mailboxes -> Outcome \union {NULL}]
           /\ settled'[req.mailbox] = NULL
           /\ \A m \in Mailboxes : m # req.mailbox => settled'[m] = settled[m]
<1> DEFINE others == {s \in Requests : request[s] # Idle /\ request[s].mailbox = req.mailbox}
<1>1. /\ request[r] = Idle
      /\ request' = [s \in Requests |->
             IF s = r THEN [req EXCEPT !.alone = (others = {})]
             ELSE IF s \in others THEN [request[s] EXCEPT !.alone = FALSE]
             ELSE request[s]]
      /\ settled' = [settled EXCEPT ![req.mailbox] = NULL]
  BY DEF Begin
<1>2. \A s \in Requests : s \in others <=> Active(s) /\ request[s].mailbox = req.mailbox
  BY DEF Active
<1>3. req.mailbox \in Mailboxes
  BY DEF Request
<1> HIDE DEF others
<1>4. [req EXCEPT !.alone = (others = {})] \in Request
  BY DEF Request
<1>5. \A s \in others : s \in Requests => [request[s] EXCEPT !.alone = FALSE] \in Request
  <2> SUFFICES ASSUME NEW s \in Requests, s \in others
               PROVE  [request[s] EXCEPT !.alone = FALSE] \in Request
    OBVIOUS
  <2>1. request[s] \in Request
    BY <1>2, Requested
  <2> QED
    BY <2>1 DEF Request
<1>6. request' \in [Requests -> Request \union {Idle}]
  BY <1>1, <1>4, <1>5 DEF TypeOK
<1>7. request'[r].alone = (others = {})
  BY <1>1 DEF Request
<1>8. /\ settled' \in [Mailboxes -> Outcome \union {NULL}]
      /\ settled'[req.mailbox] = NULL
      /\ \A m \in Mailboxes : m # req.mailbox => settled'[m] = settled[m]
  BY <1>1, <1>3 DEF TypeOK
<1> QED
  BY <1>1, <1>2, <1>6, <1>7, <1>8 DEF Active

\* A request that ends, and what is settled by it.
LEMMA Ends ==
    ASSUME TypeOK, NEW r \in Requests, Active(r), NEW outcome \in Outcome \union {NULL},
           End(r, outcome)
    PROVE  /\ request' \in [Requests -> Request \union {Idle}] /\ request'[r] = Idle
           /\ \A s \in Requests : s # r => request'[s] = request[s]
           /\ settled' \in [Mailboxes -> Outcome \union {NULL}]
           /\ \A m \in Mailboxes : m # request[r].mailbox => settled'[m] = settled[m]
           /\ settled'[request[r].mailbox] =
                  IF request[r].alone THEN outcome ELSE settled[request[r].mailbox]
BY Requested DEF End, TypeOK

\* What the types say of requests: each is one, and past the choice of the row
\* it has that row's id.
RequestsTyped ==
    /\ request \in [Requests -> Request \union {Idle}]
    /\ \A r \in Requests : request[r].at \notin {"idle", "saving", "selecting"} =>
           request[r].id \in Ids(request[r].mailbox)

LEMMA GoesOn ==
    ASSUME TypeOK, NEW r \in Requests, NEW q \in Request,
           request' = [request EXCEPT ![r] = q],
           q.at \notin {"saving", "selecting"} => q.id \in Ids(q.mailbox)
    PROVE  /\ RequestsTyped' /\ request'[r] = q
           /\ \A s \in Requests : s # r => request'[s] = request[s]
BY DEF RequestsTyped, TypeOK

LEMMA IdsAreNumbers == \A m \in Mailboxes : Ids(m) \subseteq Nat /\ NULL \notin Ids(m)
BY ProfileAssumption, NullAssumption DEF Ids

\* A request that goes on is the one it was, and no less disturbed.
Remains(r) ==
    /\ request'[r] \in Request
    /\ request'[r].mailbox = request[r].mailbox /\ request'[r].password = request[r].password
    /\ request'[r].alone => request[r].alone

LEMMA Going ==
    ASSUME TypeOK, NEW r \in Requests, Active(r), NEW at \in Steps, Go(r, at),
           request[r].at \in {"saving", "selecting"} => at \in {"saving", "selecting"}
    PROVE  /\ RequestsTyped' /\ Remains(r)
           /\ request'[r] = [request[r] EXCEPT !.at = at]
           /\ \A s \in Requests : s # r => request'[s] = request[s]
<1> DEFINE q == [request[r] EXCEPT !.at = at]
<1>1. q \in Request
  BY Requested, RequestType
<1>2. request' = [request EXCEPT ![r] = q]
  BY DEF Go
<1>3. /\ q.at = at /\ q.mailbox = request[r].mailbox /\ q.id = request[r].id
      /\ q.password = request[r].password /\ q.alone = request[r].alone
  BY Requested DEF Request
<1>4. q.at \notin {"saving", "selecting"} => q.id \in Ids(q.mailbox)
  BY <1>3, Requested DEF TypeOK
<1> HIDE DEF q
<1>5. RequestsTyped' /\ request'[r] = q /\ \A s \in Requests : s # r => request'[s] = request[s]
  BY <1>1, <1>2, <1>4, GoesOn
<1>6. Remains(r)
  BY <1>1, <1>3, <1>5 DEF Remains
<1> QED
  BY <1>5, <1>6 DEF q

\* The keychain is given something, or none, ...
LEMMA Keeping ==
    ASSUME TypeOK, NEW r \in Requests, At(r, "keychain"),
           NEW password \in Passwords \union {NULL}, NEW kept \in BOOLEAN,
           Keep(r, password, kept)
    PROVE  /\ Active(r) /\ RequestsTyped' /\ Remains(r)
           /\ keychain' = [keychain EXCEPT ![request[r].mailbox] = password]
           /\ request'[r].at = "marking" /\ request'[r].kept = kept
           /\ request'[r].mailbox = request[r].mailbox /\ request'[r].left = request[r].left
           /\ request'[r].id = request[r].id /\ request'[r].password = request[r].password
           /\ \A s \in Requests : s # r => request'[s] = request[s]
           /\ UNCHANGED <<store, rows, memory, loading, settled>>
<1> DEFINE q == [request[r] EXCEPT !.at = "marking", !.kept = kept, !.remember = FALSE]
<1>1. Active(r) /\ request[r] \in Request
  BY Requested DEF At
<1>2. q \in Request
  BY <1>1, RequestType DEF Steps
<1>3. request' = [request EXCEPT ![r] = q]
  BY DEF Keep
<1>4. /\ q.at = "marking" /\ q.kept = kept /\ q.mailbox = request[r].mailbox
      /\ q.id = request[r].id /\ q.password = request[r].password
      /\ q.alone = request[r].alone /\ q.left = request[r].left
  BY <1>1 DEF Request
<1>5. q.id \in Ids(q.mailbox)
  BY <1>4 DEF At, TypeOK
<1> HIDE DEF q
<1>6. RequestsTyped' /\ request'[r] = q /\ \A s \in Requests : s # r => request'[s] = request[s]
  BY <1>2, <1>3, <1>5, GoesOn
<1> QED
  BY <1>1, <1>2, <1>4, <1>6 DEF Keep, Remains

\* ... or stays as it is.
LEMMA Leaving ==
    ASSUME TypeOK, NEW r \in Requests, At(r, "keychain"), Leave(r)
    PROVE  /\ Active(r) /\ RequestsTyped' /\ Remains(r)
           /\ request'[r].at = "marking" /\ request'[r].kept = request[r].kept
           /\ request'[r].mailbox = request[r].mailbox
           /\ request'[r].left = keychain[request[r].mailbox]
           /\ request'[r].id = request[r].id /\ request'[r].password = request[r].password
           /\ \A s \in Requests : s # r => request'[s] = request[s]
           /\ UNCHANGED <<store, keychain, rows, memory, loading, settled>>
<1> DEFINE q == [request[r] EXCEPT !.at = "marking", !.remember = FALSE,
                                   !.left = keychain[request[r].mailbox]]
<1>1. Active(r) /\ request[r] \in Request /\ request[r].mailbox \in Mailboxes
  BY Requested DEF At
<1>2. q \in Request
  BY <1>1, RequestType DEF Steps, TypeOK
<1>3. request' = [request EXCEPT ![r] = q]
  BY DEF Leave
<1>4. /\ q.at = "marking" /\ q.kept = request[r].kept /\ q.mailbox = request[r].mailbox
      /\ q.id = request[r].id /\ q.password = request[r].password
      /\ q.alone = request[r].alone /\ q.left = keychain[request[r].mailbox]
  BY <1>1 DEF Request
<1>5. q.id \in Ids(q.mailbox)
  BY <1>4 DEF At, TypeOK
<1> HIDE DEF q
<1>6. RequestsTyped' /\ request'[r] = q /\ \A s \in Requests : s # r => request'[s] = request[s]
  BY <1>2, <1>3, <1>5, GoesOn
<1> QED
  BY <1>1, <1>2, <1>4, <1>6 DEF Leave, Remains

\* What a step of a request leaves to the tables is typed, ...
Stored(m) ==
    /\ rows' \in [Mailboxes -> Nat \union {NULL}] /\ rows'[m] \in Ids(m) \union {NULL}
    /\ keychain' \in [Mailboxes -> Passwords \union {NULL}]
    /\ connected' = [n \in Mailboxes |-> connected'[n]]
    /\ connected'[m] \in [Ids(m) -> Passwords \union {NULL}]
    /\ saved' \subseteq Mailboxes

\* ... it leaves every other mailbox as it was, ...
SameBut(m) ==
    /\ UNCHANGED <<store, loading>>
    /\ \A n \in Mailboxes : n # m =>
           /\ rows'[n] = rows[n] /\ keychain'[n] = keychain[n] /\ connected'[n] = connected[n]
           /\ n \in saved' <=> n \in saved

\* ... and every other request; its own goes on, or ends and settles something.
OwnRequest(r) ==
    /\ RequestsTyped'
    /\ \A s \in Requests : s # r => request'[s] = request[s]
    /\ settled' \in [Mailboxes -> Outcome \union {NULL}]
    /\ \A n \in Mailboxes : n # request[r].mailbox => settled'[n] = settled[n]
    /\ request[r].alone \/ settled'[request[r].mailbox] = settled[request[r].mailbox]
    /\ request'[r] = Idle \/ (settled' = settled /\ Remains(r))

LEMMA Ending ==
    ASSUME TypeOK, NEW r \in Requests, Active(r), NEW outcome \in Outcome \union {NULL},
           End(r, outcome)
    PROVE  OwnRequest(r)
<1>1. RequestsTyped'
  BY Ends DEF RequestsTyped, TypeOK, Idle
<1> QED
  BY <1>1, Ends DEF OwnRequest

\* Each step of a request is one of those.
LEMMA Serving ==
    ASSUME TypeOK, Tables, NEW r \in Requests, Serve(r)
    PROVE  Active(r) /\ Stored(request[r].mailbox) /\ SameBut(request[r].mailbox) /\ OwnRequest(r)
<1> USE DEF memory
<1>1. Active(r)
  BY Requested
  DEF Serve, At, ConnectFails, SaveAccount, SelectId, SkipKeychain, SavePassword,
      ForgetPassword, KeychainFails, MarkSaved, OpenMailbox, DeleteAccount,
      DeletePassword, Unmark, CloseMailbox
<1>2. PICK m \in Mailboxes : m = request[r].mailbox
  BY <1>1, Requested
<1>3. /\ request[r] \in Request
      /\ Ids(m) \subseteq Nat /\ rows[m] \in Ids(m) \union {NULL}
      /\ keychain[m] \in Passwords \union {NULL}
      /\ connected[m] \in [Ids(m) -> Passwords \union {NULL}]
      /\ request[r].password \in Passwords \union {NULL} /\ request[r].kept \in BOOLEAN
      /\ request[r].left \in Passwords \union {NULL}
  BY <1>1, <1>2, Requested, IdsAreNumbers DEF TypeOK
<1>4. ASSUME UNCHANGED <<store, keychain, rows, memory, loading>>
      PROVE  Stored(m) /\ SameBut(m)
  BY <1>3, <1>4 DEF Stored, SameBut, TypeOK, Tables
<1>5. ASSUME Go(r, "selecting") \/ Go(r, "opening") \/ Go(r, "forgetting") \/ Go(r, "closing"),
             request[r].at \in {"saving", "selecting"} => Go(r, "selecting"),
             UNCHANGED settled
      PROVE  OwnRequest(r)
  BY <1>1, <1>5, Going DEF OwnRequest, Steps, TypeOK
<1>6. CASE ConnectFails(r)
  BY <1>1, <1>2, <1>4, <1>6, Ending DEF ConnectFails
<1>7. CASE SaveAccount(r)
  <2>1. OwnRequest(r)
    BY <1>5, <1>7 DEF SaveAccount
  <2>2. rows' = rows \/ \E id \in Ids(m) : rows' = [rows EXCEPT ![m] = id]
    BY <1>2, <1>7 DEF SaveAccount, Fresh
  <2>3. /\ rows' \in [Mailboxes -> Nat \union {NULL}] /\ rows'[m] \in Ids(m) \union {NULL}
        /\ \A n \in Mailboxes : n # m => rows'[n] = rows[n]
    BY <1>3, <2>2 DEF Tables
  <2>4. UNCHANGED <<store, keychain, connected, saved, loading>>
    BY <1>7 DEF SaveAccount
  <2>5. Stored(m) /\ SameBut(m)
    BY <1>3, <2>3, <2>4 DEF Stored, SameBut, TypeOK, Tables
  <2> QED
    BY <1>1, <1>2, <2>1, <2>5
<1>8. CASE SelectId(r)
  <2> DEFINE q == [request[r] EXCEPT !.at = "keychain", !.id = rows[m]]
  <2>1. rows[m] \in Ids(m) /\ rows[m] \in Nat
    BY <1>2, <1>3, <1>8 DEF SelectId
  <2>2. /\ q \in Request /\ q.id = rows[m] /\ q.mailbox = m
        /\ q.password = request[r].password /\ q.alone = request[r].alone
    BY <1>2, <1>3, <2>1 DEF Request
  <2>3. request' = [request EXCEPT ![r] = q]
    BY <1>2, <1>8 DEF SelectId
  <2> HIDE DEF q
  <2>4. /\ RequestsTyped' /\ request'[r] = q
        /\ \A s \in Requests : s # r => request'[s] = request[s]
    BY <2>1, <2>2, <2>3, GoesOn
  <2>5. OwnRequest(r)
    BY <1>2, <1>8, <2>2, <2>4 DEF SelectId, OwnRequest, Remains, TypeOK
  <2> QED
    BY <1>1, <1>2, <1>4, <1>8, <2>5 DEF SelectId
<1>9. ASSUME NEW password \in Passwords \union {NULL}, NEW kept \in BOOLEAN,
             At(r, "keychain"), Keep(r, password, kept)
      PROVE  Stored(m) /\ SameBut(m) /\ OwnRequest(r)
  <2>1. /\ RequestsTyped' /\ Remains(r)
        /\ keychain' = [keychain EXCEPT ![m] = password]
        /\ \A s \in Requests : s # r => request'[s] = request[s]
        /\ UNCHANGED <<store, rows, memory, loading, settled>>
    BY <1>2, <1>9, Keeping
  <2>2. /\ keychain' \in [Mailboxes -> Passwords \union {NULL}]
        /\ \A n \in Mailboxes : n # m => keychain'[n] = keychain[n]
    BY <2>1 DEF TypeOK
  <2>3. OwnRequest(r)
    BY <2>1 DEF OwnRequest, TypeOK
  <2>4. Stored(m) /\ SameBut(m)
    BY <1>3, <2>1, <2>2 DEF Stored, SameBut, TypeOK, Tables
  <2> QED
    BY <2>3, <2>4
<1>10. CASE SkipKeychain(r) \/ SavePassword(r) \/ ForgetPassword(r) \/ KeychainFails(r)
  <2>1. CASE SkipKeychain(r) \/ KeychainFails(r)
    <3>1. At(r, "keychain") /\ Leave(r)
      BY <2>1 DEF SkipKeychain, KeychainFails
    <3>2. OwnRequest(r)
      BY <3>1, Leaving DEF OwnRequest, TypeOK
    <3> QED
      BY <1>1, <1>2, <1>4, <3>1, <3>2 DEF Leave
  <2>2. CASE SavePassword(r) \/ ForgetPassword(r)
    BY <1>1, <1>2, <1>3, <1>9, <2>2 DEF SavePassword, ForgetPassword
  <2> QED
    BY <1>10, <2>1, <2>2
<1>11. CASE MarkSaved(r) \/ Unmark(r)
  <2>1. OwnRequest(r)
    BY <1>5, <1>11 DEF MarkSaved, Unmark, At
  <2>2. saved' \subseteq Mailboxes /\ \A n \in Mailboxes : n # m => (n \in saved' <=> n \in saved)
    BY <1>2, <1>11 DEF MarkSaved, Unmark, TypeOK
  <2>3. UNCHANGED <<store, keychain, rows, connected, loading>>
    BY <1>11 DEF MarkSaved, Unmark
  <2>4. Stored(m) /\ SameBut(m)
    BY <1>3, <2>2, <2>3 DEF Stored, SameBut, TypeOK, Tables
  <2> QED
    BY <1>1, <1>2, <2>1, <2>4
<1>12. ASSUME NEW password \in Passwords \union {NULL},
              request[r].at \notin {"saving", "selecting"},
              connected' = [connected EXCEPT ![m][request[r].id] = password],
              UNCHANGED <<store, keychain, rows, saved, loading>>
       PROVE  Stored(m) /\ SameBut(m)
  <2>1. request[r].id \in Ids(m)
    BY <1>1, <1>2, <1>12, Requested DEF TypeOK
  <2>2. connected' = [connected EXCEPT ![m] = [connected[m] EXCEPT ![request[r].id] = password]]
    BY <1>12
  <2>3. [connected[m] EXCEPT ![request[r].id] = password] \in [Ids(m) -> Passwords \union {NULL}]
    BY <1>3, <2>1
  <2>4. /\ connected' = [n \in Mailboxes |-> connected'[n]]
        /\ connected'[m] = [connected[m] EXCEPT ![request[r].id] = password]
        /\ \A n \in Mailboxes : n # m => connected'[n] = connected[n]
    BY <2>2 DEF Tables
  <2> QED
    BY <1>3, <1>12, <2>3, <2>4 DEF Stored, SameBut, TypeOK, Tables
<1>13. CASE OpenMailbox(r)
  <2> DEFINE outcome == [listed |-> TRUE, password |-> request[r].password,
                         kept |-> request[r].kept, left |-> request[r].left]
  <2>1. outcome \in Outcome /\ End(r, outcome)
    BY <1>3, <1>13 DEF OpenMailbox, Outcome
  <2> HIDE DEF outcome
  <2>2. OwnRequest(r)
    BY <1>1, <2>1, Ending
  <2>3. Stored(m) /\ SameBut(m)
    BY <1>2, <1>3, <1>12, <1>13 DEF OpenMailbox, At
  <2> QED
    BY <1>1, <1>2, <2>2, <2>3
<1>14. CASE DeleteAccount(r)
  <2>1. CASE rows[m] = request[r].id
    <3>1. Go(r, "forgetting") /\ rows' = [rows EXCEPT ![m] = NULL]
          /\ UNCHANGED <<store, keychain, connected, saved, loading, settled>>
      BY <1>2, <1>14, <2>1 DEF DeleteAccount
    <3>2. OwnRequest(r)
      BY <1>5, <1>14, <3>1 DEF DeleteAccount, At
    <3>3. /\ rows' \in [Mailboxes -> Nat \union {NULL}] /\ rows'[m] \in Ids(m) \union {NULL}
          /\ \A n \in Mailboxes : n # m => rows'[n] = rows[n]
      BY <3>1 DEF Tables
    <3>4. Stored(m) /\ SameBut(m)
      BY <1>3, <3>1, <3>3 DEF Stored, SameBut, TypeOK, Tables
    <3> QED
      BY <1>1, <1>2, <3>2, <3>4
  <2>2. CASE rows[m] # request[r].id
    <3>1. End(r, NULL) /\ UNCHANGED <<store, keychain, rows, memory, loading>>
      BY <1>2, <1>14, <2>2 DEF DeleteAccount
    <3> QED
      BY <1>1, <1>2, <1>4, <3>1, Ending
  <2> QED
    BY <2>1, <2>2
<1>15. CASE DeletePassword(r)
  <2>1. PICK done \in BOOLEAN :
            /\ keychain' = IF store /\ done THEN [keychain EXCEPT ![m] = NULL] ELSE keychain
            /\ request' = [request EXCEPT ![r].at = "unmarking", ![r].left = keychain'[m]]
    BY <1>2, <1>15 DEF DeletePassword
  <2>10. /\ keychain' \in [Mailboxes -> Passwords \union {NULL}]
         /\ keychain'[m] \in Passwords \union {NULL}
    BY <2>1 DEF TypeOK
  <2>11. PICK left \in Passwords \union {NULL} : left = keychain'[m]
    BY <2>10
  <2> DEFINE q == [request[r] EXCEPT !.at = "unmarking", !.left = left]
  <2>2. request' = [request EXCEPT ![r] = q]
    BY <1>1, <2>1, <2>11 DEF TypeOK
  <2>3. /\ q \in Request /\ q.mailbox = m /\ q.id = request[r].id
        /\ q.password = request[r].password /\ q.alone = request[r].alone
    <3>1. q \in Request
      BY <1>2, <1>3, RequestType DEF Steps
    <3> QED
      BY <1>2, <1>3, <3>1 DEF Request
  <2>4. q.id \in Ids(q.mailbox)
    BY <1>2, <1>15, <2>3 DEF DeletePassword, At, TypeOK
  <2> HIDE DEF q
  <2>5. /\ RequestsTyped' /\ request'[r] = q
        /\ \A s \in Requests : s # r => request'[s] = request[s]
    BY <2>2, <2>3, <2>4, GoesOn
  <2>6. /\ keychain' \in [Mailboxes -> Passwords \union {NULL}]
        /\ \A n \in Mailboxes : n # m => keychain'[n] = keychain[n]
    BY <2>1 DEF TypeOK
  <2>7. UNCHANGED <<store, rows, connected, saved, loading, settled>>
    BY <1>15 DEF DeletePassword
  <2>8. OwnRequest(r)
    BY <1>2, <2>3, <2>5, <2>7 DEF OwnRequest, Remains, TypeOK
  <2>9. Stored(m) /\ SameBut(m)
    BY <1>3, <2>6, <2>7 DEF Stored, SameBut, TypeOK, Tables
  <2> QED
    BY <1>1, <1>2, <2>8, <2>9
<1>16. CASE CloseMailbox(r)
  <2> DEFINE outcome == [listed |-> FALSE, password |-> NULL, kept |-> FALSE,
                         left |-> request[r].left]
  <2>1. outcome \in Outcome /\ End(r, outcome)
    BY <1>3, <1>16 DEF CloseMailbox, Outcome
  <2> HIDE DEF outcome
  <2>2. OwnRequest(r)
    BY <1>1, <2>1, Ending
  <2>3. Stored(m) /\ SameBut(m)
    BY <1>2, <1>3, <1>12, <1>16 DEF CloseMailbox, At
  <2> QED
    BY <1>1, <1>2, <2>2, <2>3
<1> QED
  BY <1>6, <1>7, <1>8, <1>10, <1>11, <1>13, <1>14, <1>15, <1>16 DEF Serve

\* The requests that a connecting or removing which begins leaves.
LEMMA BegunTyped ==
    ASSUME TypeOK, NEW r \in Requests, NEW req \in Request, Begin(r, req),
           req.at \notin {"saving", "selecting"} => req.id \in Ids(req.mailbox)
    PROVE  /\ RequestsTyped' /\ request'[r].mailbox = req.mailbox
           /\ request'[r].at = req.at /\ request'[r].password = req.password
           /\ request'[r].left = req.left /\ request'[r].kept = req.kept
           /\ \A s \in Requests : s # r =>
                  /\ request'[s].at = request[s].at /\ request'[s].mailbox = request[s].mailbox
                  /\ request'[s].id = request[s].id /\ request'[s].kept = request[s].kept
                  /\ request'[s].password = request[s].password
                  /\ request'[s] = Idle <=> ~Active(s)
<1>1. /\ request'[r].at = req.at /\ request'[r].id = req.id /\ request'[r].mailbox = req.mailbox
      /\ request'[r].password = req.password /\ request'[r].left = req.left
      /\ request'[r].kept = req.kept
  <2>1. PICK alone \in BOOLEAN : request'[r] = [req EXCEPT !.alone = alone]
    BY Begins
  <2> QED
    BY <2>1 DEF Request
<1>2. ASSUME NEW s \in Requests, s # r
      PROVE  /\ request'[s].at = request[s].at /\ request'[s].mailbox = request[s].mailbox
             /\ request'[s].id = request[s].id /\ request'[s].kept = request[s].kept
             /\ request'[s].password = request[s].password
             /\ request'[s] = Idle <=> ~Active(s)
  <2>1. CASE Active(s) /\ request[s].mailbox = req.mailbox
    <3>1. request[s] \in Request /\ request'[s] = [request[s] EXCEPT !.alone = FALSE]
      BY <1>2, <2>1, Begins, Requested
    <3>2. request'[s].at = request[s].at /\ request[s].at \in Steps
      BY <2>1, <3>1, Requested DEF Request
    <3> QED
      BY <2>1, <3>1, <3>2 DEF Request, Idle, Steps
  <2>2. CASE ~(Active(s) /\ request[s].mailbox = req.mailbox)
    <3>1. request'[s] = request[s]
      BY <1>2, <2>2, Begins, ZenonT(30)
    <3> QED
      BY <3>1 DEF Active
  <2> QED
    BY <2>1, <2>2
<1>3. RequestsTyped'
  BY <1>1, <1>2, Begins DEF RequestsTyped, TypeOK
<1> QED
  BY <1>1, <1>2, <1>3

\* The requests that a user makes.
Asking(m, password, remember) ==
    [at |-> "saving", mailbox |-> m, password |-> password, remember |-> remember,
     id |-> NULL, kept |-> FALSE, left |-> NULL, alone |-> TRUE]
Dropping(m) ==
    [at |-> "deleting", mailbox |-> m, password |-> NULL, remember |-> FALSE,
     id |-> rows[m], kept |-> FALSE, left |-> NULL, alone |-> TRUE]

LEMMA Commands ==
    ASSUME TypeOK, NEW r \in Requests, NEW m \in Mailboxes,
           \/ \E password \in Passwords, remember \in BOOLEAN : Connect(r, m, password, remember)
           \/ Remove(r, m)
    PROVE  /\ Loaded /\ UNCHANGED <<store, keychain, rows, memory, loading>>
           /\ \E req \in Request :
                  /\ Begin(r, req) /\ req.mailbox = m /\ req.at \in {"saving", "deleting"}
                  /\ req.left = NULL /\ ~req.kept
                  /\ req.at = "deleting" => req.id \in Ids(req.mailbox)
<1>1. ASSUME NEW password \in Passwords, NEW remember \in BOOLEAN,
             Connect(r, m, password, remember)
      PROVE  \E req \in Request :
                  /\ Begin(r, req) /\ req.mailbox = m /\ req.at \in {"saving", "deleting"}
                  /\ req.left = NULL /\ ~req.kept
                  /\ req.at = "deleting" => req.id \in Ids(req.mailbox)
  <2>1. Asking(m, password, remember) \in Request
    BY DEF Asking, Request
  <2>2. /\ Begin(r, Asking(m, password, remember))
        /\ Asking(m, password, remember).mailbox = m
        /\ Asking(m, password, remember).at = "saving"
        /\ Asking(m, password, remember).left = NULL
        /\ ~Asking(m, password, remember).kept
    BY <1>1 DEF Connect, Asking
  <2> QED
    BY <2>1, <2>2
<1>2. ASSUME Remove(r, m)
      PROVE  \E req \in Request :
                  /\ Begin(r, req) /\ req.mailbox = m /\ req.at \in {"saving", "deleting"}
                  /\ req.left = NULL /\ ~req.kept
                  /\ req.at = "deleting" => req.id \in Ids(req.mailbox)
  <2>1. rows[m] \in Ids(m) /\ rows[m] \in Nat
    BY <1>2, IdsAreNumbers DEF Remove, TypeOK
  <2>2. Dropping(m) \in Request
    BY <2>1 DEF Dropping, Request
  <2>3. /\ Begin(r, Dropping(m))
        /\ Dropping(m).mailbox = m /\ Dropping(m).at = "deleting" /\ Dropping(m).id = rows[m]
        /\ Dropping(m).left = NULL /\ ~Dropping(m).kept
    BY <1>2 DEF Remove, Dropping
  <2> QED
    BY <2>1, <2>2, <2>3
<1> QED
  BY <1>1, <1>2 DEF Connect, Remove

\* What a launch finds is read into the memory, row by row.
LEMMA LaunchTyped ==
    ASSUME TypeOK, Tables, ListRows \/ ReadPasswords
    PROVE  /\ connected' = [m \in Mailboxes |-> connected'[m]]
           /\ \A m \in Mailboxes : connected'[m] \in [Ids(m) -> Passwords \union {NULL}]
           /\ saved' \subseteq Mailboxes
<1>1. CASE ListRows
  <2>1. connected' = [m \in Mailboxes |-> [id \in Ids(m) |->
            IF m \in Demo /\ rows[m] = id THEN DemoPassword ELSE connected[m][id]]]
    BY <1>1 DEF ListRows
  <2>2. \A m \in Mailboxes : connected'[m] \in [Ids(m) -> Passwords \union {NULL}]
    BY <2>1, ProfileAssumption DEF TypeOK
  <2> QED
    BY <1>1, <2>1, <2>2 DEF ListRows, TypeOK
<1>2. CASE ReadPasswords
  <2>1. PICK read \in SUBSET {m \in Listed \ Demo : keychain[m] # NULL} :
            /\ saved' = saved \union read
            /\ connected' = [m \in Mailboxes |-> [id \in Ids(m) |->
                 IF m \in read /\ rows[m] = id THEN keychain[m] ELSE connected[m][id]]]
    BY <1>2 DEF ReadPasswords
  <2>2. \A m \in Mailboxes : connected'[m] \in [Ids(m) -> Passwords \union {NULL}]
    BY <2>1 DEF TypeOK
  <2> QED
    BY <2>1, <2>2 DEF Listed, TypeOK
<1> QED
  BY <1>1, <1>2

\* Every step keeps the types.
LEMMA TypeStep ==
    ASSUME TypeOK, Tables, [Next]_vars
    PROVE  TypeOK' /\ Tables'
<1> USE DEF memory
<1>1. CASE UNCHANGED vars
  BY <1>1 DEF vars, TypeOK, Tables
<1>2. CASE Launch
  BY <1>2, LaunchTyped DEF Launch, ListRows, ListFails, ReadPasswords, TypeOK, Tables
<1>3. ASSUME NEW r \in Requests, NEW m \in Mailboxes,
             \/ \E password \in Passwords, remember \in BOOLEAN :
                    Connect(r, m, password, remember)
             \/ Remove(r, m)
      PROVE  TypeOK' /\ Tables'
  <2>1. PICK req \in Request :
            /\ Begin(r, req) /\ req.at \in {"saving", "deleting"}
            /\ req.at = "deleting" => req.id \in Ids(req.mailbox)
    BY <1>3, Commands
  <2>2. RequestsTyped' /\ settled' \in [Mailboxes -> Outcome \union {NULL}]
    BY <2>1, Begins, BegunTyped
  <2>3. UNCHANGED <<store, keychain, rows, memory, loading>>
    BY <1>3, Commands
  <2> QED
    BY <2>2, <2>3 DEF RequestsTyped, TypeOK, Tables
<1>4. ASSUME NEW r \in Requests, Serve(r)
      PROVE  TypeOK' /\ Tables'
  <2>1. PICK m \in Mailboxes : m = request[r].mailbox
    BY <1>4, Serving, Requested
  <2>2. Stored(m) /\ SameBut(m) /\ OwnRequest(r)
    BY <1>4, <2>1, Serving
  <2>3. \A n \in Mailboxes :
            /\ rows'[n] \in Ids(n) \union {NULL}
            /\ connected'[n] \in [Ids(n) -> Passwords \union {NULL}]
    BY <2>2 DEF Stored, SameBut, TypeOK
  <2> QED
    BY <2>2, <2>3 DEF Stored, SameBut, OwnRequest, RequestsTyped, TypeOK, Tables
<1>5. CASE Restart
  <2>1. \A m \in Mailboxes : connected'[m] \in [Ids(m) -> Passwords \union {NULL}]
    BY <1>5 DEF Restart, Closed
  <2>2. connected' = [m \in Mailboxes |-> connected'[m]]
    BY <1>5 DEF Restart, Closed
  <2> QED
    BY <1>5, <2>1, <2>2 DEF Restart, TypeOK, Tables, Idle
<1> QED
  BY <1>1, <1>2, <1>3, <1>4, <1>5 DEF Next

-----------------------------------------------------------------------------
(* Requests *)

\* Whatever a step of a request does, those still under way were so before it,
\* for the same mailbox and no less disturbed.
LEMMA Onward ==
    ASSUME TypeOK, NEW r \in Requests, OwnRequest(r), Active(r),
           NEW s \in Requests, Active(s)'
    PROVE  /\ Active(s) /\ request'[s].mailbox = request[s].mailbox
           /\ request'[s].alone => request[s].alone
           /\ s = r => settled' = settled
<1>1. CASE s = r
  BY <1>1 DEF OwnRequest, Remains, Active
<1>2. CASE s # r
  <2>1. request'[s] = request[s]
    BY <1>2 DEF OwnRequest
  <2> QED
    BY <1>2, <2>1 DEF Active
<1> QED
  BY <1>1, <1>2

\* Another undisturbed request is for another mailbox.
LEMMA Apart ==
    ASSUME OneAtAMailbox, NEW r \in Requests, Active(r),
           NEW s \in Requests, Sole(s), s # r
    PROVE  request[s].mailbox # request[r].mailbox
BY DEF OneAtAMailbox

LEMMA OneStep ==
    ASSUME TypeOK, Tables, OneAtAMailbox, [Next]_vars
    PROVE  OneAtAMailbox'
<1>1. CASE UNCHANGED vars \/ Launch
  <2>1. UNCHANGED <<request, settled>>
    BY <1>1 DEF vars, Launch, ListRows, ListFails, ReadPasswords
  <2> QED
    BY <2>1 DEF OneAtAMailbox, Sole, Active
<1>2. ASSUME NEW r \in Requests, NEW m \in Mailboxes,
             \/ \E password \in Passwords, remember \in BOOLEAN :
                    Connect(r, m, password, remember)
             \/ Remove(r, m)
      PROVE  OneAtAMailbox'
  <2>1. PICK req \in Request :
            /\ Begin(r, req) /\ req.at \in {"saving", "deleting"} /\ req.mailbox = m
            /\ req.at = "deleting" => req.id \in Ids(req.mailbox)
    BY <1>2, Commands
  <2>2. /\ ~Active(r) /\ request'[r].mailbox = m
        /\ request'[r].alone => \A s \in Requests : Active(s) => request[s].mailbox # m
        /\ settled'[m] = NULL /\ \A n \in Mailboxes : n # m => settled'[n] = settled[n]
    BY <2>1, Begins, BegunTyped
  <2>3. ASSUME NEW s \in Requests, s # r, Active(s)'
        PROVE  /\ Active(s) /\ request'[s].mailbox = request[s].mailbox
               /\ request'[s].alone => request[s].alone /\ request[s].mailbox # m
    <3>1. Active(s) /\ request'[s].mailbox = request[s].mailbox
      BY <2>1, <2>3, BegunTyped DEF Active
    <3>2. IF request[s].mailbox = m THEN request'[s] = [request[s] EXCEPT !.alone = FALSE]
                                    ELSE request'[s] = request[s]
      BY <2>1, <2>3, <3>1, Begins
    <3>3. request[s] \in Request
      BY <3>1, Requested
    <3>4. CASE request[s].mailbox = m
      <4>1. ~request'[s].alone
        BY <3>2, <3>3, <3>4 DEF Request
      <4> QED
        BY <3>1, <4>1
    <3> QED
      BY <3>1, <3>2, <3>4
  <2>4. ASSUME NEW a \in Requests, NEW s \in Requests, Sole(a)', Active(s)',
               request'[s].mailbox = request'[a].mailbox
        PROVE  a = s
    BY <2>2, <2>3, <2>4 DEF Sole, OneAtAMailbox
  <2>5. ASSUME NEW s \in Requests, Active(s)'
        PROVE  settled'[request'[s].mailbox] = NULL
    <3>1. CASE s = r
      BY <2>2, <3>1
    <3>2. CASE s # r
      <4>1. /\ Active(s) /\ request'[s].mailbox = request[s].mailbox
            /\ request[s].mailbox \in Mailboxes
        BY <2>3, <2>5, <3>2, Requested
      <4> QED
        BY <2>2, <4>1 DEF OneAtAMailbox
    <3> QED
      BY <3>1, <3>2
  <2> QED
    BY <2>4, <2>5 DEF OneAtAMailbox
<1>3. ASSUME NEW r \in Requests, Serve(r)
      PROVE  OneAtAMailbox'
  <2>1. Active(r) /\ OwnRequest(r)
    BY <1>3, Serving
  <2>2. ASSUME NEW a \in Requests, NEW s \in Requests, Sole(a)', Active(s)',
               request'[s].mailbox = request'[a].mailbox
        PROVE  a = s
    BY <2>1, <2>2, Onward DEF Sole, OneAtAMailbox
  <2>3. ASSUME NEW s \in Requests, Active(s)'
        PROVE  settled'[request'[s].mailbox] = NULL
    <3>1. /\ Active(s) /\ request'[s].mailbox = request[s].mailbox
          /\ settled[request[s].mailbox] = NULL /\ request[s].mailbox \in Mailboxes
          /\ s = r => settled' = settled
      BY <2>1, <2>3, Onward, Requested DEF OneAtAMailbox
    <3>2. settled'[request[s].mailbox] = settled[request[s].mailbox]
      <4>1. CASE request[s].mailbox # request[r].mailbox
        BY <2>1, <3>1, <4>1 DEF OwnRequest
      <4>2. CASE s # r /\ request[s].mailbox = request[r].mailbox
        <5>1. ~request[r].alone
          BY <2>1, <3>1, <4>2 DEF Sole, OneAtAMailbox
        <5> QED
          BY <2>1, <4>2, <5>1 DEF OwnRequest
      <4> QED
        BY <3>1, <4>1, <4>2
    <3> QED
      BY <3>1, <3>2
  <2> QED
    BY <2>2, <2>3 DEF OneAtAMailbox
<1>4. CASE Restart
  <2>1. \A s \in Requests : request'[s] = Idle
    BY <1>4 DEF Restart
  <2> QED
    BY <2>1 DEF OneAtAMailbox, Sole, Active
<1> QED
  BY <1>1, <1>2, <1>3, <1>4 DEF Next

LEMMA LoadedStep ==
    ASSUME TypeOK, Tables, AfterLaunch, [Next]_vars
    PROVE  AfterLaunch'
<1>1. CASE UNCHANGED vars
  BY <1>1 DEF vars, AfterLaunch, Active, Loaded
<1>2. CASE Launch
  BY <1>2 DEF Launch, ListRows, ListFails, ReadPasswords, AfterLaunch, Active, Loaded
<1>3. ASSUME NEW r \in Requests, NEW m \in Mailboxes,
             \/ \E password \in Passwords, remember \in BOOLEAN :
                    Connect(r, m, password, remember)
             \/ Remove(r, m)
      PROVE  AfterLaunch'
  BY <1>3, Commands DEF AfterLaunch, Loaded
<1>4. ASSUME NEW r \in Requests, Serve(r)
      PROVE  AfterLaunch'
  BY <1>4, Serving DEF SameBut, AfterLaunch, Loaded
<1>5. CASE Restart
  <2>1. \A s \in Requests : request'[s] = Idle
    BY <1>5 DEF Restart
  <2> QED
    BY <2>1 DEF AfterLaunch, Active
<1> QED
  BY <1>1, <1>2, <1>3, <1>4, <1>5 DEF Next

-----------------------------------------------------------------------------
(* What a step of a request does to its own mailbox *)

\* The steps that end a request, ...
Finishes(r) == ConnectFails(r) \/ OpenMailbox(r) \/ CloseMailbox(r)
            \/ (DeleteAccount(r) /\ rows[request[r].mailbox] # request[r].id)

\* ... and those with which it goes on.
LEMMA EndsIdle ==
    ASSUME TypeOK, NEW r \in Requests, Active(r), Finishes(r)
    PROVE  request'[r] = Idle
<1>1. \E outcome : End(r, outcome)
  BY DEF Finishes, ConnectFails, OpenMailbox, CloseMailbox, DeleteAccount
<1> QED
  BY <1>1 DEF End, TypeOK

LEMMA SaveAccountOwn ==
    ASSUME TypeOK, Tables, NEW r \in Requests, SaveAccount(r)
    PROVE  /\ request'[r] = [request[r] EXCEPT !.at = "selecting"]
           /\ request'[r].at = "selecting"
           /\ request'[r].kept = request[r].kept /\ request'[r].left = request[r].left
           /\ rows'[request[r].mailbox] # NULL /\ UNCHANGED <<store, keychain, saved, settled>>
           /\ request[r].mailbox \in Demo => request[r].password = DemoPassword
<1>1. PICK m \in Mailboxes : m = request[r].mailbox /\ request[r] \in Request /\ Active(r)
  BY Requested DEF SaveAccount, At
<1>2. request'[r] = [request[r] EXCEPT !.at = "selecting"]
  BY <1>1, Going DEF SaveAccount, Steps
<1>3. rows'[m] # NULL
  <2>1. CASE rows[m] # NULL
    BY <1>1, <2>1 DEF SaveAccount
  <2>2. CASE rows[m] = NULL
    <3>1. PICK id \in Ids(m) : rows' = [rows EXCEPT ![m] = id]
      BY <1>1, <2>2 DEF SaveAccount, Fresh
    <3> QED
      BY <3>1, IdsAreNumbers DEF Tables
  <2> QED
    BY <2>1, <2>2
<1> QED
  BY <1>1, <1>2, <1>3 DEF SaveAccount, memory, Request

LEMMA SelectIdOwn ==
    ASSUME TypeOK, NEW r \in Requests, SelectId(r)
    PROVE  /\ request'[r].at = "keychain" /\ request'[r].id = rows[request[r].mailbox]
           /\ request'[r].mailbox = request[r].mailbox
           /\ request'[r].password = request[r].password
           /\ request'[r].kept = request[r].kept /\ request'[r].left = request[r].left
           /\ rows[request[r].mailbox] # NULL
           /\ UNCHANGED <<store, keychain, rows, saved, settled>>
<1>1. request[r] \in Request
  BY Requested DEF SelectId, At
<1>2. request'[r] = [request[r] EXCEPT !.at = "keychain", !.id = rows[request[r].mailbox]]
  BY DEF SelectId, TypeOK
<1>3. /\ request'[r].at = "keychain" /\ request'[r].id = rows[request[r].mailbox]
      /\ request'[r].mailbox = request[r].mailbox /\ request'[r].password = request[r].password
      /\ request'[r].kept = request[r].kept /\ request'[r].left = request[r].left
  <2> DEFINE id == rows[request[r].mailbox]
  <2>1. request'[r] = [request[r] EXCEPT !.at = "keychain", !.id = id]
    BY <1>2
  <2> HIDE DEF id
  <2>2. /\ request'[r].at = "keychain" /\ request'[r].id = id
        /\ request'[r].mailbox = request[r].mailbox
        /\ request'[r].password = request[r].password
        /\ request'[r].kept = request[r].kept /\ request'[r].left = request[r].left
    BY <1>1, <2>1 DEF Request
  <2> QED
    BY <2>2 DEF id
<1> QED
  BY <1>3 DEF SelectId, memory

\* What the keychain answers, and what a request then takes to be in it.
LEMMA KeychainOwn ==
    ASSUME TypeOK, NEW r \in Requests,
           SkipKeychain(r) \/ SavePassword(r) \/ ForgetPassword(r) \/ KeychainFails(r)
    PROVE  LET m == request[r].mailbox IN
           /\ At(r, "keychain") /\ request'[r].at = "marking"
           /\ request'[r].mailbox = m /\ request'[r].id = request[r].id
           /\ request'[r].password = request[r].password
           /\ UNCHANGED <<store, rows, saved, settled>>
           /\ \/ request'[r].kept /\ keychain'[m] = request[r].password
              \/ /\ ~request'[r].kept /\ keychain'[m] = NULL
                 /\ request'[r].left = request[r].left
              \/ request'[r].kept = request[r].kept /\ request'[r].left = keychain'[m]
<1> DEFINE m == request[r].mailbox
<1>1. /\ At(r, "keychain") /\ m \in Mailboxes
      /\ request[r].password \in Passwords \union {NULL}
  BY Requested DEF SkipKeychain, SavePassword, ForgetPassword, KeychainFails, At, TypeOK
<1>2. ASSUME NEW password \in Passwords \union {NULL}, NEW kept \in BOOLEAN,
             Keep(r, password, kept)
      PROVE  /\ request'[r].at = "marking"
             /\ request'[r].mailbox = m /\ request'[r].id = request[r].id
             /\ request'[r].password = request[r].password
             /\ request'[r].left = request[r].left
             /\ UNCHANGED <<store, rows, saved, settled>>
             /\ keychain'[m] = password /\ request'[r].kept = kept
  <2>1. keychain' = [keychain EXCEPT ![m] = password]
    BY <1>1, <1>2, Keeping
  <2>2. keychain'[m] = password
    BY <1>1, <2>1 DEF TypeOK
  <2> QED
    BY <1>1, <1>2, <2>2, Keeping DEF memory
<1>3. CASE SkipKeychain(r) \/ KeychainFails(r)
  <2>1. Leave(r)
    BY <1>3 DEF SkipKeychain, KeychainFails
  <2> QED
    BY <1>1, <2>1, Leaving DEF memory
<1>4. CASE SavePassword(r)
  BY <1>1, <1>2, <1>4 DEF SavePassword
<1>5. CASE ForgetPassword(r)
  BY <1>1, <1>2, <1>5 DEF ForgetPassword
<1> QED
  BY <1>3, <1>4, <1>5

LEMMA MarkSavedOwn ==
    ASSUME TypeOK, NEW r \in Requests, MarkSaved(r)
    PROVE  /\ request'[r] = [request[r] EXCEPT !.at = "opening"]
           /\ request'[r].at = "opening" /\ request'[r].kept = request[r].kept
           /\ request'[r].id = request[r].id /\ request'[r].left = request[r].left
           /\ request[r].mailbox \in saved' => request[r].kept
           /\ UNCHANGED <<store, keychain, rows, settled>>
<1>1. request[r] \in Request /\ Active(r)
  BY Requested DEF MarkSaved, At
<1>2. request'[r] = [request[r] EXCEPT !.at = "opening"]
  BY <1>1, Going DEF MarkSaved, Steps, At
<1> QED
  BY <1>1, <1>2 DEF MarkSaved, Request

LEMMA DeleteAccountOwn ==
    ASSUME TypeOK, Tables, NEW r \in Requests, DeleteAccount(r),
           rows[request[r].mailbox] = request[r].id
    PROVE  /\ request'[r] = [request[r] EXCEPT !.at = "forgetting"]
           /\ request'[r].at = "forgetting" /\ rows'[request[r].mailbox] = NULL
           /\ UNCHANGED <<store, keychain, saved, settled>>
<1>1. request[r] \in Request /\ Active(r) /\ request[r].mailbox \in Mailboxes
  BY Requested DEF DeleteAccount, At
<1>2. request'[r] = [request[r] EXCEPT !.at = "forgetting"]
  BY <1>1, Going DEF DeleteAccount, Steps, At
<1> QED
  BY <1>1, <1>2 DEF DeleteAccount, memory, Request, Tables

LEMMA DeletePasswordOwn ==
    ASSUME TypeOK, NEW r \in Requests, DeletePassword(r)
    PROVE  LET m == request[r].mailbox IN
           /\ request'[r].at = "unmarking" /\ request'[r].mailbox = m
           /\ request'[r].password = request[r].password
           /\ request'[r].left = keychain'[m]
           /\ UNCHANGED <<store, rows, saved, settled>>
<1> DEFINE m == request[r].mailbox
<1>1. request[r] \in Request
  BY Requested DEF DeletePassword, At
<1>2. request' = [request EXCEPT ![r].at = "unmarking", ![r].left = keychain'[m]]
  BY DEF DeletePassword
<1>3. request'[r] = [request[r] EXCEPT !.at = "unmarking", !.left = keychain'[m]]
  BY <1>2 DEF TypeOK
<1>4. /\ request'[r].at = "unmarking" /\ request'[r].mailbox = m
      /\ request'[r].password = request[r].password /\ request'[r].left = keychain'[m]
  BY <1>1, <1>3 DEF Request
<1> QED
  BY <1>4 DEF DeletePassword, memory

LEMMA UnmarkOwn ==
    ASSUME TypeOK, NEW r \in Requests, Unmark(r)
    PROVE  /\ request'[r] = [request[r] EXCEPT !.at = "closing"]
           /\ request'[r].at = "closing" /\ request[r].mailbox \notin saved'
           /\ request'[r].left = request[r].left
           /\ UNCHANGED <<store, keychain, rows, settled>>
<1>1. request[r] \in Request /\ Active(r)
  BY Requested DEF Unmark, At
<1>2. request'[r] = [request[r] EXCEPT !.at = "closing"]
  BY <1>1, Going DEF Unmark, Steps, At
<1> QED
  BY <1>1, <1>2 DEF Unmark, Request

-----------------------------------------------------------------------------
(* The invariant *)

\* A connecting only gets past the mail server with a password it accepts.
LEMMA PasswordChecked ==
    ASSUME TypeOK, Tables, NEW r \in Requests, Serve(r), Active(r)',
           request'[r].at \in {"selecting", "keychain", "marking", "opening"}
    PROVE  \/ request[r].at \in {"selecting", "keychain", "marking", "opening"}
           \/ request[r].mailbox \in Demo => request[r].password = DemoPassword
<1>1. CASE DeleteAccount(r) \/ DeletePassword(r) \/ Unmark(r)
  BY <1>1, EndsIdle, DeleteAccountOwn, DeletePasswordOwn, UnmarkOwn, Serving
  DEF Finishes, Active
<1>2. CASE SaveAccount(r)
  BY <1>2, SaveAccountOwn
<1>3. CASE Finishes(r)
  BY <1>3, EndsIdle, Serving DEF Active
<1>4. CASE SelectId(r) \/ MarkSaved(r) \/ SkipKeychain(r) \/ SavePassword(r)
           \/ ForgetPassword(r) \/ KeychainFails(r)
  BY <1>4 DEF SelectId, MarkSaved, SkipKeychain, SavePassword, ForgetPassword,
              KeychainFails, At
<1> QED
  BY <1>1, <1>2, <1>3, <1>4 DEF Serve, Finishes

\* What a step of a request settles, and of which mailbox
LEMMA Settles ==
    ASSUME TypeOK, Tables, OneAtAMailbox, NEW r \in Requests, Serve(r),
           NEW m \in Mailboxes, settled'[m] # settled[m], settled'[m] # NULL
    PROVE  /\ m = request[r].mailbox /\ Sole(r)
           /\ \/ OpenMailbox(r) /\ settled'[m] = [listed |-> TRUE,
                     password |-> request[r].password, kept |-> request[r].kept,
                     left |-> request[r].left]
              \/ CloseMailbox(r) /\ settled'[m] = [listed |-> FALSE,
                     password |-> NULL, kept |-> FALSE, left |-> request[r].left]
<1>1. Active(r) /\ OwnRequest(r) /\ request[r].alone \in BOOLEAN
      /\ request[r].password \in Passwords \union {NULL} /\ request[r].kept \in BOOLEAN
      /\ request[r].left \in Passwords \union {NULL}
  BY Serving, Requested
<1>2. m = request[r].mailbox /\ Sole(r)
  BY <1>1 DEF OwnRequest, Sole
<1>3. ASSUME NEW outcome \in Outcome \union {NULL}, End(r, outcome)
      PROVE  settled'[m] = outcome
  BY <1>1, <1>2, <1>3, Ends DEF Sole
<1>4. CASE ConnectFails(r) \/ DeleteAccount(r)
  BY <1>3, <1>4 DEF ConnectFails, DeleteAccount
<1>5. CASE OpenMailbox(r)
  BY <1>1, <1>2, <1>3, <1>5 DEF OpenMailbox, Outcome
<1>6. CASE CloseMailbox(r)
  BY <1>1, <1>2, <1>3, <1>6 DEF CloseMailbox, Outcome
<1> QED
  BY <1>2, <1>4, <1>5, <1>6
  DEF Serve, SaveAccount, SelectId, SkipKeychain, SavePassword, ForgetPassword,
      KeychainFails, Keep, Leave, MarkSaved, DeletePassword, Unmark

LEMMA DemoStep ==
    ASSUME TypeOK, Tables, OneAtAMailbox, DemoAccepted, [Next]_vars
    PROVE  DemoAccepted'
<1> DEFINE Checked == {"selecting", "keychain", "marking", "opening"}
<1>1. CASE UNCHANGED vars \/ Launch
  <2>1. UNCHANGED <<request, settled>>
    BY <1>1 DEF vars, Launch, ListRows, ListFails, ReadPasswords
  <2> QED
    BY <2>1 DEF DemoAccepted
<1>2. ASSUME NEW r \in Requests, NEW m \in Mailboxes,
             \/ \E password \in Passwords, remember \in BOOLEAN :
                    Connect(r, m, password, remember)
             \/ Remove(r, m)
      PROVE  DemoAccepted'
  <2>1. PICK req \in Request :
            /\ Begin(r, req) /\ req.at \in {"saving", "deleting"} /\ req.mailbox = m
            /\ req.at = "deleting" => req.id \in Ids(req.mailbox)
    BY <1>2, Commands
  <2>2. request'[r].at \notin Checked
    BY <2>1, BegunTyped
  <2>3. \A s \in Requests : s # r =>
            /\ request'[s].at = request[s].at /\ request'[s].mailbox = request[s].mailbox
            /\ request'[s].password = request[s].password
    BY <2>1, BegunTyped
  <2>4. settled'[m] = NULL /\ \A n \in Mailboxes : n # m => settled'[n] = settled[n]
    BY <2>1, Begins
  <2> QED
    BY <2>2, <2>3, <2>4, ProfileAssumption DEF DemoAccepted
<1>3. ASSUME NEW r \in Requests, Serve(r)
      PROVE  DemoAccepted'
  <2>1. Active(r) /\ OwnRequest(r)
    BY <1>3, Serving
  <2>2. ASSUME NEW s \in Requests, request'[s].at \in Checked, request'[s].mailbox \in Demo
        PROVE  request'[s].password = DemoPassword
    <3>1. CASE s = r
      <4>1. Active(s)'
        BY <2>2 DEF Active, Idle
      <4>2. request'[r].mailbox = request[r].mailbox /\ request'[r].password = request[r].password
        BY <2>1, <3>1, <4>1 DEF OwnRequest, Remains, Active
      <4> QED
        BY <1>3, <2>2, <3>1, <4>1, <4>2, PasswordChecked DEF DemoAccepted
    <3>2. CASE s # r
      BY <2>1, <2>2, <3>2 DEF OwnRequest, DemoAccepted
    <3> QED
      BY <3>1, <3>2
  <2>3. ASSUME NEW m \in Demo, settled'[m] # NULL, settled'[m].listed
        PROVE  settled'[m].password = DemoPassword
    <3>1. m \in Mailboxes
      BY ProfileAssumption
    <3>2. CASE settled'[m] = settled[m]
      BY <2>3, <3>2 DEF DemoAccepted
    <3>3. CASE settled'[m] # settled[m]
      <4>1. m = request[r].mailbox /\ OpenMailbox(r) /\ settled'[m].password = request[r].password
        <5>1. /\ m = request[r].mailbox
              /\ \/ OpenMailbox(r) /\ settled'[m] = [listed |-> TRUE,
                        password |-> request[r].password, kept |-> request[r].kept,
                     left |-> request[r].left]
                 \/ CloseMailbox(r) /\ settled'[m] = [listed |-> FALSE,
                        password |-> NULL, kept |-> FALSE, left |-> request[r].left]
          BY <1>3, <2>3, <3>1, <3>3, Settles
        <5> QED
          BY <2>3, <5>1
      <4> QED
        BY <4>1 DEF DemoAccepted, OpenMailbox, At
    <3> QED
      BY <3>2, <3>3
  <2> QED
    BY <2>2, <2>3 DEF DemoAccepted
<1>4. CASE Restart
  <2>1. (\A s \in Requests : request'[s] = Idle) /\ UNCHANGED settled
    BY <1>4 DEF Restart
  <2> QED
    BY <2>1 DEF DemoAccepted, Idle
<1> QED
  BY <1>1, <1>2, <1>3, <1>4 DEF Next

\* An undisturbed request goes on as its mailbox stands.
LEMMA OwnSoFar ==
    ASSUME TypeOK, Tables, NEW r \in Requests, Serve(r), Active(r)',
           request'[r].alone, Connecting(request[r]), Removing(request[r])
    PROVE  Connecting(request[r])' /\ Removing(request[r])'
<1> DEFINE m == request[r].mailbox
<1>1. Active(r) /\ OwnRequest(r) /\ SameBut(m) /\ m \in Mailboxes
  BY Serving, Requested
<1>2. /\ request'[r].mailbox = m /\ request'[r].password = request[r].password
      /\ ~Finishes(r)
  BY <1>1, EndsIdle DEF OwnRequest, Remains, Active
<1>3. CASE SaveAccount(r)
  BY <1>2, <1>3, SaveAccountOwn DEF Connecting, Removing, SaveAccount, At
<1>4. CASE SelectId(r)
  <2>1. request[r].at = "selecting"
    BY <1>4 DEF SelectId, At
  <2>2. /\ request'[r].at = "keychain" /\ request'[r].id = rows[m] /\ rows[m] # NULL
        /\ request'[r].kept = request[r].kept /\ request'[r].left = request[r].left
        /\ rows' = rows
    BY <1>4, SelectIdOwn
  <2> QED
    BY <1>2, <2>1, <2>2 DEF Connecting, Removing
<1>5. CASE SkipKeychain(r) \/ SavePassword(r) \/ ForgetPassword(r) \/ KeychainFails(r)
  <2>1. /\ At(r, "keychain") /\ request'[r].at = "marking" /\ request'[r].id = request[r].id
        /\ rows' = rows
    BY <1>5, KeychainOwn
  <2>2. ~request[r].kept /\ request[r].left = NULL
    BY <2>1 DEF Connecting, At
  <2>3. keychain'[m] = IF request'[r].kept THEN request[r].password ELSE request'[r].left
    BY <1>5, <2>2, KeychainOwn
  <2> QED
    BY <1>2, <2>1, <2>3 DEF Connecting, Removing, At
<1>6. CASE MarkSaved(r)
  BY <1>2, <1>6, MarkSavedOwn DEF Connecting, Removing, MarkSaved, At
<1>7. CASE DeleteAccount(r)
  BY <1>2, <1>7, DeleteAccountOwn DEF Connecting, Removing, Finishes
<1>8. CASE DeletePassword(r)
  <2>1. /\ request[r].at = "forgetting" /\ request'[r].at = "unmarking" /\ rows' = rows
        /\ request'[r].left = keychain'[m]
    BY <1>8, DeletePasswordOwn DEF DeletePassword, At
  <2> QED
    BY <1>2, <2>1 DEF Connecting, Removing
<1>9. CASE Unmark(r)
  BY <1>2, <1>9, UnmarkOwn DEF Connecting, Removing, Unmark, At
<1> QED
  BY <1>2, <1>3, <1>4, <1>5, <1>6, <1>7, <1>8, <1>9 DEF Serve, Finishes

LEMMA SoFarStep ==
    ASSUME TypeOK, Tables, OneAtAMailbox, AfterLaunch, SoFar, [Next]_vars
    PROVE  SoFar'
<1>1. CASE UNCHANGED vars
  BY <1>1 DEF vars, SoFar, Sole, Active, Connecting, Removing
<1>2. CASE Launch \/ Restart
  <2>1. \A s \in Requests : request'[s] = Idle
    BY <1>2 DEF Launch, ListRows, ListFails, ReadPasswords, Restart, AfterLaunch, Active, Loaded
  <2> QED
    BY <2>1 DEF SoFar, Sole, Active
<1>3. ASSUME NEW r \in Requests, NEW m \in Mailboxes,
             \/ \E password \in Passwords, remember \in BOOLEAN :
                    Connect(r, m, password, remember)
             \/ Remove(r, m)
      PROVE  SoFar'
  <2>1. PICK req \in Request :
            /\ Begin(r, req) /\ req.at \in {"saving", "deleting"} /\ req.mailbox = m
            /\ req.left = NULL /\ ~req.kept
            /\ req.at = "deleting" => req.id \in Ids(req.mailbox)
    BY <1>3, Commands
  <2>2. UNCHANGED <<keychain, rows, saved>>
    BY <1>3, Commands DEF memory
  <2>3. request'[r].at \in {"saving", "deleting"} /\ ~request'[r].kept /\ request'[r].left = NULL
    BY <2>1, BegunTyped
  <2>4. ASSUME NEW s \in Requests, s # r, Sole(s)'
        PROVE  Sole(s) /\ request'[s] = request[s]
    <3>1. Active(s)
      BY <2>1, <2>4, BegunTyped DEF Sole, Active
    <3>2. CASE request[s].mailbox = m
      <4>1. request'[s] = [request[s] EXCEPT !.alone = FALSE] /\ request[s] \in Request
        BY <2>1, <2>4, <3>1, <3>2, Begins, Requested
      <4> QED
        BY <2>4, <4>1 DEF Sole, Request
    <3>3. CASE request[s].mailbox # m
      <4>1. request'[s] = request[s]
        BY <2>1, <2>4, <3>3, Begins, ZenonT(30)
      <4> QED
        BY <2>4, <4>1 DEF Sole, Active
    <3> QED
      BY <3>2, <3>3
  <2> QED
    BY <2>2, <2>3, <2>4 DEF SoFar, Connecting, Removing
<1>4. ASSUME NEW r \in Requests, Serve(r), NEW s \in Requests, Sole(s)'
      PROVE  Connecting(request[s])' /\ Removing(request[s])'
  <2>1. Active(r) /\ OwnRequest(r) /\ SameBut(request[r].mailbox)
    BY <1>4, Serving
  <2>2. Sole(s) /\ Connecting(request[s]) /\ Removing(request[s])
    BY <1>4, <2>1, Onward DEF Sole, SoFar
  <2>3. CASE s = r
    BY <1>4, <2>2, <2>3, OwnSoFar DEF Sole
  <2>4. CASE s # r
    <3>1. /\ request'[s] = request[s] /\ request[s].mailbox \in Mailboxes
          /\ request[s].mailbox # request[r].mailbox
      BY <2>1, <2>2, <2>4, Apart, Requested DEF OwnRequest, Sole
    <3>2. UNCHANGED <<rows[request[s].mailbox], keychain[request[s].mailbox]>>
          /\ (request[s].mailbox \in saved' <=> request[s].mailbox \in saved)
      BY <2>1, <3>1 DEF SameBut
    <3> QED
      BY <2>2, <3>1, <3>2 DEF Connecting, Removing
  <2> QED
    BY <2>3, <2>4
<1> QED
  BY <1>1, <1>2, <1>3, <1>4 DEF Next, SoFar

\* What is kept of one mailbox is what was asked for.
Kept(m) ==
    settled[m] # NULL =>
        /\ (rows[m] # NULL) = settled[m].listed
        /\ keychain[m] = IF settled[m].kept THEN settled[m].password ELSE settled[m].left
        /\ m \in saved => settled[m].kept \/ settled[m].left # NULL
        /\ Open(m) => connected[m][rows[m]] \in {settled[m].password, settled[m].left}

LEMMA KeptIsAsAsked == AsAsked <=> \A m \in Mailboxes : Kept(m)
BY DEF AsAsked, KeychainAsAsked, OpenAsAsked, Kept

LEMMA KeptIsAsAskedNext == AsAsked' <=> \A m \in Mailboxes : Kept(m)'
BY DEF AsAsked, KeychainAsAsked, OpenAsAsked, Kept

\* A launch opens a mailbox only with the password that was to be kept for it.
LEMMA LaunchAsAsked ==
    ASSUME TypeOK, Tables, DemoAccepted, Launch, NEW m \in Mailboxes, Kept(m)
    PROVE  Kept(m)'
<1> USE DEF memory
<1>1. CASE ListFails
  BY <1>1 DEF ListFails, Kept, Open
<1>2. CASE ListRows
  <2>1. \A id \in Ids(m) : connected'[m][id] =
            IF m \in Demo /\ rows[m] = id THEN DemoPassword ELSE connected[m][id]
    BY <1>2 DEF ListRows
  <2>2. rows[m] # NULL => rows[m] \in Ids(m)
    BY DEF TypeOK
  <2>3. UNCHANGED <<keychain, rows, saved, settled>>
    BY <1>2 DEF ListRows
  <2> QED
    BY <2>1, <2>2, <2>3 DEF Kept, Open, DemoAccepted
<1>3. CASE ReadPasswords
  <2>1. PICK read \in SUBSET {n \in Listed \ Demo : keychain[n] # NULL} :
            /\ saved' = saved \union read
            /\ connected' = [n \in Mailboxes |-> [id \in Ids(n) |->
                 IF n \in read /\ rows[n] = id THEN keychain[n] ELSE connected[n][id]]]
    BY <1>3 DEF ReadPasswords
  <2>2. \A id \in Ids(m) : connected'[m][id] =
            IF m \in read /\ rows[m] = id THEN keychain[m] ELSE connected[m][id]
    BY <2>1
  <2>3. m \in read => keychain[m] # NULL
    BY <2>1
  <2>4. rows[m] # NULL => rows[m] \in Ids(m)
    BY DEF TypeOK
  <2>5. UNCHANGED <<keychain, rows, settled>>
    BY <1>3 DEF ReadPasswords
  <2> QED
    BY <2>1, <2>2, <2>3, <2>4, <2>5 DEF Kept, Open
<1> QED
  BY <1>1, <1>2, <1>3 DEF Launch

\* What is settled by the end of an undisturbed request is how things stand.
LEMMA SettledAsAsked ==
    ASSUME TypeOK, Tables, OneAtAMailbox, SoFar, NEW r \in Requests, Serve(r),
           NEW m \in Mailboxes, settled'[m] # settled[m]
    PROVE  Kept(m)'
<1> SUFFICES ASSUME settled'[m] # NULL
             PROVE  Kept(m)'
  BY DEF Kept
<1>1. m = request[r].mailbox /\ Connecting(request[r]) /\ Removing(request[r])
  BY Settles DEF SoFar
<1>2. rows[m] \in Ids(m) \union {NULL} /\ NULL \notin Ids(m)
  BY IdsAreNumbers DEF TypeOK
<1>3. CASE OpenMailbox(r)
  <2>1. settled'[m] = [listed |-> TRUE, password |-> request[r].password,
                       kept |-> request[r].kept,
                     left |-> request[r].left]
    BY <1>3, Settles DEF OpenMailbox, CloseMailbox, At
  <2>2. /\ UNCHANGED <<keychain, rows, saved>>
        /\ connected' = [connected EXCEPT ![m][request[r].id] = request[r].password]
    BY <1>1, <1>3 DEF OpenMailbox
  <2>3. /\ rows[m] # NULL /\ rows[m] = request[r].id
        /\ keychain[m] = IF request[r].kept THEN request[r].password ELSE request[r].left
        /\ m \in saved => request[r].kept
    BY <1>1, <1>3 DEF OpenMailbox, At, Connecting
  <2>4. connected'[m][rows[m]] = request[r].password
    <3>1. connected' = [connected EXCEPT ![m] =
              [connected[m] EXCEPT ![request[r].id] = request[r].password]]
      BY <2>2
    <3> QED
      BY <1>2, <2>3, <3>1 DEF Tables, TypeOK
  <2>5. /\ settled'[m].listed = TRUE /\ settled'[m].password = request[r].password
        /\ settled'[m].kept = request[r].kept /\ settled'[m].left = request[r].left
    BY <2>1
  <2>6. (rows'[m] # NULL) = settled'[m].listed
    BY <2>2, <2>3, <2>5
  <2>7. keychain'[m] = IF settled'[m].kept THEN settled'[m].password ELSE settled'[m].left
    BY <2>2, <2>3, <2>5
  <2>8. m \in saved' => settled'[m].kept
    BY <2>2, <2>3, <2>5
  <2>9. connected'[m][rows'[m]] = settled'[m].password
    BY <2>2, <2>4, <2>5
  <2> QED
    BY <2>6, <2>7, <2>8, <2>9 DEF Kept
<1>4. CASE CloseMailbox(r)
  <2>1. settled'[m] = [listed |-> FALSE, password |-> NULL, kept |-> FALSE, left |-> request[r].left]
    BY <1>4, Settles DEF OpenMailbox, CloseMailbox, At
  <2>2. UNCHANGED <<keychain, rows, saved>>
    BY <1>4 DEF CloseMailbox
  <2>3. rows[m] = NULL /\ keychain[m] = request[r].left /\ m \notin saved
    BY <1>1, <1>4 DEF CloseMailbox, At, Removing
  <2>4. /\ settled'[m].listed = FALSE /\ settled'[m].kept = FALSE
        /\ settled'[m].left = request[r].left
    BY <2>1
  <2>5. (rows'[m] # NULL) = settled'[m].listed
    BY <2>2, <2>3, <2>4
  <2>6. keychain'[m] = IF settled'[m].kept THEN settled'[m].password ELSE settled'[m].left
    BY <2>2, <2>3, <2>4
  <2>7. m \notin saved' /\ ~Open(m)'
    BY <2>2, <2>3 DEF Open
  <2> QED
    BY <2>5, <2>6, <2>7 DEF Kept
<1> QED
  BY <1>3, <1>4, Settles

LEMMA AsAskedStep ==
    ASSUME TypeOK, Tables, OneAtAMailbox, DemoAccepted, SoFar, AsAsked, [Next]_vars
    PROVE  AsAsked'
<1> SUFFICES ASSUME NEW m \in Mailboxes
             PROVE  Kept(m)'
  BY KeptIsAsAskedNext
<1> USE KeptIsAsAsked
<1>1. CASE UNCHANGED vars
  BY <1>1 DEF vars, Kept, Open
<1>2. CASE Launch
  BY <1>2, LaunchAsAsked
<1>3. ASSUME NEW r \in Requests, NEW n \in Mailboxes,
             \/ \E password \in Passwords, remember \in BOOLEAN :
                    Connect(r, n, password, remember)
             \/ Remove(r, n)
      PROVE  Kept(m)'
  <2>1. UNCHANGED <<keychain, rows, connected, saved>>
    BY <1>3, Commands DEF memory
  <2>2. settled'[m] = NULL \/ settled'[m] = settled[m]
    BY <1>3, Commands, Begins
  <2> QED
    BY <2>1, <2>2 DEF Kept, Open
<1>4. ASSUME NEW r \in Requests, Serve(r)
      PROVE  Kept(m)'
  <2>1. CASE settled'[m] # settled[m]
    BY <1>4, <2>1, SettledAsAsked
  <2>2. CASE settled'[m] = settled[m] /\ m = request[r].mailbox
    <3>1. settled[m] = NULL
      BY <1>4, <2>2, Serving DEF OneAtAMailbox
    <3> QED
      BY <2>2, <3>1 DEF Kept
  <2>3. CASE settled'[m] = settled[m] /\ m # request[r].mailbox
    <3>1. /\ UNCHANGED <<rows[m], keychain[m], connected[m]>>
          /\ m \in saved' <=> m \in saved
      BY <1>4, <2>3, Serving DEF SameBut
    <3> QED
      BY <2>3, <3>1 DEF Kept, Open
  <2> QED
    BY <2>1, <2>2, <2>3
<1>5. CASE Restart
  <2>1. /\ UNCHANGED <<keychain, rows, settled>> /\ saved' = {}
        /\ \A id \in Ids(m) : connected'[m][id] = NULL
    BY <1>5 DEF Restart, Closed
  <2>2. rows[m] # NULL => rows[m] \in Ids(m)
    BY DEF TypeOK
  <2> QED
    BY <2>1, <2>2 DEF Kept, Open
<1> QED
  BY <1>1, <1>2, <1>3, <1>4, <1>5 DEF Next

LEMMA IInvInit == Init => IInv
<1> SUFFICES ASSUME Init PROVE IInv
  OBVIOUS
<1>1. \A r \in Requests : ~Active(r) /\ request[r].at = "idle"
  BY DEF Init, Active, Idle
<1>2. \A m \in Mailboxes : settled[m] = NULL
  BY DEF Init
<1>3. TypeOK
  BY <1>1 DEF Init, TypeOK, Closed
<1>4. Tables
  BY DEF Init, Tables, Closed
<1>5. OneAtAMailbox /\ AfterLaunch /\ SoFar
  BY <1>1 DEF OneAtAMailbox, AfterLaunch, SoFar, Sole
<1>6. DemoAccepted /\ AsAsked
  BY <1>1, <1>2, ProfileAssumption DEF DemoAccepted, AsAsked, KeychainAsAsked, OpenAsAsked
<1> QED
  BY <1>3, <1>4, <1>5, <1>6 DEF IInv

\* Over launches, requests that overlap, a keychain that refuses or that some
\* launches do not have, the parts
\* of the invariant hold together (desktop/src/state.rs).
THEOREM Invariant == Spec => []IInv
<1>1. ASSUME IInv, [Next]_vars
      PROVE  IInv'
  <2> USE <1>1 DEF IInv
  <2>1. TypeOK' /\ Tables'
    BY TypeStep
  <2>2. OneAtAMailbox' /\ AfterLaunch'
    BY OneStep, LoadedStep
  <2>3. DemoAccepted' /\ SoFar' /\ AsAsked'
    BY DemoStep, SoFarStep, AsAskedStep
  <2> QED
    BY <2>1, <2>2, <2>3
<1> QED
  BY <1>1, IInvInit, PTL DEF Spec

-----------------------------------------------------------------------------
\* An id that a request goes on with is one its mailbox was given; nothing but
\* a password, or none, is in the keychain and in memory (SelectId: the row is
\* read by address in a statement of its own, account.rs).
THEOREM WellTyped == Spec => []TypeOK
<1>1. IInv => TypeOK
  BY DEF IInv
<1> QED
  BY <1>1, Invariant, PTL

\* What the last undisturbed request for a mailbox asked for, and was told,
\* stays so over launches with and without a keychain and whatever is done to
\* other mailboxes: in the table, in the keychain and in memory; an older
\* password is there only if it could not be deleted (add_connected,
\* remove_account and load_saved_passwords in desktop/src/state.rs).
THEOREM StaysAsAsked == Spec => []AsAsked
<1>1. IInv => AsAsked
  BY DEF IInv
<1> QED
  BY <1>1, Invariant, PTL
=============================================================================
