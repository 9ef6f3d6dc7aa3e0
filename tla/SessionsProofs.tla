--------------------------- MODULE SessionsProofs ---------------------------
(***************************************************************************)
(* Proofs about Sessions, for any users, browsers, mailboxes, numbers of   *)
(* requests at a time, of tokens kept, of sign-ins and of accounts.        *)
(***************************************************************************)
EXTENDS Sessions, FiniteSetTheorems, TLAPS

\* What a request in progress knows is true of the sign-in it acts for.
Past == {"hydrate", "authorized", "select", "add", "purge"}

Honest(q) ==
    /\ q.jar # 0 => signedIn[q.jar] # NULL
    /\ q.kind \in ForUsers => q.jar # 0
    /\ q.kind = "signout" => q.jar # 0
    /\ q.kind = "signin" => q.user # NULL
    /\ q.kind = "connect" => q.mailbox # NULL
    /\ q.kind = "signin" /\ q.stage = "session" =>
           q.jar # 0 /\ q.user = signedIn[q.jar]
    /\ q.kind \in ForUsers /\ q.stage \in Past => q.user = signedIn[q.jar]

RequestsHonest == \A r \in Requests : request[r] # NULL => Honest(request[r])
CookiesHonest == \A b \in Browsers : cookies[b] # 0 => signedIn[cookies[b]] # NULL

\* Ids are given out in order, and a row has one that was.
RowsCounted == \A i \in Ids : accounts[i] # NULL => i <= ids

IInv ==
    /\ TypeOK
    /\ OneUserPerSession
    /\ RequestsHonest
    /\ CookiesHonest
    /\ RowsCounted

-----------------------------------------------------------------------------
(* Types *)

\* The session that a request finds or starts is one.
LEMMA CurrentType ==
    ASSUME TypeOK, NEW n \in SignIns
    PROVE  Current(n) \in Session
BY NullAssumption DEF TypeOK, Current, Session

\* Changing one session, whatever number the jar holds, keeps their type.
LEMMA SessionsType ==
    ASSUME TypeOK, NEW n \in 0..MaxSignIns, NEW s,
           n \in SignIns => s \in Session \union {NULL},
           sessions' = [sessions EXCEPT ![n] = s]
    PROVE  sessions' \in [SignIns -> Session \union {NULL}]
BY DEF TypeOK

Stages == {"start", "cleanup", "insert", "session", "forget", "validate",
           "hydrate", "authorized", "select", "add", "purge", "answer"}

\* A request that goes on is still a request.
LEMMA RequestType ==
    ASSUME TypeOK, NEW r \in Requests, NEW q \in Request \union {NULL},
           request' = [request EXCEPT ![r] = q]
    PROVE  request' \in [Requests -> Request \union {NULL}]
BY DEF TypeOK

LEMMA StageType ==
    ASSUME NEW q \in Request, NEW stage \in Stages
    PROVE  /\ [q EXCEPT !.stage = stage] \in Request
           /\ \A n \in 0..MaxSignIns :
                  [q EXCEPT !.stage = stage, !.jar = n] \in Request
           /\ \A u \in Users \union {NULL} :
                  [q EXCEPT !.stage = stage, !.user = u] \in Request
           /\ \A i \in 0..MaxIds :
                  [q EXCEPT !.stage = stage, !.account = i] \in Request
<1>1. /\ [q EXCEPT !.stage = stage] \in Request
      /\ \A n \in 0..MaxSignIns : [q EXCEPT !.stage = stage, !.jar = n] \in Request
  BY DEF Request, Stages
<1>2. \A u \in Users \union {NULL} : [q EXCEPT !.stage = stage, !.user = u] \in Request
  BY DEF Request, Stages
<1>3. \A i \in 0..MaxIds : [q EXCEPT !.stage = stage, !.account = i] \in Request
  BY DEF Request, Stages
<1> QED
  BY <1>1, <1>2, <1>3

LEMMA ToType ==
    ASSUME TypeOK, NEW r \in Requests, request[r] # NULL,
           NEW stage \in Stages, To(r, stage)
    PROVE  request' \in [Requests -> Request \union {NULL}]
<1>1. request[r] \in Request
  BY DEF TypeOK
<1> QED
  BY <1>1, StageType, RequestType DEF To

\* Every step keeps the types.
LEMMA TypeStep ==
    ASSUME TypeOK, RequestsHonest, [Next]_vars
    PROVE  TypeOK'
<1> USE DEF TypeOK, database
<1>1. CASE UNCHANGED vars
  BY <1>1 DEF vars
<1>2. CASE Restart
  BY <1>2 DEF Restart
<1>3. ASSUME NEW n \in SignIns, Forget(n) \/ Expire(n)
      PROVE  TypeOK'
  BY <1>3 DEF Forget, Expire
<1>4. ASSUME NEW r \in Requests, Proceeds(r)
      PROVE  TypeOK'
  <2>1. request[r] # NULL /\ request[r] \in Request
    BY <1>4 DEF Proceeds, At, ForgetPrevious, CleanUp, InsertToken, StartSession,
       DeleteToken, RemoveSession, Answer, LookUp, Validate, Hydrate, SaveAccount,
       SelectId, AddAccount, DeleteAccount, RemoveEverywhere, Drop
  <2>2. request[r].jar \in 0..MaxSignIns /\ request[r].user \in Users \union {NULL}
    BY <2>1 DEF Request
  <2>3. ASSUME SetUser(request[r].jar, request[r].user)
        PROVE  sessions' \in [SignIns -> Session \union {NULL}]
    <3>1. request[r].jar \in SignIns =>
              [Current(request[r].jar) EXCEPT !.user = request[r].user] \in Session
      BY <2>2, CurrentType DEF Session
    <3> QED
      BY <2>2, <2>3, <3>1, SessionsType DEF SetUser
  <2>4. CASE ForgetPrevious(r)
    BY <2>1, <2>4, ToType DEF Stages, ForgetPrevious
  <2>5. CASE CleanUp(r)
    BY <2>1, <2>5, ToType DEF Stages, CleanUp
  <2>6. CASE InsertToken(r)
    <3>1. PICK n \in SignIns :
              /\ signedIn' = [signedIn EXCEPT ![n] = request[r].user]
              /\ tokens' = [tokens EXCEPT ![n] = request[r].user]
              /\ request' = [request EXCEPT ![r] =
                     [request[r] EXCEPT !.stage = "session", !.jar = n]]
      BY <2>6 DEF InsertToken
    <3>2. n \in 0..MaxSignIns
      BY BoundsAssumption DEF SignIns
    <3>3. request' \in [Requests -> Request \union {NULL}]
      BY <2>1, <3>1, <3>2, StageType, RequestType DEF Stages
    <3> QED
      BY <2>2, <2>6, <3>1, <3>3 DEF InsertToken
  <2>7. CASE StartSession(r)
    BY <2>1, <2>3, <2>7, ToType DEF Stages, StartSession
  <2>8. CASE DeleteToken(r)
    BY <2>1, <2>8, ToType DEF Stages, DeleteToken
  <2>9. CASE RemoveSession(r)
    BY <2>1, <2>9, ToType DEF Stages, RemoveSession
  <2>10. CASE Answer(r)
    <3>1. 0 \in 0..MaxSignIns
      BY BoundsAssumption
    <3> QED
      BY <2>2, <2>10, <3>1 DEF Answer, End
  <2>11. CASE LookUp(r)
    <3>1. request[r].jar \in SignIns
      BY <2>1, <2>2, <2>11, BoundsAssumption
      DEF LookUp, At, RequestsHonest, Honest, SignIns
    <3> DEFINE known == Current(request[r].jar).user
               stage == IF known # NULL THEN "authorized" ELSE "validate"
    <3>2. known \in Users \union {NULL} /\ stage \in Stages
      BY <3>1, CurrentType DEF Session, Stages
    <3>3. request' = [request EXCEPT ![r] =
              [request[r] EXCEPT !.stage = stage, !.user = known]]
      BY <2>11 DEF LookUp
    <3> HIDE DEF known, stage
    <3>4. request' \in [Requests -> Request \union {NULL}]
      BY <2>1, <3>2, <3>3, StageType, RequestType
    <3> QED
      BY <2>11, <3>4 DEF LookUp
  <2>12. CASE Validate(r)
    <3>1. request[r].jar \in SignIns
      BY <2>1, <2>2, <2>12, BoundsAssumption
      DEF Validate, At, RequestsHonest, Honest, SignIns
    <3>2. request' \in [Requests -> Request \union {NULL}]
      BY <2>1, <2>12, <3>1, StageType, RequestType DEF Validate, Stages
    <3> QED
      BY <2>12, <3>2 DEF Validate
  <2>13. CASE Hydrate(r)
    BY <2>1, <2>3, <2>13, ToType DEF Stages, Hydrate
  <2>14. CASE SaveAccount(r)
    <3>1. CASE RowsOf(request[r].mailbox) = {} /\ NewRow(r, request[r].mailbox)
      <4>1. request[r].user \in Users /\ request[r].mailbox \in Mailboxes
        BY <2>1, <2>14 DEF Request, SaveAccount, At, RequestsHonest, Honest,
           ForUsers, Past
      <4>2. ids + 1 \in Ids /\ ids' = ids + 1 /\ ids' \in 0..MaxIds
        BY <3>1, BoundsAssumption DEF NewRow, Ids
      <4>3. [mailbox |-> request[r].mailbox, owner |-> request[r].user] \in Account
        BY <4>1 DEF Account
      <4>4. accounts' \in [Ids -> Account \union {NULL}]
        BY <3>1, <4>2, <4>3 DEF NewRow
      <4>5. request' \in [Requests -> Request \union {NULL}]
        BY <2>1, <2>14, ToType DEF SaveAccount, Stages
      <4> QED
        BY <2>14, <4>2, <4>4, <4>5 DEF SaveAccount
    <3>2. CASE UNCHANGED <<accounts, ids>>
      BY <2>1, <2>14, <3>2, ToType DEF SaveAccount, Stages
    <3> QED
      BY <2>14, <3>1, <3>2 DEF SaveAccount
  <2>15. CASE SelectId(r)
    <3>1. PICK i \in Ids : request' = [request EXCEPT ![r] =
              [request[r] EXCEPT !.stage = "add", !.account = i]]
      BY <2>15 DEF SelectId, RowsOf
    <3>2. i \in 0..MaxIds
      BY BoundsAssumption DEF Ids
    <3>3. request' \in [Requests -> Request \union {NULL}]
      BY <2>1, <3>1, <3>2, StageType, RequestType DEF Stages
    <3> QED
      BY <2>15, <3>3 DEF SelectId
  <2>16. CASE AddAccount(r)
    <3> DEFINE c == Current(request[r].jar)
               s == [c EXCEPT !.accounts =
                        [c.accounts EXCEPT ![request[r].account] = request[r].user]]
    <3>1. request[r].jar \in SignIns => s \in Session
      BY <2>2, CurrentType DEF Session
    <3>2. sessions' = [sessions EXCEPT ![request[r].jar] = s]
      BY <2>16 DEF AddAccount
    <3>3. sessions' \in [SignIns -> Session \union {NULL}]
      BY <2>2, <3>1, <3>2, SessionsType
    <3> QED
      BY <2>16, <3>3 DEF AddAccount, End
  <2>17. CASE DeleteAccount(r)
    BY <2>1, <2>17, ToType DEF Stages, DeleteAccount
  <2>18. CASE RemoveEverywhere(r)
    <3>1. ASSUME NEW n \in SignIns, sessions[n] # NULL
          PROVE  [sessions[n] EXCEPT !.accounts =
                     [sessions[n].accounts EXCEPT ![request[r].account] = NULL]]
                     \in Session
      BY <3>1 DEF Session
    <3>2. sessions' \in [SignIns -> Session \union {NULL}]
      BY <2>18, <3>1 DEF RemoveEverywhere
    <3> QED
      BY <2>18, <3>2 DEF RemoveEverywhere, End
  <2>19. CASE Drop(r)
    BY <2>19 DEF Drop, End
  <2> QED
    BY <1>4, <2>4, <2>5, <2>6, <2>7, <2>8, <2>9, <2>10, <2>11, <2>12, <2>13,
       <2>14, <2>15, <2>16, <2>17, <2>18, <2>19 DEF Proceeds
<1>5. ASSUME NEW r \in Requests, NEW b \in Browsers, Asks(r, b)
      PROVE  TypeOK'
  <2>1. PICK kind \in {"signin", "signout", "connect", "remove"},
             user \in Users \union {NULL}, mailbox \in Mailboxes \union {NULL},
             account \in 0..MaxIds : Send(r, b, kind, user, mailbox, account)
    <3>1. 0 \in 0..MaxIds /\ 1..ids \subseteq 0..MaxIds
      BY BoundsAssumption
    <3>2. CASE \E u \in Users : Send(r, b, "signin", u, NULL, 0)
      BY <3>1, <3>2
    <3>3. CASE Send(r, b, "signout", NULL, NULL, 0)
      BY <3>1, <3>3
    <3>4. CASE \E m \in Mailboxes : Send(r, b, "connect", NULL, m, 0)
      BY <3>1, <3>4
    <3>5. CASE \E i \in 1..ids : Send(r, b, "remove", NULL, NULL, i)
      BY <3>1, <3>5
    <3> QED
      BY <1>5, <3>2, <3>3, <3>4, <3>5 DEF Asks
  <2>2. [browser |-> b, kind |-> kind, stage |-> "start", jar |-> cookies[b],
         user |-> user, mailbox |-> mailbox, account |-> account] \in Request
    BY DEF Request
  <2> QED
    BY <2>1, <2>2, RequestType DEF Send
<1> QED
  BY <1>1, <1>2, <1>3, <1>4, <1>5 DEF Next
-----------------------------------------------------------------------------
(* One user per session *)

\* A sign-in's user, once there is one, never changes.
Kept == \A n \in SignIns : signedIn[n] # NULL => signedIn'[n] = signedIn[n]

LEMMA SignInsKept ==
    ASSUME TypeOK, [Next]_vars
    PROVE  Kept
<1>1. CASE UNCHANGED signedIn
  BY <1>1 DEF Kept
<1>2. ASSUME NEW r \in Requests, InsertToken(r)
      PROVE  Kept
  BY <1>2 DEF InsertToken, NewToken, Unused, TypeOK, Kept
<1>3. (\E r \in Requests : InsertToken(r)) \/ UNCHANGED signedIn
  BY DEF Next, vars, Restart, Forget, Expire, Asks, Send, Proceeds, ForgetPrevious,
     CleanUp, StartSession, DeleteToken, RemoveSession, Answer, LookUp, Validate,
     Hydrate, SaveAccount, SelectId, AddAccount, DeleteAccount, RemoveEverywhere,
     Drop
<1> QED
  BY <1>1, <1>2, <1>3

\* What a request knows stays true while others run.
LEMMA StaysHonest ==
    ASSUME NEW q \in Request, Honest(q), Kept
    PROVE  Honest(q)'
<1>1. q.jar # 0 => q.jar \in SignIns
  BY BoundsAssumption DEF Request, SignIns
<1> QED
  BY <1>1 DEF Honest, Kept

\* So it is enough to look at the request that a step is about.
LEMMA HonestChange ==
    ASSUME TypeOK, RequestsHonest, Kept, NEW r \in Requests, NEW q,
           q = NULL \/ Honest(q)',
           request' = [request EXCEPT ![r] = q]
    PROVE  RequestsHonest'
<1>1. SUFFICES ASSUME NEW o \in Requests, request'[o] # NULL
               PROVE  Honest(request[o])'
  BY DEF RequestsHonest
<1>2. CASE o = r
  <2>1. request'[o] = q
    BY <1>2 DEF TypeOK
  <2> QED
    BY <1>1, <2>1 DEF Honest
<1>3. CASE o # r
  <2>1. request'[o] = request[o] /\ request[o] \in Request
    BY <1>1, <1>3 DEF TypeOK
  <2>2. Honest(request[o])
    BY <1>1, <2>1 DEF RequestsHonest
  <2>3. PICK q2 \in Request : q2 = request[o]
    BY <2>1
  <2>4. Honest(q2)'
    BY <2>2, <2>3, StaysHonest
  <2> QED
    BY <2>1, <2>3, <2>4 DEF Honest
<1> QED
  BY <1>2, <1>3

\* Every step leaves requests that know the truth.
LEMMA HonestStep ==
    ASSUME IInv, [Next]_vars, Kept
    PROVE  RequestsHonest'
<1> USE DEF IInv
<1>1. CASE UNCHANGED request
  <2>1. SUFFICES ASSUME NEW r \in Requests, request[r] # NULL
                 PROVE  Honest(request[r])'
    BY <1>1 DEF RequestsHonest
  <2>2. PICK q \in Request : q = request[r]
    BY <2>1 DEF TypeOK
  <2>3. Honest(q)'
    BY <2>1, <2>2, StaysHonest DEF RequestsHonest
  <2> QED
    BY <1>1, <2>2, <2>3 DEF Honest
<1>2. CASE Restart
  BY <1>2 DEF Restart, RequestsHonest
<1>3. ASSUME NEW r \in Requests, Proceeds(r)
      PROVE  RequestsHonest'
  <2>1. request[r] # NULL /\ request[r] \in Request /\ Honest(request[r])
    BY <1>3 DEF Proceeds, At, ForgetPrevious, CleanUp, InsertToken, StartSession,
       DeleteToken, RemoveSession, Answer, LookUp, Validate, Hydrate, SaveAccount,
       SelectId, AddAccount, DeleteAccount, RemoveEverywhere, Drop, TypeOK,
       RequestsHonest
  <2>2. PICK p \in Request : p = request[r]
    BY <2>1
  <2>3. Honest(p) /\ p # NULL
    BY <2>1, <2>2
  <2>4. p.jar # 0 => p.jar \in SignIns
    BY <2>2, BoundsAssumption DEF Request, SignIns
  <2>5. ASSUME NEW stage \in Stages, To(r, stage),
               stage # "session",
               stage \in Past => p.stage \in Past \/ p.kind \notin ForUsers
        PROVE  RequestsHonest'
    <3> DEFINE q == [p EXCEPT !.stage = stage]
    <3>1. request' = [request EXCEPT ![r] = q]
      BY <2>2, <2>5 DEF To
    <3>2. q \in Request
      BY <2>5, StageType
    <3>3. Honest(q)
      BY <2>3, <2>5 DEF Honest, Request, Past, ForUsers
    <3> HIDE DEF q
    <3>4. PICK q2 \in Request : q2 = q
      BY <3>2
    <3>5. Honest(q2)'
      BY <3>3, <3>4, StaysHonest
    <3> QED
      BY <3>1, <3>4, <3>5, HonestChange
  <2>6. ASSUME End(r)
        PROVE  RequestsHonest'
    <3>1. request' = [request EXCEPT ![r] = NULL]
      BY <2>6 DEF End
    <3> QED
      BY <3>1, HonestChange
  <2>7. CASE ForgetPrevious(r)
    BY <2>2, <2>5, <2>7 DEF ForgetPrevious, At, Stages, Past
  <2>8. CASE CleanUp(r)
    BY <2>2, <2>5, <2>8 DEF CleanUp, At, Stages, Past
  <2>9. CASE InsertToken(r)
    <3>1. PICK n \in SignIns :
              /\ signedIn' = [signedIn EXCEPT ![n] = p.user]
              /\ request' = [request EXCEPT ![r] =
                     [p EXCEPT !.stage = "session", !.jar = n]]
      BY <2>2, <2>9 DEF InsertToken
    <3>2. n \in 0..MaxSignIns /\ n # 0
      BY BoundsAssumption DEF SignIns
    <3>3. PICK q \in Request : q = [p EXCEPT !.stage = "session", !.jar = n]
      BY <3>2, StageType DEF Stages
    <3>4. /\ q.kind = "signin" /\ q.stage = "session" /\ q.jar = n
          /\ q.user = p.user /\ p.user # NULL
      BY <2>2, <2>3, <2>9, <3>3 DEF InsertToken, At, Request, Honest
    <3>5. signedIn'[n] = p.user
      BY <3>1 DEF TypeOK
    <3>6. Honest(q)'
      BY <3>2, <3>4, <3>5 DEF Honest, ForUsers
    <3> QED
      BY <3>1, <3>3, <3>6, HonestChange
  <2>10. CASE StartSession(r)
    BY <2>2, <2>5, <2>10 DEF StartSession, At, Stages, Past
  <2>11. CASE DeleteToken(r)
    BY <2>2, <2>5, <2>11 DEF DeleteToken, At, Stages, Past
  <2>12. CASE RemoveSession(r)
    BY <2>2, <2>5, <2>12 DEF RemoveSession, At, Stages, Past
  <2>13. CASE Answer(r)
    BY <2>6, <2>13 DEF Answer
  <2>14. CASE LookUp(r)
    <3> DEFINE known == Current(p.jar).user
               stage == IF known # NULL THEN "authorized" ELSE "validate"
    <3>1. p.kind \in ForUsers /\ p.jar \in SignIns
      BY <2>2, <2>3, <2>4, <2>14 DEF LookUp, At, Honest
    <3>2. /\ known \in {signedIn[p.jar], NULL}
          /\ known \in Users \union {NULL}
          /\ stage \in {"authorized", "validate"}
          /\ stage = "authorized" => known = signedIn[p.jar]
      BY <3>1, CurrentType DEF OneUserPerSession, Current, Session
    <3>3. request' = [request EXCEPT ![r] =
              [p EXCEPT !.stage = stage, !.user = known]]
      BY <2>2, <2>14 DEF LookUp
    <3> HIDE DEF known, stage
    <3>4. PICK q \in Request : q = [p EXCEPT !.stage = stage, !.user = known]
      BY <3>2, StageType DEF Stages
    <3>5. /\ q.kind = p.kind /\ q.stage = stage /\ q.jar = p.jar
          /\ q.user = known /\ q.mailbox = p.mailbox
      BY <3>4 DEF Request
    <3>6. Honest(q)
      BY <2>3, <3>1, <3>2, <3>5 DEF Honest, Past, ForUsers
    <3>7. Honest(q)'
      BY <3>6, StaysHonest
    <3> QED
      BY <3>3, <3>4, <3>7, HonestChange
  <2>15. CASE Validate(r)
    <3>1. p.kind \in ForUsers /\ p.jar \in SignIns
      BY <2>2, <2>3, <2>4, <2>15 DEF Validate, At, Honest
    <3>2. PICK user \in Users \union {NULL} :
              user = tokens[p.jar] /\ user = signedIn[p.jar]
      BY <2>2, <2>15, <3>1 DEF Validate, OneUserPerSession, TypeOK
    <3>3. request' = [request EXCEPT ![r] =
              [p EXCEPT !.stage = "hydrate", !.user = user]]
      BY <2>2, <2>15, <3>2 DEF Validate
    <3>4. PICK q \in Request : q = [p EXCEPT !.stage = "hydrate", !.user = user]
      BY StageType DEF Stages
    <3>5. /\ q.kind = p.kind /\ q.stage = "hydrate" /\ q.jar = p.jar
          /\ q.user = user /\ q.mailbox = p.mailbox
      BY <3>4 DEF Request
    <3>6. Honest(q)
      BY <2>3, <3>1, <3>2, <3>5 DEF Honest, Past, ForUsers
    <3>7. Honest(q)'
      BY <3>6, StaysHonest
    <3> QED
      BY <3>3, <3>4, <3>7, HonestChange
  <2>16. CASE Hydrate(r)
    BY <2>2, <2>5, <2>16 DEF Hydrate, At, Stages, Past, ForUsers
  <2>17. CASE SaveAccount(r)
    BY <2>2, <2>5, <2>17 DEF SaveAccount, At, Stages, Past
  <2>18. CASE SelectId(r)
    <3>1. PICK i \in Ids : request' = [request EXCEPT ![r] =
              [p EXCEPT !.stage = "add", !.account = i]]
      BY <2>2, <2>18 DEF SelectId, RowsOf
    <3>2. i \in 0..MaxIds
      BY BoundsAssumption DEF Ids
    <3>3. PICK q \in Request : q = [p EXCEPT !.stage = "add", !.account = i]
      BY <3>2, StageType DEF Stages
    <3>4. /\ q.kind = p.kind /\ q.stage = "add" /\ q.jar = p.jar
          /\ q.user = p.user /\ q.mailbox = p.mailbox
      BY <3>3 DEF Request
    <3>5. p.stage = "select" /\ p.kind = "connect"
      BY <2>2, <2>18 DEF SelectId, At
    <3>6. Honest(q)
      BY <2>3, <3>4, <3>5 DEF Honest, Past, ForUsers
    <3>7. Honest(q)'
      BY <3>6, StaysHonest
    <3> QED
      BY <3>1, <3>3, <3>7, HonestChange
  <2>19. CASE AddAccount(r)
    BY <2>6, <2>19 DEF AddAccount
  <2>20. CASE DeleteAccount(r)
    BY <2>2, <2>5, <2>20 DEF DeleteAccount, At, Stages, Past
  <2>21. CASE RemoveEverywhere(r)
    BY <2>6, <2>21 DEF RemoveEverywhere
  <2>22. CASE Drop(r)
    BY <2>6, <2>22 DEF Drop
  <2> QED
    BY <1>3, <2>7, <2>8, <2>9, <2>10, <2>11, <2>12, <2>13, <2>14, <2>15, <2>16,
       <2>17, <2>18, <2>19, <2>20, <2>21, <2>22 DEF Proceeds
<1>4. ASSUME NEW r \in Requests, NEW b \in Browsers, Asks(r, b)
      PROVE  RequestsHonest'
  <2>1. PICK kind \in {"signin", "signout", "connect", "remove"},
             user \in Users \union {NULL}, mailbox \in Mailboxes \union {NULL}, account \in {0} \union 1..ids :
                       /\ Send(r, b, kind, user, mailbox, account)
                       /\ kind # "signin" => cookies[b] # 0
                       /\ kind = "signin" => user # NULL
                       /\ kind = "connect" => mailbox # NULL
    <3>1. NULL \notin Users \union Mailboxes
      BY NullAssumption
    <3> QED
      BY <1>4, <3>1 DEF Asks
  <2>2. PICK q : q = [browser |-> b, kind |-> kind, stage |-> "start",
                      jar |-> cookies[b], user |-> user, mailbox |-> mailbox,
                      account |-> account]
    OBVIOUS
  <2>3. Honest(q)'
    BY <2>1, <2>2 DEF Honest, Past, ForUsers, CookiesHonest, Kept, TypeOK, SignIns
  <2> QED
    BY <2>1, <2>2, <2>3, HonestChange DEF Send
<1> QED
  BY <1>1, <1>2, <1>3, <1>4 DEF Next, Forget, Expire, vars

\* A session changed for the user who signed in with it stays that user's.
LEMMA SessionOfItsUser ==
    ASSUME TypeOK, OneUserPerSession, UNCHANGED <<signedIn, tokens>>,
           NEW n \in 0..MaxSignIns, NEW s,
           n \in SignIns =>
               /\ s.user \in {signedIn[n], NULL}
               /\ \A i \in Ids : s.accounts[i] \in {signedIn[n], NULL},
           sessions' = [sessions EXCEPT ![n] = s]
    PROVE  OneUserPerSession'
BY DEF TypeOK, OneUserPerSession

\* As set_user does.
LEMMA SetUserOfItsUser ==
    ASSUME TypeOK, OneUserPerSession, UNCHANGED <<signedIn, tokens>>,
           NEW n \in 0..MaxSignIns, NEW u, n # 0 => u = signedIn[n],
           SetUser(n, u)
    PROVE  OneUserPerSession'
<1> DEFINE s == [Current(n) EXCEPT !.user = u]
<1>1. ASSUME n \in SignIns
      PROVE  /\ s.user \in {signedIn[n], NULL}
             /\ \A i \in Ids : s.accounts[i] \in {signedIn[n], NULL}
  <2>1. Current(n) \in Session
    BY <1>1, CurrentType
  <2>2. s.user = u /\ s.accounts = Current(n).accounts /\ n # 0
    BY <1>1, <2>1 DEF Session, SignIns
  <2>3. \A i \in Ids : Current(n).accounts[i] \in {signedIn[n], NULL}
    BY <1>1 DEF Current, OneUserPerSession
  <2> QED
    BY <2>2, <2>3
<1>2. sessions' = [sessions EXCEPT ![n] = s]
  BY DEF SetUser
<1> HIDE DEF s
<1> QED
  BY <1>1, <1>2, SessionOfItsUser

\* Every step keeps sessions and tokens to their users.
LEMMA OneUserStep ==
    ASSUME IInv, [Next]_vars
    PROVE  OneUserPerSession'
<1> USE DEF IInv, database
<1>1. CASE UNCHANGED <<signedIn, tokens, sessions>>
  BY <1>1 DEF OneUserPerSession
<1>2. CASE Restart
  BY <1>2 DEF Restart, OneUserPerSession
<1>3. ASSUME NEW n \in SignIns, Forget(n) \/ Expire(n)
      PROVE  OneUserPerSession'
  BY <1>3 DEF Forget, Expire, OneUserPerSession, TypeOK
<1>4. ASSUME NEW r \in Requests, Proceeds(r), ~ UNCHANGED <<signedIn, tokens, sessions>>
      PROVE  OneUserPerSession'
  <2>1. request[r] # NULL
    BY <1>4 DEF Proceeds, At, ForgetPrevious, CleanUp, InsertToken, StartSession,
       DeleteToken, RemoveSession, Answer, LookUp, Validate, Hydrate, SaveAccount,
       SelectId, AddAccount, DeleteAccount, RemoveEverywhere, Drop
  <2>2. request[r] \in Request /\ Honest(request[r])
    BY <2>1 DEF TypeOK, RequestsHonest
  <2>3. request[r].jar \in 0..MaxSignIns
    BY <2>2 DEF Request
  <2>4. CASE ForgetPrevious(r)
    BY <2>4 DEF ForgetPrevious, OneUserPerSession, TypeOK
  <2>5. CASE CleanUp(r)
    BY <2>5 DEF CleanUp, OneUserPerSession
  <2>6. CASE InsertToken(r)
    <3>1. PICK n \in SignIns :
              /\ signedIn[n] = NULL
              /\ signedIn' = [signedIn EXCEPT ![n] = request[r].user]
              /\ tokens' = [tokens EXCEPT ![n] = request[r].user]
      BY <2>6 DEF InsertToken, NewToken, Unused
    <3>2. UNCHANGED sessions
      BY <2>6 DEF InsertToken
    <3> QED
      BY <3>1, <3>2 DEF OneUserPerSession, TypeOK
  <2>7. CASE StartSession(r)
    <3>1. request[r].jar # 0 => request[r].user = signedIn[request[r].jar]
      BY <2>2, <2>7 DEF StartSession, At, Honest
    <3> QED
      BY <2>3, <2>7, <3>1, SetUserOfItsUser DEF StartSession
  <2>8. CASE DeleteToken(r)
    BY <2>8 DEF DeleteToken, OneUserPerSession, TypeOK
  <2>9. CASE RemoveSession(r)
    BY <2>9 DEF RemoveSession, OneUserPerSession, TypeOK
  <2>10. CASE Hydrate(r)
    <3>1. request[r].jar # 0 => request[r].user = signedIn[request[r].jar]
      BY <2>2, <2>10 DEF Hydrate, At, Honest, Past
    <3> QED
      BY <2>3, <2>10, <3>1, SetUserOfItsUser DEF Hydrate
  <2>11. CASE AddAccount(r)
    <3> DEFINE n == request[r].jar
               c == Current(n)
               s == [c EXCEPT !.accounts =
                        [c.accounts EXCEPT ![request[r].account] = request[r].user]]
    <3>1. request[r].user = signedIn[n]
      BY <2>2, <2>11 DEF AddAccount, At, Honest, Past, ForUsers
    <3>2. sessions' = [sessions EXCEPT ![n] = s]
      BY <2>11 DEF AddAccount
    <3>3. ASSUME n \in SignIns
          PROVE  /\ s.user \in {signedIn[n], NULL}
                 /\ \A i \in Ids : s.accounts[i] \in {signedIn[n], NULL}
      <4>1. c \in Session
        BY <3>3, CurrentType
      <4>2. /\ c.user \in {signedIn[n], NULL}
            /\ \A i \in Ids : c.accounts[i] \in {signedIn[n], NULL}
        BY <3>3 DEF Current, OneUserPerSession
      <4> QED
        BY <3>1, <4>1, <4>2 DEF Session
    <3>4. UNCHANGED <<signedIn, tokens>>
      BY <2>11 DEF AddAccount
    <3> HIDE DEF s
    <3> QED
      BY <2>3, <3>2, <3>3, <3>4, SessionOfItsUser
  <2>12. CASE RemoveEverywhere(r)
    <3>1. UNCHANGED <<signedIn, tokens>>
      BY <2>12 DEF RemoveEverywhere
    <3>2. SUFFICES ASSUME NEW n \in SignIns, sessions'[n] # NULL
                   PROVE  /\ sessions'[n].user \in {signedIn[n], NULL}
                          /\ \A i \in Ids :
                                 sessions'[n].accounts[i] \in {signedIn[n], NULL}
      BY <3>1 DEF OneUserPerSession
    <3>3. /\ sessions[n] # NULL
          /\ sessions'[n] = [sessions[n] EXCEPT !.accounts =
                 [sessions[n].accounts EXCEPT ![request[r].account] = NULL]]
      BY <2>12, <3>2 DEF RemoveEverywhere
    <3>4. sessions[n] \in Session
      BY <3>3 DEF TypeOK
    <3>5. /\ sessions[n].user \in {signedIn[n], NULL}
          /\ \A i \in Ids : sessions[n].accounts[i] \in {signedIn[n], NULL}
      BY <3>3 DEF OneUserPerSession
    <3> QED
      BY <3>3, <3>4, <3>5 DEF Session
  <2> QED
    BY <1>4, <2>4, <2>5, <2>6, <2>7, <2>8, <2>9, <2>10, <2>11, <2>12
    DEF Proceeds, Answer, LookUp, Validate, SaveAccount, SelectId, DeleteAccount, Drop
<1> QED
  BY <1>1, <1>2, <1>3, <1>4 DEF Next, vars, Asks, Send

\* A jar only ever gets a sign-in that was made.
LEMMA CookiesStep ==
    ASSUME IInv, [Next]_vars, Kept
    PROVE  CookiesHonest'
<1> USE DEF IInv
<1>1. CASE UNCHANGED cookies
  BY <1>1 DEF CookiesHonest, Kept, TypeOK, SignIns
<1>2. ASSUME NEW r \in Requests, Answer(r)
      PROVE  CookiesHonest'
  <2>1. Honest(request[r]) /\ request[r] \in Request
    BY <1>2 DEF Answer, At, RequestsHonest, TypeOK
  <2>2. UNCHANGED signedIn
    BY <1>2 DEF Answer
  <2> QED
    BY <1>2, <2>1, <2>2 DEF Answer, CookiesHonest, Honest, TypeOK
<1>3. (\E r \in Requests : Answer(r)) \/ UNCHANGED cookies
  BY DEF Next, vars, Restart, Forget, Expire, Asks, Send, Proceeds, ForgetPrevious,
     CleanUp, InsertToken, StartSession, DeleteToken, RemoveSession, LookUp,
     Validate, Hydrate, SaveAccount, SelectId, AddAccount, DeleteAccount,
     RemoveEverywhere, Drop
<1> QED
  BY <1>1, <1>2, <1>3

-----------------------------------------------------------------------------
(* Account rows *)

\* What a step may do to the rows: add one with a new id, or delete one.
LEMMA RowSteps ==
    ASSUME TypeOK, [Next]_vars
    PROVE  \/ UNCHANGED <<accounts, ids>>
           \/ \E a : accounts' = [accounts EXCEPT ![ids + 1] = a] /\ ids' = ids + 1
           \/ \E i : accounts' = [accounts EXCEPT ![i] = NULL] /\ UNCHANGED ids
<1>1. ASSUME NEW r \in Requests, SaveAccount(r)
      PROVE  \/ UNCHANGED <<accounts, ids>>
             \/ \E a : accounts' = [accounts EXCEPT ![ids + 1] = a] /\ ids' = ids + 1
  BY <1>1 DEF SaveAccount, NewRow
<1>2. ASSUME NEW r \in Requests, DeleteAccount(r)
      PROVE  \E i : accounts' = [accounts EXCEPT ![i] = NULL] /\ UNCHANGED ids
  BY <1>2 DEF DeleteAccount
<1>3. \/ \E r \in Requests : SaveAccount(r) \/ DeleteAccount(r)
      \/ UNCHANGED <<accounts, ids>>
  <2>1. ASSUME NEW r \in Requests, Proceeds(r), ~SaveAccount(r), ~DeleteAccount(r)
        PROVE  UNCHANGED <<accounts, ids>>
    <3>1. ForgetPrevious(r) \/ CleanUp(r) \/ InsertToken(r) \/ StartSession(r)
              \/ DeleteToken(r) \/ RemoveSession(r) => UNCHANGED <<accounts, ids>>
      BY DEF ForgetPrevious, CleanUp, InsertToken, StartSession, DeleteToken,
             RemoveSession, database
    <3>2. Answer(r) \/ LookUp(r) \/ Validate(r) \/ Hydrate(r) => UNCHANGED <<accounts, ids>>
      BY DEF Answer, LookUp, Validate, Hydrate, database
    <3>3. SelectId(r) \/ AddAccount(r) \/ RemoveEverywhere(r) \/ Drop(r)
              => UNCHANGED <<accounts, ids>>
      BY DEF SelectId, AddAccount, RemoveEverywhere, Drop, database
    <3> QED
      BY <2>1, <3>1, <3>2, <3>3 DEF Proceeds
  <2>2. ASSUME NEW r \in Requests, NEW b \in Browsers, Asks(r, b)
        PROVE  UNCHANGED <<accounts, ids>>
    BY <2>2 DEF Asks, Send, database
  <2>3. ASSUME NEW n \in SignIns, Forget(n) \/ Expire(n)
        PROVE  UNCHANGED <<accounts, ids>>
    BY <2>3 DEF Forget, Expire, database
  <2>4. Restart \/ UNCHANGED vars => UNCHANGED <<accounts, ids>>
    BY DEF Restart, vars, database
  <2> QED
    BY <2>1, <2>2, <2>3, <2>4 DEF Next
<1> QED
  BY <1>1, <1>2, <1>3

LEMMA RowsStep ==
    ASSUME TypeOK, RowsCounted, [Next]_vars
    PROVE  RowsCounted'
<1>1. ids \in Nat /\ Ids \subseteq Nat
  BY BoundsAssumption DEF TypeOK, Ids
<1> QED
  BY <1>1, RowSteps DEF RowsCounted, TypeOK

\* A row keeps its owner for as long as it is there.
LEMMA OwnerStep ==
    ASSUME TypeOK, RowsCounted, [Next]_vars, NEW i \in Ids,
           accounts[i] # NULL, accounts'[i] # NULL
    PROVE  accounts'[i].owner = accounts[i].owner
<1>1. ids \in Nat /\ i \in Nat /\ i <= ids
  BY BoundsAssumption DEF TypeOK, Ids, RowsCounted
<1> QED
  BY <1>1, RowSteps DEF TypeOK

-----------------------------------------------------------------------------
(* Signed out, and removed *)

\* A request with the cookies of a sign-in that is out gets nowhere.
LEMMA SignedOutStep ==
    ASSUME IInv, [Next]_vars, Kept, NEW n \in SignIns, SignedOut(n)
    PROVE  SignedOut(n)'
<1> USE DEF IInv
<1>1. signedIn'[n] # NULL
  BY DEF SignedOut, Kept
<1>3. tokens'[n] = NULL
  <2>1. ASSUME NEW r \in Requests, InsertToken(r)
        PROVE  tokens'[n] = NULL
    BY <2>1 DEF InsertToken, NewToken, Unused, SignedOut, TypeOK
  <2>2. ASSUME NEW r \in Requests, CleanUp(r)
        PROVE  tokens'[n] = NULL
    BY <2>2 DEF CleanUp, SignedOut
  <2>3. ASSUME NEW r \in Requests, DeleteToken(r)
        PROVE  tokens'[n] = NULL
    BY <2>3 DEF DeleteToken, SignedOut, TypeOK
  <2>4. ASSUME NEW m \in SignIns, Expire(m)
        PROVE  tokens'[n] = NULL
    BY <2>4 DEF Expire, SignedOut, TypeOK
  <2>5. \/ UNCHANGED tokens
        \/ \E r \in Requests : InsertToken(r) \/ CleanUp(r) \/ DeleteToken(r)
        \/ \E m \in SignIns : Expire(m)
    BY DEF Next, vars, Restart, Forget, Asks, Send, Proceeds, ForgetPrevious,
       StartSession, RemoveSession, Answer, LookUp, Validate, Hydrate, SaveAccount,
       SelectId, AddAccount, DeleteAccount, RemoveEverywhere, Drop, database
  <2> QED
    BY <2>1, <2>2, <2>3, <2>4, <2>5 DEF SignedOut
<1>4. sessions'[n] = NULL
  <2>1. ASSUME NEW r \in Requests, StartSession(r) \/ Hydrate(r) \/ AddAccount(r)
        PROVE  sessions'[n] = NULL
    <3>1. request[r].jar # n
      BY <2>1 DEF StartSession, Hydrate, AddAccount, At, SignedOut
    <3> QED
      BY <2>1, <3>1 DEF StartSession, Hydrate, AddAccount, SetUser, SignedOut, TypeOK
  <2>2. ASSUME NEW r \in Requests,
               ForgetPrevious(r) \/ RemoveSession(r) \/ RemoveEverywhere(r)
        PROVE  sessions'[n] = NULL
    BY <2>2 DEF ForgetPrevious, RemoveSession, RemoveEverywhere, SignedOut, TypeOK
  <2>3. ASSUME NEW m \in SignIns, Forget(m)
        PROVE  sessions'[n] = NULL
    BY <2>3 DEF Forget, SignedOut, TypeOK
  <2>4. CASE Restart
    BY <2>4 DEF Restart
  <2>5. \/ UNCHANGED sessions \/ Restart
        \/ \E r \in Requests :
               \/ StartSession(r) \/ Hydrate(r) \/ AddAccount(r)
               \/ ForgetPrevious(r) \/ RemoveSession(r) \/ RemoveEverywhere(r)
        \/ \E m \in SignIns : Forget(m)
    BY DEF Next, vars, Expire, Asks, Send, Proceeds, CleanUp, InsertToken,
       DeleteToken, Answer, LookUp, Validate, SaveAccount, SelectId,
       DeleteAccount, Drop
  <2> QED
    BY <2>1, <2>2, <2>3, <2>4, <2>5 DEF SignedOut
<1>5. ASSUME NEW o \in Requests, request'[o] # NULL, request'[o].jar = n
      PROVE  request'[o].stage \in {"start", "validate", "cleanup", "insert", "forget", "answer"}
  <2> DEFINE Early == {"start", "validate", "cleanup", "insert", "forget", "answer"}
  <2>1. CASE UNCHANGED request
    BY <1>5, <2>1 DEF SignedOut
  <2>2. CASE Restart
    BY <1>5, <2>2 DEF Restart
  <2>3. ASSUME NEW r \in Requests, NEW b \in Browsers, Asks(r, b)
        PROVE  request'[o].stage \in Early
    <3>1. PICK kind, user, mailbox, account :
              Send(r, b, kind, user, mailbox, account)
      BY <2>3 DEF Asks
    <3>2. PICK q : /\ q = [browser |-> b, kind |-> kind, stage |-> "start",
                           jar |-> cookies[b], user |-> user,
                           mailbox |-> mailbox, account |-> account]
                   /\ request' = [request EXCEPT ![r] = q]
      BY <3>1 DEF Send
    <3>3. q.stage = "start"
      BY <3>2
    <3> QED
      BY <1>5, <3>2, <3>3 DEF SignedOut, TypeOK
  <2>4. ASSUME NEW r \in Requests, Proceeds(r), r # o
        PROVE  request'[o].stage \in Early
    <3>1. \E q : request' = [request EXCEPT ![r] = q]
      BY <2>4, Zenon DEF Proceeds, ForgetPrevious, CleanUp, InsertToken, StartSession,
         DeleteToken, RemoveSession, Answer, LookUp, Validate, Hydrate, SaveAccount,
         SelectId, AddAccount, DeleteAccount, RemoveEverywhere, Drop, To, End
    <3>2. request'[o] = request[o]
      BY <2>4, <3>1 DEF TypeOK
    <3> QED
      BY <1>5, <3>2 DEF SignedOut
  <2>5. CASE Proceeds(o)
    <3>1. ~ End(o)
      BY <1>5 DEF End, TypeOK
    <3>2. request[o] # NULL
      BY <2>5 DEF Proceeds, At, ForgetPrevious, CleanUp, InsertToken, StartSession,
         DeleteToken, RemoveSession, Answer, LookUp, Validate, Hydrate, SaveAccount,
         SelectId, AddAccount, DeleteAccount, RemoveEverywhere, Drop
    <3>3. request[o] \in Request
      BY <3>2 DEF TypeOK
    <3>4. ASSUME NEW stage, To(o, stage)
          PROVE  request'[o].stage = stage /\ request[o].jar = n
      BY <1>5, <3>3, <3>4 DEF To, TypeOK, Request
    <3>5. CASE ForgetPrevious(o) \/ CleanUp(o) \/ DeleteToken(o)
      BY <3>4, <3>5 DEF ForgetPrevious, CleanUp, DeleteToken
    <3>6. CASE \/ StartSession(o) \/ Hydrate(o) \/ SaveAccount(o) \/ DeleteAccount(o)
      BY <3>2, <3>4, <3>6 DEF StartSession, Hydrate, SaveAccount, DeleteAccount, At,
         SignedOut
    <3>7. CASE InsertToken(o)
      <4>1. PICK m \in SignIns :
                /\ signedIn[m] = NULL
                /\ request' = [request EXCEPT ![o] =
                       [request[o] EXCEPT !.stage = "session", !.jar = m]]
        BY <3>7 DEF InsertToken, NewToken, Unused
      <4>2. request'[o].jar = m
        BY <3>3, <4>1 DEF TypeOK, Request
      <4> QED
        BY <1>5, <4>1, <4>2 DEF SignedOut
    <3>8. CASE RemoveSession(o)
      BY <3>4, <3>8 DEF RemoveSession
    <3>9. CASE LookUp(o)
      <4>1. request'[o].jar = request[o].jar
        BY <3>3, <3>9 DEF LookUp, TypeOK, Request
      <4>2. Current(n).user = NULL
        BY DEF Current, SignedOut
      <4> DEFINE known == Current(request[o].jar).user
                 stage == IF known # NULL THEN "authorized" ELSE "validate"
      <4>3. stage = "validate"
        BY <1>5, <4>1, <4>2
      <4>4. request' = [request EXCEPT ![o] =
                [request[o] EXCEPT !.stage = stage, !.user = known]]
        BY <3>9 DEF LookUp
      <4> HIDE DEF known, stage
      <4> QED
        BY <3>3, <4>3, <4>4 DEF TypeOK, Request
    <3>10. CASE Validate(o)
      <4>1. request'[o].jar = request[o].jar
        BY <3>3, <3>10 DEF Validate, TypeOK, Request
      <4> QED
        BY <1>5, <3>10, <4>1 DEF Validate, SignedOut
    <3>11. CASE SelectId(o)
      <4>1. request'[o].jar = request[o].jar
        BY <3>3, <3>11 DEF SelectId, TypeOK, Request
      <4> QED
        BY <1>5, <3>11, <4>1 DEF SelectId, At, SignedOut
    <3> QED
      BY <2>5, <3>1, <3>5, <3>6, <3>7, <3>8, <3>9, <3>10, <3>11
      DEF Proceeds, Answer, AddAccount, RemoveEverywhere, Drop
  <2> QED
    BY <2>1, <2>2, <2>3, <2>4, <2>5 DEF Next, Forget, Expire, vars
<1> QED
  BY <1>1, <1>3, <1>4, <1>5 DEF SignedOut

\* An account that is gone, from every session too, does not come back.
LEMMA RemovedStep ==
    ASSUME IInv, [Next]_vars, NEW i \in Ids, Removed(i)
    PROVE  Removed(i)'
<1> USE DEF IInv
<1>1. i <= ids' /\ accounts'[i] = NULL
  <2>1. ids \in Nat /\ Ids \subseteq Nat
    BY BoundsAssumption DEF TypeOK, Ids
  <2> QED
    BY <2>1, RowSteps DEF Removed, TypeOK
<1>2. ASSUME NEW n \in SignIns, sessions'[n] # NULL
      PROVE  sessions'[n].accounts[i] = NULL
  <2>1. sessions[n] # NULL => sessions[n] \in Session /\ sessions[n].accounts[i] = NULL
    BY DEF Removed, TypeOK
  <2>2. Current(n) \in Session /\ Current(n).accounts[i] = NULL
    BY <2>1, CurrentType DEF Current
  <2>3. CASE sessions'[n] = sessions[n]
    BY <1>2, <2>1, <2>3
  <2>4. ASSUME NEW m, NEW u, SetUser(m, u), m = n
        PROVE  sessions'[n].accounts[i] = NULL
    BY <2>2, <2>4 DEF SetUser, TypeOK, Session
  <2>5. ASSUME NEW m, NEW u, SetUser(m, u)
        PROVE  m = n \/ sessions'[n] = sessions[n]
    BY <2>5 DEF SetUser, TypeOK
  <2>6. ASSUME NEW r \in Requests, AddAccount(r)
        PROVE  sessions'[n].accounts[i] = NULL
    <3>1. request[r].account # i
      BY <2>6 DEF AddAccount, At, Removed
    <3>2. CASE request[r].jar # n
      BY <2>3, <2>6, <3>2 DEF AddAccount, TypeOK
    <3>3. CASE request[r].jar = n
      <4> DEFINE c == Current(n)
      <4>1. sessions'[n] = [c EXCEPT !.accounts =
                               [c.accounts EXCEPT ![request[r].account] = request[r].user]]
        BY <2>6, <3>3 DEF AddAccount, TypeOK
      <4> HIDE DEF c
      <4>2. c \in Session /\ c.accounts[i] = NULL
        BY <2>2 DEF c
      <4> QED
        BY <3>1, <4>1, <4>2 DEF Session
    <3> QED
      BY <3>2, <3>3
  <2>7. ASSUME NEW r \in Requests, RemoveEverywhere(r)
        PROVE  sessions'[n].accounts[i] = NULL
    <3>1. /\ sessions[n] # NULL
          /\ sessions'[n] = [sessions[n] EXCEPT !.accounts =
                 [sessions[n].accounts EXCEPT ![request[r].account] = NULL]]
      BY <1>2, <2>7 DEF RemoveEverywhere
    <3> QED
      BY <2>1, <3>1 DEF Session
  <2>8. ASSUME \/ Restart \/ \E m \in SignIns : Forget(m)
               \/ \E r \in Requests : ForgetPrevious(r) \/ RemoveSession(r)
        PROVE  sessions'[n] = sessions[n]
    BY <1>2, <2>8 DEF Restart, Forget, ForgetPrevious, RemoveSession, TypeOK
  <2>9. \/ UNCHANGED sessions \/ Restart \/ \E m \in SignIns : Forget(m)
        \/ \E r \in Requests : ForgetPrevious(r) \/ RemoveSession(r)
        \/ \E r \in Requests : StartSession(r) \/ Hydrate(r)
        \/ \E r \in Requests : AddAccount(r) \/ RemoveEverywhere(r)
    BY DEF Next, vars, Expire, Asks, Send, Proceeds, CleanUp, InsertToken,
       DeleteToken, Answer, LookUp, Validate, SaveAccount, SelectId,
       DeleteAccount, Drop
  <2>10. ASSUME NEW r \in Requests, StartSession(r) \/ Hydrate(r)
         PROVE  sessions'[n].accounts[i] = NULL
    BY <2>3, <2>4, <2>5, <2>10 DEF StartSession, Hydrate
  <2> QED
    BY <2>3, <2>6, <2>7, <2>8, <2>9, <2>10
<1>3. ASSUME NEW o \in Requests, request'[o] # NULL, request'[o].stage = "add"
      PROVE  request'[o].account # i
  <2>1. CASE UNCHANGED request
    BY <1>3, <2>1 DEF Removed
  <2>2. CASE Restart
    BY <1>3, <2>2 DEF Restart
  <2>3. ASSUME NEW r \in Requests, NEW b \in Browsers, Asks(r, b)
        PROVE  request'[o].account # i
    <3>1. PICK kind, user, mailbox, account :
              Send(r, b, kind, user, mailbox, account)
      BY <2>3 DEF Asks
    <3>2. PICK q : /\ q = [browser |-> b, kind |-> kind, stage |-> "start",
                           jar |-> cookies[b], user |-> user,
                           mailbox |-> mailbox, account |-> account]
                   /\ request' = [request EXCEPT ![r] = q]
      BY <3>1 DEF Send
    <3>3. q.stage = "start"
      BY <3>2
    <3> QED
      BY <1>3, <3>2, <3>3 DEF Removed, TypeOK
  <2>4. ASSUME NEW r \in Requests, Proceeds(r), r # o
        PROVE  request'[o].account # i
    <3>1. \E q : request' = [request EXCEPT ![r] = q]
      BY <2>4, Zenon DEF Proceeds, ForgetPrevious, CleanUp, InsertToken, StartSession,
         DeleteToken, RemoveSession, Answer, LookUp, Validate, Hydrate, SaveAccount,
         SelectId, AddAccount, DeleteAccount, RemoveEverywhere, Drop, To, End
    <3>2. request'[o] = request[o]
      BY <2>4, <3>1 DEF TypeOK
    <3> QED
      BY <1>3, <3>2 DEF Removed
  <2>5. CASE SelectId(o)
    <3>1. PICK j \in RowsOf(request[o].mailbox) : request' = [request EXCEPT ![o] =
              [request[o] EXCEPT !.stage = "add", !.account = j]]
      BY <2>5 DEF SelectId
    <3>2. request[o] \in Request
      BY <2>5 DEF SelectId, At, TypeOK
    <3>3. request'[o].account = j
      BY <3>1, <3>2 DEF TypeOK, Request
    <3>4. j # i
      BY <3>1 DEF RowsOf, Removed
    <3> QED
      BY <3>3, <3>4
  <2>6. ASSUME Proceeds(o), ~ SelectId(o)
        PROVE  FALSE
    <3>1. ~ End(o)
      BY <1>3 DEF End, TypeOK
    <3>2. request[o] # NULL
      BY <2>6 DEF Proceeds, At, ForgetPrevious, CleanUp, InsertToken, StartSession,
         DeleteToken, RemoveSession, Answer, LookUp, Validate, Hydrate, SaveAccount,
         SelectId, AddAccount, DeleteAccount, RemoveEverywhere, Drop
    <3>3. request[o] \in Request
      BY <3>2 DEF TypeOK
    <3>4. ASSUME NEW stage, To(o, stage)
          PROVE  request'[o].stage = stage
      BY <3>3, <3>4 DEF To, TypeOK, Request
    <3>5. ~ (InsertToken(o) \/ RemoveSession(o) \/ Validate(o))
      <4>1. CASE InsertToken(o)
        <5>1. PICK m \in SignIns : request' = [request EXCEPT ![o] =
                  [request[o] EXCEPT !.stage = "session", !.jar = m]]
          BY <4>1 DEF InsertToken
        <5> QED
          BY <1>3, <3>3, <5>1 DEF TypeOK, Request
      <4>2. CASE RemoveSession(o)
        BY <1>3, <3>4, <4>2 DEF RemoveSession
      <4>3. CASE Validate(o)
        BY <1>3, <3>3, <4>3 DEF Validate, TypeOK, Request
      <4> QED
        BY <4>1, <4>2, <4>3
    <3>6. ~ LookUp(o)
      <4> DEFINE known == Current(request[o].jar).user
                 stage == IF known # NULL THEN "authorized" ELSE "validate"
      <4>1. SUFFICES ASSUME LookUp(o)
                     PROVE  FALSE
        OBVIOUS
      <4>2. request' = [request EXCEPT ![o] =
                [request[o] EXCEPT !.stage = stage, !.user = known]]
        BY <4>1 DEF LookUp
      <4>3. stage # "add"
        OBVIOUS
      <4> HIDE DEF known, stage
      <4> QED
        BY <1>3, <3>3, <4>2, <4>3 DEF TypeOK, Request
    <3> QED
      BY <1>3, <2>6, <3>1, <3>4, <3>5, <3>6 DEF Proceeds, ForgetPrevious, CleanUp,
         StartSession, DeleteToken, Answer, Hydrate, SaveAccount, AddAccount,
         DeleteAccount, RemoveEverywhere, Drop
  <2> QED
    BY <2>1, <2>2, <2>3, <2>4, <2>5, <2>6 DEF Next, Forget, Expire, vars
<1> QED
  BY <1>1, <1>2, <1>3 DEF Removed

-----------------------------------------------------------------------------
(* Device tokens *)

\* Fewer tokens and fewer additions under way keep a user's bound.
LEMMA FewerTokens ==
    ASSUME TypeOK, TypeOK', TokensBounded, NEW u \in Users,
           TokensOf(u)' \subseteq TokensOf(u), Adding(u)' \subseteq Adding(u)
    PROVE  Cardinality(TokensOf(u)') + Cardinality(Adding(u)')
               <= Keep + Cardinality(Requests)
<1>1. IsFiniteSet(SignIns) /\ IsFiniteSet(Requests)
  BY BoundsAssumption, RequestsAssumption, FS_Interval DEF SignIns
<1>2. IsFiniteSet(TokensOf(u)) /\ IsFiniteSet(Adding(u))
  BY <1>1, FS_Subset DEF TokensOf, Adding
<1>3. /\ Cardinality(TokensOf(u)') <= Cardinality(TokensOf(u))
      /\ Cardinality(Adding(u)') <= Cardinality(Adding(u))
      /\ IsFiniteSet(TokensOf(u)') /\ IsFiniteSet(Adding(u)')
  BY <1>2, FS_Subset
<1>4. /\ Cardinality(TokensOf(u)) \in Nat /\ Cardinality(Adding(u)) \in Nat
      /\ Cardinality(TokensOf(u)') \in Nat /\ Cardinality(Adding(u)') \in Nat
      /\ Cardinality(Requests) \in Nat
  BY <1>1, <1>2, <1>3, FS_CardinalityType
<1>5. Cardinality(TokensOf(u)) + Cardinality(Adding(u)) <= Keep + Cardinality(Requests)
  BY DEF TokensBounded
<1> QED
  BY <1>3, <1>4, <1>5, BoundsAssumption

\* No step takes a user over the bound.
LEMMA TokensStep ==
    ASSUME IInv, TypeOK', TokensBounded, [Next]_vars
    PROVE  TokensBounded'
<1> USE DEF IInv
<1>0. SUFFICES ASSUME NEW u \in Users
               PROVE  Cardinality(TokensOf(u)') + Cardinality(Adding(u)')
                          <= Keep + Cardinality(Requests)
  BY DEF TokensBounded
<1>1. IsFiniteSet(SignIns) /\ IsFiniteSet(Requests) /\ u # NULL
  BY BoundsAssumption, RequestsAssumption, NullAssumption, FS_Interval DEF SignIns
<1>2. IsFiniteSet(TokensOf(u)) /\ IsFiniteSet(Adding(u))
  BY <1>1, FS_Subset DEF TokensOf, Adding
<1>3. /\ Cardinality(TokensOf(u)) \in Nat /\ Cardinality(Adding(u)) \in Nat
      /\ Cardinality(Requests) \in Nat
  BY <1>1, <1>2, FS_CardinalityType
<1>4. Cardinality(TokensOf(u)) + Cardinality(Adding(u)) <= Keep + Cardinality(Requests)
  BY DEF TokensBounded
<1>5. ASSUME NEW r \in Requests, CleanUp(r), request[r].user = u
      PROVE  Cardinality(TokensOf(u)') + Cardinality(Adding(u)')
                 <= Keep + Cardinality(Requests)
  <2>1. PICK kept \in SUBSET TokensOf(u) :
            /\ Cardinality(kept) <= Keep
            /\ tokens' = [n \in SignIns |->
                   IF n \in TokensOf(u) \ kept THEN NULL ELSE tokens[n]]
    BY <1>5 DEF CleanUp
  <2>2. TokensOf(u)' = kept
    BY <1>1, <2>1 DEF TokensOf
  <2>3. Adding(u)' \subseteq Requests
    BY DEF Adding
  <2>4. /\ IsFiniteSet(Adding(u)') /\ Cardinality(Adding(u)') <= Cardinality(Requests)
        /\ IsFiniteSet(kept)
    BY <1>1, <1>2, <2>1, <2>3, FS_Subset
  <2>5. Cardinality(Adding(u)') \in Nat /\ Cardinality(kept) \in Nat
    BY <2>4, FS_CardinalityType
  <2> QED
    BY <1>3, <2>1, <2>2, <2>4, <2>5, BoundsAssumption
<1>6. ASSUME NEW r \in Requests, InsertToken(r), request[r].user = u
      PROVE  Cardinality(TokensOf(u)') + Cardinality(Adding(u)')
                 <= Keep + Cardinality(Requests)
  <2>1. PICK n \in SignIns :
            /\ tokens' = [tokens EXCEPT ![n] = u]
            /\ request' = [request EXCEPT ![r] =
                   [request[r] EXCEPT !.stage = "session", !.jar = n]]
    BY <1>6 DEF InsertToken
  <2>2. TokensOf(u)' = TokensOf(u) \union {n}
    BY <2>1 DEF TokensOf, TypeOK
  <2>3. r \in Adding(u)
    BY <1>6 DEF Adding, InsertToken, At
  <2>4. request[r] \in Request
    BY <1>6 DEF InsertToken, At, TypeOK
  <2>5. request'[r].stage = "session" /\ \A o \in Requests \ {r} : request'[o] = request[o]
    BY <2>1, <2>4 DEF TypeOK, Request
  <2>6. Adding(u)' = Adding(u) \ {r}
    BY <2>5 DEF Adding, At
  <2>7. Cardinality(Adding(u)') = Cardinality(Adding(u)) - 1
    BY <1>2, <2>3, <2>6, FS_RemoveElement
  <2>8. Cardinality(TokensOf(u)') <= Cardinality(TokensOf(u)) + 1
    <3>1. \/ Cardinality(TokensOf(u) \union {n}) = Cardinality(TokensOf(u)) + 1
          \/ TokensOf(u) \union {n} = TokensOf(u)
      BY <1>2, FS_AddElement
    <3> QED
      BY <1>3, <2>2, <3>1
  <2>9. Cardinality(TokensOf(u)') \in Nat
    BY <1>2, <2>2, FS_AddElement, FS_CardinalityType
  <2> QED
    BY <1>3, <1>4, <2>7, <2>8, <2>9, BoundsAssumption
<1>7. ASSUME \A r \in Requests :
                 request[r].user = u => ~ CleanUp(r) /\ ~ InsertToken(r)
      PROVE  TokensOf(u)' \subseteq TokensOf(u)
  <2>1. ASSUME NEW r \in Requests, InsertToken(r) \/ CleanUp(r) \/ DeleteToken(r)
        PROVE  TokensOf(u)' \subseteq TokensOf(u)
    <3>1. CASE InsertToken(r)
      <4>1. PICK n \in SignIns : tokens' = [tokens EXCEPT ![n] = request[r].user]
        BY <3>1 DEF InsertToken
      <4>2. request[r].user # u
        BY <1>7, <3>1
      <4> QED
        BY <4>1, <4>2 DEF TokensOf, TypeOK
    <3>2. CASE CleanUp(r)
      BY <1>1, <3>2 DEF CleanUp, TokensOf
    <3>3. CASE DeleteToken(r)
      BY <1>1, <3>3 DEF DeleteToken, TokensOf, TypeOK
    <3> QED
      BY <2>1, <3>1, <3>2, <3>3
  <2>2. ASSUME NEW m \in SignIns, Expire(m)
        PROVE  TokensOf(u)' \subseteq TokensOf(u)
    BY <1>1, <2>2 DEF Expire, TokensOf, TypeOK
  <2>3. \/ UNCHANGED tokens
        \/ \E r \in Requests : InsertToken(r) \/ CleanUp(r) \/ DeleteToken(r)
        \/ \E m \in SignIns : Expire(m)
    BY DEF Next, vars, Restart, Forget, Asks, Send, Proceeds, ForgetPrevious,
       StartSession, RemoveSession, Answer, LookUp, Validate, Hydrate, SaveAccount,
       SelectId, AddAccount, DeleteAccount, RemoveEverywhere, Drop, database
  <2> QED
    BY <2>1, <2>2, <2>3 DEF TokensOf
<1>8. ASSUME NEW o \in Requests, o \in Adding(u)', o \notin Adding(u)
      PROVE  CleanUp(o) /\ request[o].user = u
  <2>1. /\ request'[o] # NULL /\ request'[o].kind = "signin"
        /\ request'[o].stage = "insert" /\ request'[o].user = u
    BY <1>8 DEF Adding, At
  <2>2. ~ UNCHANGED request /\ request'[o] # request[o]
    BY <1>8, <2>1 DEF Adding, At
  <2>3. ~ Restart
    BY <2>1 DEF Restart
  <2>4. ASSUME NEW r \in Requests, NEW b \in Browsers, Asks(r, b)
        PROVE  FALSE
    <3>1. PICK kind, user, mailbox, account :
              Send(r, b, kind, user, mailbox, account)
      BY <2>4 DEF Asks
    <3>2. PICK q : /\ q = [browser |-> b, kind |-> kind, stage |-> "start",
                           jar |-> cookies[b], user |-> user,
                           mailbox |-> mailbox, account |-> account]
                   /\ request' = [request EXCEPT ![r] = q]
      BY <3>1 DEF Send
    <3>3. q.stage = "start"
      BY <3>2
    <3> QED
      BY <2>1, <2>2, <3>2, <3>3 DEF TypeOK
  <2>5. ASSUME NEW r \in Requests, Proceeds(r), r # o
        PROVE  FALSE
    <3>1. \E q : request' = [request EXCEPT ![r] = q]
      BY <2>5, Zenon DEF Proceeds, ForgetPrevious, CleanUp, InsertToken, StartSession,
         DeleteToken, RemoveSession, Answer, LookUp, Validate, Hydrate, SaveAccount,
         SelectId, AddAccount, DeleteAccount, RemoveEverywhere, Drop, To, End
    <3> QED
      BY <2>2, <2>5, <3>1 DEF TypeOK
  <2>6. ASSUME Proceeds(o), ~ CleanUp(o)
        PROVE  FALSE
    <3>1. ~ End(o)
      BY <2>1 DEF End, TypeOK
    <3>2. request[o] # NULL
      BY <2>6 DEF Proceeds, At, ForgetPrevious, CleanUp, InsertToken, StartSession,
         DeleteToken, RemoveSession, Answer, LookUp, Validate, Hydrate, SaveAccount,
         SelectId, AddAccount, DeleteAccount, RemoveEverywhere, Drop
    <3>3. request[o] \in Request
      BY <3>2 DEF TypeOK
    <3>4. ASSUME NEW stage, To(o, stage)
          PROVE  request'[o].stage = stage
      BY <3>3, <3>4 DEF To, TypeOK, Request
    <3>5. ASSUME InsertToken(o)
          PROVE  FALSE
      <4>1. PICK m \in SignIns : request' = [request EXCEPT ![o] =
                [request[o] EXCEPT !.stage = "session", !.jar = m]]
        BY <3>5 DEF InsertToken
      <4> QED
        BY <2>1, <3>3, <4>1 DEF TypeOK, Request
    <3>6. ASSUME RemoveSession(o)
          PROVE  FALSE
      BY <2>1, <3>4, <3>6 DEF RemoveSession
    <3>7. ASSUME Validate(o)
          PROVE  FALSE
      <4> DEFINE user == tokens[request[o].jar]
      <4>1. request' = [request EXCEPT ![o] =
                [request[o] EXCEPT !.stage = "hydrate", !.user = user]]
        BY <3>7, Zenon DEF Validate
      <4> HIDE DEF user
      <4> QED
        BY <2>1, <3>3, <4>1 DEF TypeOK, Request
    <3>8. ASSUME SelectId(o)
          PROVE  FALSE
      <4>1. \E id : request' = [request EXCEPT ![o] =
                [request[o] EXCEPT !.stage = "add", !.account = id]]
        BY <3>8, Zenon DEF SelectId
      <4> QED
        BY <2>1, <3>3, <4>1 DEF TypeOK, Request
    <3>9. ASSUME LookUp(o)
          PROVE  FALSE
      <4> DEFINE known == Current(request[o].jar).user
                 stage == IF known # NULL THEN "authorized" ELSE "validate"
      <4>1. request' = [request EXCEPT ![o] =
                [request[o] EXCEPT !.stage = stage, !.user = known]]
        BY <3>9 DEF LookUp
      <4>2. stage # "insert"
        OBVIOUS
      <4> HIDE DEF known, stage
      <4> QED
        BY <2>1, <3>3, <4>1, <4>2 DEF TypeOK, Request
    <3> QED
      BY <2>1, <2>6, <3>1, <3>4, <3>5, <3>6, <3>7, <3>8, <3>9 DEF Proceeds,
         ForgetPrevious, StartSession, DeleteToken, Answer, Hydrate, SaveAccount,
         AddAccount, DeleteAccount, RemoveEverywhere, Drop
  <2>7. CleanUp(o)
    BY <2>2, <2>3, <2>4, <2>5, <2>6 DEF Next, Forget, Expire, vars
  <2>8. request[o] \in Request /\ request'[o] = [request[o] EXCEPT !.stage = "insert"]
    BY <2>7 DEF CleanUp, At, To, TypeOK
  <2> QED
    BY <2>1, <2>7, <2>8 DEF Request
<1>9. CASE \E r \in Requests : request[r].user = u /\ (CleanUp(r) \/ InsertToken(r))
  BY <1>5, <1>6, <1>9
<1>10. CASE \A r \in Requests :
                request[r].user = u => ~ CleanUp(r) /\ ~ InsertToken(r)
  <2>1. TokensOf(u)' \subseteq TokensOf(u)
    BY <1>7, <1>10
  <2>2. Adding(u)' \subseteq Adding(u)
    BY <1>8, <1>10 DEF Adding
  <2> QED
    BY <2>1, <2>2, FewerTokens
<1> QED
  BY <1>9, <1>10

-----------------------------------------------------------------------------
(* The theorems *)

LEMMA IInvInit == Init => IInv
<1> SUFFICES ASSUME Init
             PROVE  IInv
  OBVIOUS
<1>1. TypeOK
  BY BoundsAssumption DEF Init, TypeOK
<1>2. OneUserPerSession /\ RequestsHonest /\ CookiesHonest /\ RowsCounted
  BY DEF Init, OneUserPerSession, RequestsHonest, CookiesHonest, RowsCounted
<1> QED
  BY <1>1, <1>2 DEF IInv

LEMMA IInvStep == IInv /\ [Next]_vars => IInv'
<1> SUFFICES ASSUME IInv, [Next]_vars
             PROVE  IInv'
  OBVIOUS
<1>1. Kept
  BY SignInsKept DEF IInv
<1>2. TypeOK'
  BY TypeStep DEF IInv
<1>3. OneUserPerSession' /\ RequestsHonest' /\ CookiesHonest' /\ RowsCounted'
  BY <1>1, OneUserStep, HonestStep, CookiesStep, RowsStep DEF IInv
<1> QED
  BY <1>2, <1>3 DEF IInv

\* The inductive invariant: types, and that sessions, requests, jars and rows
\* agree with the sign-ins and ids they are about.
THEOREM Invariant == Spec => []IInv
BY IInvInit, IInvStep, PTL DEF Spec

\* The variables of the web server keep their types.
THEOREM TypeCorrect == Spec => []TypeOK
<1>1. IInv => TypeOK
  BY DEF IInv
<1> QED
  BY <1>1, Invariant, PTL

\* A session and a device token act for one user alone, the one who signed
\* in with it, however requests of the same browser overlap.
THEOREM OneUser == Spec => []OneUserPerSession
<1>1. IInv => OneUserPerSession
  BY DEF IInv
<1> QED
  BY <1>1, Invariant, PTL

\* However many of a user's sign-ins overlap, there is at most one device
\* token over the kept ones for each request at a time.
THEOREM TokensAreBounded == Spec => []TokensBounded
<1>1. Init => TokensBounded
  <2> SUFFICES ASSUME Init, NEW u \in Users
               PROVE  Cardinality(TokensOf(u)) + Cardinality(Adding(u))
                          <= Keep + Cardinality(Requests)
    BY DEF TokensBounded
  <2>1. TokensOf(u) = {} /\ Adding(u) = {}
    BY NullAssumption DEF Init, TokensOf, Adding, At
  <2>2. Cardinality(Requests) \in Nat
    BY RequestsAssumption, FS_CardinalityType
  <2> QED
    BY <2>1, <2>2, BoundsAssumption, FS_EmptySet
<1>2. IInv /\ TokensBounded /\ [Next]_vars => TokensBounded'
  BY TypeStep, TokensStep DEF IInv
<1> QED
  BY <1>1, <1>2, Invariant, PTL DEF Spec

\* A sign-in that was signed out or pushed out stays out.
THEOREM SignedOutIsFinal == Spec => SignedOutStaysOut
<1>1. IInv /\ [Next]_vars => [\A n \in SignIns : SignedOut(n) => SignedOut(n)']_vars
  BY SignedOutStep, SignInsKept DEF IInv
<1> QED
  BY <1>1, Invariant, PTL DEF Spec, SignedOutStaysOut

\* An account that was removed on every device stays removed.
THEOREM RemovedIsFinal == Spec => RemovedStaysRemoved
<1>1. IInv /\ [Next]_vars => [\A i \in Ids : Removed(i) => Removed(i)']_vars
  BY RemovedStep
<1> QED
  BY <1>1, Invariant, PTL DEF Spec, RemovedStaysRemoved

\* An account stays with the user who connected it.
THEOREM OwnersStay == Spec => OwnerIsKept
<1>1. IInv /\ [Next]_vars =>
          [\A i \in Ids : accounts[i] # NULL /\ accounts'[i] # NULL =>
               accounts'[i].owner = accounts[i].owner]_vars
  BY OwnerStep DEF IInv
<1> QED
  BY <1>1, Invariant, PTL DEF Spec, OwnerIsKept
=============================================================================
