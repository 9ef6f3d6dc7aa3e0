------------------------- MODULE MoveMessageProofs -------------------------
(***************************************************************************)
(* Proofs about MoveMessage, for any devices, messages, folders to move    *)
(* to, kinds of servers and number of copies.                              *)
(*                                                                         *)
(* Every step leaves the mail alone or does one of four things to one      *)
(* message: Copied, Moved, Flagged, Removed.  The first part shows that    *)
(* (Step); the invariants and the refinement then look at these only.     *)
(***************************************************************************)
EXTENDS MoveMessage, TLAPS

InFlight == {request[d] : d \in Devices} \union {late}

\* What a request or a late command knows about itself.
WellFormed(r) ==
    /\ IF r.restore THEN r.from \in Targets /\ r.to = INBOX
       ELSE r.from = INBOX /\ r.to \in Targets /\ r.uid \in Uids
    /\ r.at # "finding" => r.uid \in Uids /\ r.uid < next[r.from]

Fresh == \A f \in Folders, u \in Uids : Holds(f, u) => u < next[f]

TypeInv ==
    /\ TypeOK
    /\ Fresh
    /\ \A r \in InFlight : r # NULL => WellFormed(r)

MailOK ==
    /\ box \in [Folders -> [Uids -> Copy \union {NULL}]]
    /\ next \in [Folders -> 1..MaxUid + 1]

\* The four effects, copy by copy
Arrives(c, f, u, t) ==
    /\ Holds(f, u)
    /\ c \in CopiesOf(box[f][u])
    /\ next[t] \in Uids
    /\ \A g \in Folders :
           next'[g] = IF g = t THEN next[t] + 1 ELSE next[g]

Copied(c, f, u, t) ==
    /\ Arrives(c, f, u, t)
    /\ \A g \in Folders, v \in Uids :
           box'[g][v] = IF g = t /\ v = next[t] THEN c ELSE box[g][v]

Moved(c, f, u, t) ==
    /\ Arrives(c, f, u, t)
    /\ \A g \in Folders, v \in Uids :
           box'[g][v] = IF g = t /\ v = next[t] THEN c
                        ELSE IF g = f /\ v = u THEN NULL ELSE box[g][v]

Flagged(f, u) ==
    /\ Holds(f, u)
    /\ next' = next
    /\ \A g \in Folders, v \in Uids :
           box'[g][v] = IF g = f /\ v = u
                        THEN FlaggedDeleted(box[f][u])
                        ELSE box[g][v]

Removed(f, u) ==
    /\ Holds(f, u) /\ ~Listed(f, u)
    /\ next' = next
    /\ \A g \in Folders, v \in Uids :
           box'[g][v] = IF g = f /\ v = u THEN NULL ELSE box[g][v]

\* A command has its effect on the UID, or none when the UID is gone.
LEMMA CopyEffect ==
    ASSUME MailOK, NEW r \in Request, r.uid \in Uids, UidCopy(r)
    PROVE  /\ MailOK'
           /\ \/ mail' = mail
              \/ \E c \in Copy : Copied(c, r.from, r.uid, r.to)
<1> USE MaxUidAssumption DEF MailOK, Request, Uids
<1>1. CASE Holds(r.from, r.uid)
  <2>1. PICK c \in CopiesOf(box[r.from][r.uid]) : Put(box, r.to, c)
    BY <1>1 DEF UidCopy
  <2>2. box[r.from][r.uid] \in Copy
    BY <1>1 DEF Holds
  <2>3. c \in Copy
    BY <2>1, <2>2 DEF CopiesOf, Copy
  <2> DEFINE row == [box[r.to] EXCEPT ![next[r.to]] = c]
  <2>4. next[r.to] \in Uids
    BY <2>1 DEF Put
  <2>5. row \in [Uids -> Copy \union {NULL}]
    BY <2>3
  <2>6. box' = [box EXCEPT ![r.to] = row]
    BY <2>1 DEF Put
  <2>7. \A g \in Folders, v \in Uids :
            box'[g][v] = IF g = r.to /\ v = next[r.to] THEN c ELSE box[g][v]
    BY <2>6
  <2>8. box' \in [Folders -> [Uids -> Copy \union {NULL}]]
    BY <2>5, <2>6
  <2>9. next' = [next EXCEPT ![r.to] = @ + 1]
    BY <2>1 DEF Put
  <2>10. next' \in [Folders -> 1..MaxUid + 1]
    BY <2>4, <2>9
  <2>11. Copied(c, r.from, r.uid, r.to)
    BY <1>1, <2>1, <2>4, <2>7, <2>9 DEF Copied, Arrives
  <2> QED
    BY <2>3, <2>8, <2>10, <2>11
<1>2. CASE ~Holds(r.from, r.uid)
  BY <1>2 DEF UidCopy, mail
<1> QED
  BY <1>1, <1>2

LEMMA MoveEffect ==
    ASSUME MailOK, NEW r \in Request, r.uid \in Uids, UidMove(r)
    PROVE  /\ MailOK'
           /\ \/ mail' = mail
              \/ \E c \in Copy : Moved(c, r.from, r.uid, r.to)
<1> USE MaxUidAssumption DEF MailOK, Request, Uids
<1>1. CASE Holds(r.from, r.uid)
  <2>1. PICK c \in CopiesOf(box[r.from][r.uid]) :
            Put(Without(r.from, r.uid), r.to, c)
    BY <1>1 DEF UidMove
  <2>2. box[r.from][r.uid] \in Copy
    BY <1>1 DEF Holds
  <2>3. c \in Copy
    BY <2>1, <2>2 DEF CopiesOf, Copy
  <2> DEFINE rest == Without(r.from, r.uid)
  <2>a. /\ rest \in [Folders -> [Uids -> Copy \union {NULL}]]
        /\ \A g \in Folders, v \in Uids :
               rest[g][v] = IF g = r.from /\ v = r.uid THEN NULL
                            ELSE box[g][v]
    BY DEF Without
  <2>b. Put(rest, r.to, c)
    BY <2>1
  <2> HIDE DEF rest
  <2> DEFINE row == [rest[r.to] EXCEPT ![next[r.to]] = c]
  <2>4. next[r.to] \in Uids
    BY <2>b DEF Put
  <2>5. row \in [Uids -> Copy \union {NULL}]
    BY <2>3, <2>a
  <2>6. box' = [rest EXCEPT ![r.to] = row]
    BY <2>b DEF Put
  <2>7. \A g \in Folders, v \in Uids :
            box'[g][v] = IF g = r.to /\ v = next[r.to] THEN c ELSE rest[g][v]
    BY <2>6, <2>a
  <2>8. box' \in [Folders -> [Uids -> Copy \union {NULL}]]
    BY <2>5, <2>6, <2>a
  <2>9. next' = [next EXCEPT ![r.to] = @ + 1]
    BY <2>b DEF Put
  <2>10. next' \in [Folders -> 1..MaxUid + 1]
    BY <2>4, <2>9
  <2>11. \A g \in Folders : next'[g] = IF g = r.to THEN next[r.to] + 1 ELSE next[g]
    BY <2>9
  <2>12. Arrives(c, r.from, r.uid, r.to)
    BY <1>1, <2>4, <2>11 DEF Arrives
  <2>13. \A g \in Folders, v \in Uids :
             box'[g][v] = IF g = r.to /\ v = next[r.to] THEN c
                          ELSE IF g = r.from /\ v = r.uid THEN NULL
                          ELSE box[g][v]
    <3> TAKE g \in Folders, v \in Uids
    <3>1. box'[g][v] = IF g = r.to /\ v = next[r.to] THEN c ELSE rest[g][v]
      BY <2>7
    <3>2. rest[g][v] = IF g = r.from /\ v = r.uid THEN NULL ELSE box[g][v]
      BY <2>a
    <3> QED
      BY <3>1, <3>2
  <2>14. Moved(c, r.from, r.uid, r.to)
    BY <2>12, <2>13, Zenon DEF Moved
  <2> QED
    BY <2>3, <2>8, <2>10, <2>14
<1>2. CASE ~Holds(r.from, r.uid)
  BY <1>2 DEF UidMove, mail
<1> QED
  BY <1>1, <1>2

LEMMA FlagEffect ==
    ASSUME MailOK, NEW r \in Request, r.uid \in Uids, UidStoreDeleted(r)
    PROVE  /\ MailOK'
           /\ mail' = mail \/ Flagged(r.from, r.uid)
<1>0. r.from \in Folders
  BY DEF Request
<1> USE DEF MailOK
<1>1. CASE Holds(r.from, r.uid)
  <2>0. box[r.from][r.uid] \in Copy
    BY <1>0, <1>1 DEF Holds
  <2> DEFINE flagged == FlaggedDeleted(box[r.from][r.uid])
  <2>1. flagged \in Copy
    BY <2>0 DEF Copy, FlaggedDeleted
  <2>2. box' = [box EXCEPT ![r.from] = [@ EXCEPT ![r.uid] = flagged]]
    BY <1>0, <1>1 DEF UidStoreDeleted
  <2> HIDE DEF flagged
  <2>3. box' \in [Folders -> [Uids -> Copy \union {NULL}]]
    BY <1>0, <2>1, <2>2
  <2>4. \A g \in Folders, v \in Uids :
            box'[g][v] = IF g = r.from /\ v = r.uid THEN flagged
                         ELSE box[g][v]
    BY <1>0, <2>2
  <2> QED
    BY <1>1, <2>3, <2>4 DEF UidStoreDeleted, Flagged, flagged
<1>2. CASE ~Holds(r.from, r.uid)
  BY <1>2 DEF UidStoreDeleted, mail
<1> QED
  BY <1>1, <1>2

LEMMA WithoutEffect ==
    ASSUME MailOK, NEW f \in Folders, NEW u \in Uids, Holds(f, u),
           ~Listed(f, u), box' = Without(f, u), next' = next
    PROVE  MailOK' /\ Removed(f, u)
BY DEF MailOK, Without, Removed

LEMMA ExpungeEffect ==
    ASSUME MailOK, NEW r \in Request, r.uid \in Uids, UidExpunge(r)
    PROVE  /\ MailOK'
           /\ mail' = mail \/ Removed(r.from, r.uid)
<1>1. CASE Holds(r.from, r.uid) /\ ~Listed(r.from, r.uid)
  BY <1>1, WithoutEffect DEF UidExpunge, Request
<1>2. CASE ~(Holds(r.from, r.uid) /\ ~Listed(r.from, r.uid))
  BY <1>2 DEF UidExpunge, mail, MailOK
<1> QED
  BY <1>1, <1>2

-----------------------------------------------------------------------------
\* What a step does to the mail.  A copy is flagged only when a STORE was due.
MailStep ==
    \/ mail' = mail
    \/ \E c \in Copy, f \in Folders, u \in Uids, t \in Folders :
           Copied(c, f, u, t) \/ Moved(c, f, u, t)
    \/ \E f \in Folders, u \in Uids : Flagged(f, u) /\ Doomed(f, u)
    \/ \E f \in Folders, u \in Uids : Removed(f, u)

\* A STORE becomes due only for a copy that this step has copied (or that is
\* gone already).
DoomStep ==
    \A f \in Folders, u \in Uids :
        \/ ~Doomed(f, u)'
        \/ Doomed(f, u)
        \/ /\ u < next[f]
           /\ \/ ~Holds(f, u)
              \/ \E c \in Copy, t \in Folders : Copied(c, f, u, t)

RequestsOK ==
    /\ request \in [Devices -> Request \union {NULL}]
    /\ late \in Request \union {NULL}

OthersOK ==
    /\ capabilities \in Servers
    /\ folders \subseteq Folders
    /\ shown \in [Devices -> [Uids -> Messages \union {NULL}]]
    /\ undo \in [Devices -> Offer \union {NULL}]

LEMMA TypeParts == TypeOK <=> MailOK /\ RequestsOK /\ OthersOK
BY DEF TypeOK, MailOK, RequestsOK, OthersOK

\* Requests, when one device's request becomes q: every request in flight is
\* well formed still, and q alone can have made a STORE due.
LEMMA RequestStep ==
    ASSUME TypeInv, NEW d \in Devices, NEW q \in Request \union {NULL},
           request' = [request EXCEPT ![d] = q],
           late' \in InFlight \union {NULL},
           q # NULL => WellFormed(q)
    PROVE  /\ RequestsOK'
           /\ \A r \in InFlight' : r # NULL => r \in Request /\ WellFormed(r)
           /\ \A f \in Folders, u \in Uids :
                  Doomed(f, u)' =>
                      \/ Doomed(f, u)
                      \/ /\ q # NULL /\ q.at = "flagging"
                         /\ q.from = f /\ q.uid = u
<1>1. /\ request \in [Devices -> Request \union {NULL}]
      /\ InFlight \subseteq Request \union {NULL}
  BY DEF TypeInv, TypeOK, InFlight
<1>2. InFlight' \subseteq InFlight \union {q, NULL}
  BY <1>1 DEF InFlight
<1>3. RequestsOK'
  BY <1>1 DEF RequestsOK
<1>4. \A r \in InFlight' : r # NULL => r \in Request /\ WellFormed(r)
  BY <1>1, <1>2 DEF TypeInv
<1>5. ASSUME NEW f \in Folders, NEW u \in Uids, Doomed(f, u)', ~Doomed(f, u)
      PROVE  q # NULL /\ q.at = "flagging" /\ q.from = f /\ q.uid = u
  <2>1. PICK r \in InFlight' :
            r # NULL /\ r.at = "flagging" /\ r.from = f /\ r.uid = u
    BY <1>5 DEF Doomed, InFlight
  <2>2. r \notin InFlight
    BY <1>5, <2>1 DEF Doomed, InFlight
  <2> QED
    BY <1>2, <2>1, <2>2
<1> QED
  BY <1>3, <1>4, <1>5

\* A request that is executing a command knows its UID.
LEMMA Executing ==
    ASSUME TypeInv, NEW r \in InFlight, r # NULL
    PROVE  /\ r \in Request /\ WellFormed(r) /\ MailOK
           /\ r.from \in Folders /\ r.to \in Folders
           /\ r.at # "finding" => r.uid \in Uids /\ r.uid < next[r.from]
           /\ r.at = "flagging" => Doomed(r.from, r.uid)
<1>1. r \in Request /\ WellFormed(r) /\ MailOK
  BY DEF TypeInv, TypeOK, InFlight, MailOK
<1> QED
  BY <1>1 DEF Request, WellFormed, Doomed, InFlight

\* A request that goes on to its next stage
LEMMA Advanced ==
    ASSUME TypeInv, NEW d \in Devices, request[d] # NULL,
           request[d].at # "finding",
           NEW stage \in {"answering"} \union Commands,
           Advance(d, stage), late' = late
    PROVE  /\ RequestsOK'
           /\ \A r \in InFlight' : r # NULL => r \in Request /\ WellFormed(r)
           /\ stage # "flagging" =>
                  \A f \in Folders, u \in Uids :
                      Doomed(f, u)' => Doomed(f, u)
           /\ \A f \in Folders, u \in Uids :
                  Doomed(f, u)' =>
                      \/ Doomed(f, u)
                      \/ request[d].from = f /\ request[d].uid = u
<1> DEFINE q == [request[d] EXCEPT !.at = stage]
<1>1. request[d] \in InFlight
  BY DEF InFlight
<1>2. request[d] \in Request /\ WellFormed(request[d])
  BY <1>1, Executing
<1>3. q \in Request /\ q.at = stage /\ q.from = request[d].from
      /\ q.uid = request[d].uid /\ q.to = request[d].to
      /\ q.restore = request[d].restore
  BY <1>2 DEF Request, Commands
<1>4. request' = [request EXCEPT ![d] = q]
  BY DEF Advance
<1> HIDE DEF q
<1>5. WellFormed(q)
  <2>1. CASE request[d].restore
    BY <1>2, <1>3, <2>1 DEF WellFormed
  <2>2. CASE ~request[d].restore
    BY <1>2, <1>3, <2>2 DEF WellFormed
  <2> QED
    BY <2>1, <2>2
<1>6. late' \in InFlight \union {NULL} /\ q \in Request \union {NULL}
  BY <1>3 DEF InFlight
<1>7. /\ RequestsOK'
      /\ \A r \in InFlight' : r # NULL => r \in Request /\ WellFormed(r)
      /\ \A f \in Folders, u \in Uids :
             Doomed(f, u)' =>
                 \/ Doomed(f, u)
                 \/ /\ q # NULL /\ q.at = "flagging"
                    /\ q.from = f /\ q.uid = u
  BY <1>4, <1>5, <1>6, RequestStep, Zenon
<1>8. q.at = stage /\ q.from = request[d].from /\ q.uid = request[d].uid
  BY <1>3
<1>9. ASSUME NEW f \in Folders, NEW u \in Uids, Doomed(f, u)'
      PROVE  \/ Doomed(f, u)
             \/ /\ stage = "flagging"
                /\ request[d].from = f /\ request[d].uid = u
  BY <1>7, <1>8, <1>9
<1> QED
  BY <1>7, <1>9

StepOK ==
    /\ MailOK'
    /\ RequestsOK'
    /\ OthersOK'
    /\ \A r \in InFlight' : r # NULL => r \in Request /\ WellFormed(r)
    /\ MailStep
    /\ DoomStep

\* The devices' steps that only ask: the mail stays as it is.
LEMMA AsksStep ==
    ASSUME TypeInv, NEW d \in Devices, Asks(d) PROVE StepOK
<1>0. TypeOK /\ MailOK /\ RequestsOK /\ OthersOK
  BY TypeParts DEF TypeInv
<1> USE DEF server, mail, screens
<1>1. CASE Refresh(d)
  <2>1. \A u \in Uids : Listed(INBOX, u) => box[INBOX][u].id \in Messages
    BY <1>0 DEF MailOK, Listed, Holds, Folders, Copy
  <2>2. [u \in Uids |-> IF Listed(INBOX, u) THEN box[INBOX][u].id ELSE NULL]
            \in [Uids -> Messages \union {NULL}]
    BY <2>1
  <2>3. OthersOK'
    BY <1>0, <1>1, <2>2 DEF Refresh, OthersOK
  <2>4. request' = request /\ late' = late /\ mail' = mail
    BY <1>1 DEF Refresh
  <2>5. MailOK' /\ RequestsOK' /\ MailStep /\ DoomStep
    BY <1>0, <2>4 DEF MailOK, RequestsOK, MailStep, DoomStep, Doomed
  <2>6. \A r \in InFlight' : r # NULL => r \in Request /\ WellFormed(r)
    BY <2>4, Executing DEF InFlight
  <2> QED
    BY <2>3, <2>5, <2>6 DEF StepOK
<1>2. ASSUME NEW q \in Request, WellFormed(q), q.at = "finding", Start(d, q),
             OthersOK'
      PROVE  StepOK
  <2>1. /\ request' = [request EXCEPT ![d] = q]
        /\ mail' = mail
        /\ late' \in InFlight \union {NULL}
        /\ q \in Request \union {NULL}
    BY <1>2 DEF Start, InFlight
  <2>2. /\ RequestsOK'
        /\ \A r \in InFlight' : r # NULL => r \in Request /\ WellFormed(r)
        /\ \A f \in Folders, u \in Uids :
               Doomed(f, u)' =>
                   \/ Doomed(f, u)
                   \/ /\ q # NULL /\ q.at = "flagging"
                      /\ q.from = f /\ q.uid = u
    BY <1>2, <2>1, RequestStep, Zenon
  <2>3. DoomStep
    BY <1>2, <2>2 DEF DoomStep
  <2> QED
    BY <1>0, <1>2, <2>1, <2>2, <2>3 DEF StepOK, MailOK, MailStep
<1>3. ASSUME NEW u \in Uids, NEW to \in Targets, StartMove(d, u, to)
      PROVE  StepOK
  <2> DEFINE q == [at |-> "finding", restore |-> FALSE, id |-> shown[d][u],
                   uid |-> u, from |-> INBOX, to |-> to]
  <2>1. q \in Request
    BY <1>0, <1>3 DEF StartMove, OthersOK, Request, Folders
  <2>2. WellFormed(q) /\ q.at = "finding"
    BY DEF WellFormed
  <2>3. Start(d, q) /\ OthersOK'
    BY <1>0, <1>3 DEF StartMove, Start, OthersOK
  <2> HIDE DEF q
  <2> QED
    BY <1>2, <2>1, <2>2, <2>3
<1>4. ASSUME NEW m \in Messages, NEW f \in Targets, Start(d, Restore(m, f)),
             OthersOK'
      PROVE  StepOK
  <2> DEFINE q == Restore(m, f)
  <2>1. q \in Request
    BY <1>4 DEF Restore, Request, Folders
  <2>2. WellFormed(q) /\ q.at = "finding"
    BY DEF WellFormed, Restore
  <2> HIDE DEF q
  <2>3. Start(d, q)
    BY <1>4 DEF q
  <2> QED
    BY <1>2, <1>4, <2>1, <2>2, <2>3
<1>5. CASE StartUndo(d)
  <2>1. undo[d].id \in Messages /\ undo[d].from \in Targets
    BY <1>0, <1>5 DEF StartUndo, OthersOK, Offer
  <2>2. OthersOK'
    BY <1>0, <1>5 DEF StartUndo, Start, OthersOK
  <2> QED
    BY <1>4, <1>5, <2>1, <2>2 DEF StartUndo
<1>6. ASSUME NEW f \in Targets, NEW u \in Uids, StartMoveToInbox(d, f, u)
      PROVE  StepOK
  <2>1. box[f][u].id \in Messages
    BY <1>0, <1>6 DEF StartMoveToInbox, Listed, Holds, MailOK, Copy, Folders
  <2>2. OthersOK'
    BY <1>0, <1>6 DEF StartMoveToInbox, Start, OthersOK
  <2> QED
    BY <1>4, <1>6, <2>1, <2>2 DEF StartMoveToInbox
<1> QED
  BY <1>1, <1>3, <1>5, <1>6 DEF Asks

\* The steps of move_message and restore_message
LEMMA ProceedsStep ==
    ASSUME TypeInv, NEW d \in Devices, Proceeds(d) PROVE StepOK
<1>0. TypeOK /\ MailOK /\ RequestsOK /\ OthersOK
  BY TypeParts DEF TypeInv
<1> USE DEF server, screens
<1>1. request[d] \in InFlight
  BY DEF InFlight
<1>2. ASSUME request[d] # NULL
      PROVE  /\ request[d] \in Request /\ WellFormed(request[d])
             /\ request[d].from \in Folders /\ request[d].to \in Folders
             /\ request[d].at # "finding" =>
                    /\ request[d].uid \in Uids
                    /\ request[d].uid < next[request[d].from]
             /\ request[d].at = "flagging" =>
                    Doomed(request[d].from, request[d].uid)
  BY <1>1, <1>2, Executing
\* A request ends, with or without a command left behind.
<1>3. ASSUME request' = [request EXCEPT ![d] = NULL],
             late' \in InFlight, mail' = mail, OthersOK'
      PROVE  StepOK
  <2>1. /\ RequestsOK'
        /\ \A r \in InFlight' : r # NULL => r \in Request /\ WellFormed(r)
        /\ \A f \in Folders, u \in Uids : Doomed(f, u)' => Doomed(f, u)
    BY <1>3, RequestStep
  <2> QED
    BY <1>0, <1>3, <2>1 DEF StepOK, MailOK, MailStep, DoomStep, mail
<1>4. CASE CreateArchive(d)
  <2>1. OthersOK'
    BY <1>0, <1>4, <1>2 DEF CreateArchive, At, OthersOK
  <2>2. request' = request /\ late' = late /\ mail' = mail
    BY <1>4 DEF CreateArchive
  <2>3. MailOK' /\ RequestsOK' /\ MailStep /\ DoomStep
    BY <1>0, <2>2 DEF MailOK, RequestsOK, MailStep, DoomStep, Doomed, mail
  <2>4. \A r \in InFlight' : r # NULL => r \in Request /\ WellFormed(r)
    BY <2>2, Executing DEF InFlight
  <2> QED
    BY <2>1, <2>3, <2>4 DEF StepOK
<1>5. CASE Find(d)
  <2>1. request[d] # NULL
    BY <1>5 DEF Find, At
  <2>2. PICK u \in Uids :
            /\ IF request[d].restore
               THEN IsNewest(u, Matching(request[d].from, request[d].id))
               ELSE u = request[d].uid /\ Holds(INBOX, u)
            /\ request' = [request EXCEPT ![d] =
                   [@ EXCEPT !.uid = u,
                             !.at = IF "MOVE" \in capabilities
                                    THEN "moving" ELSE "copying"]]
    BY <1>5 DEF Find
  <2>3. Holds(request[d].from, u)
    BY <1>2, <2>1, <2>2 DEF WellFormed, IsNewest, Matching
  <2>4. u < next[request[d].from]
    BY <1>2, <2>1, <2>3 DEF TypeInv, Fresh
  <2> DEFINE stage == IF "MOVE" \in capabilities THEN "moving" ELSE "copying"
             q == [request[d] EXCEPT !.uid = u, !.at = stage]
  <2>5. /\ stage \in Commands \ {"flagging"}
        /\ request' = [request EXCEPT ![d] = q]
    BY <2>2 DEF Commands
  <2> HIDE DEF stage
  <2>6. /\ q \in Request /\ q.at = stage /\ q.from = request[d].from
        /\ q.uid = u /\ q.to = request[d].to
        /\ q.restore = request[d].restore
    BY <1>2, <2>1, <2>5 DEF Request
  <2> HIDE DEF q
  <2>7. WellFormed(q)
    <3>1. CASE request[d].restore
      BY <1>2, <2>1, <2>4, <2>6, <3>1 DEF WellFormed
    <3>2. CASE ~request[d].restore
      BY <1>2, <2>1, <2>4, <2>6, <3>2 DEF WellFormed
    <3> QED
      BY <3>1, <3>2
  <2>8. /\ late' \in InFlight \union {NULL} /\ q \in Request \union {NULL}
        /\ mail' = mail /\ OthersOK'
    BY <1>0, <1>5, <2>6 DEF Find, InFlight, OthersOK
  <2>9. /\ RequestsOK'
        /\ \A r \in InFlight' : r # NULL => r \in Request /\ WellFormed(r)
        /\ \A f \in Folders, v \in Uids :
               Doomed(f, v)' =>
                   \/ Doomed(f, v)
                   \/ /\ q # NULL /\ q.at = "flagging"
                      /\ q.from = f /\ q.uid = v
    BY <2>5, <2>7, <2>8, RequestStep, Zenon
  <2>10. q.at # "flagging"
    BY <2>5, <2>6
  <2>11. DoomStep
    BY <2>9, <2>10 DEF DoomStep
  <2> QED
    BY <1>0, <2>8, <2>9, <2>11 DEF StepOK, MailOK, MailStep, mail
<1>6. CASE MoveInOne(d)
  <2>1. /\ request[d] # NULL /\ request[d].at = "moving"
        /\ UidMove(request[d]) /\ Advance(d, "answering")
        /\ late' = late /\ OthersOK'
    BY <1>0, <1>6 DEF MoveInOne, At, OthersOK
  <2>2. MailOK' /\ MailStep
    BY <1>0, <1>2, <2>1, MoveEffect DEF MailStep
  <2>3. /\ RequestsOK'
        /\ \A r \in InFlight' : r # NULL => r \in Request /\ WellFormed(r)
        /\ \A f \in Folders, u \in Uids : Doomed(f, u)' => Doomed(f, u)
    BY <2>1, Advanced
  <2> QED
    BY <2>1, <2>2, <2>3 DEF StepOK, DoomStep
<1>7. CASE MakeCopy(d)
  <2>1. /\ request[d] # NULL /\ request[d].at = "copying"
        /\ UidCopy(request[d]) /\ Advance(d, "flagging")
        /\ late' = late /\ OthersOK'
    BY <1>0, <1>7 DEF MakeCopy, At, OthersOK
  <2> DEFINE r == request[d]
  <2>2. MailOK'
    BY <1>0, <1>2, <2>1, CopyEffect
  <2>3. \/ mail' = mail /\ ~Holds(r.from, r.uid)
        \/ \E c \in Copy : Copied(c, r.from, r.uid, r.to)
    <3>1. CASE Holds(r.from, r.uid)
      <4>1. PICK c \in CopiesOf(box[r.from][r.uid]) : Put(box, r.to, c)
        BY <2>1, <3>1 DEF UidCopy
      <4>2. next[r.to] \in Nat /\ next'[r.to] = next[r.to] + 1
        BY <1>0, <1>2, <2>1, <4>1, MaxUidAssumption DEF Put, MailOK
      <4>3. next' # next
        BY <4>2
      <4> QED
        BY <1>0, <1>2, <2>1, <4>3, CopyEffect DEF mail
    <3>2. CASE ~Holds(r.from, r.uid)
      BY <2>1, <3>2 DEF UidCopy, mail
    <3> QED
      BY <3>1, <3>2
  <2>4. MailStep
    BY <1>2, <2>1, <2>3 DEF MailStep
  <2>5. "flagging" \in {"answering"} \union Commands
    BY DEF Commands
  <2>6. /\ RequestsOK'
        /\ \A q \in InFlight' : q # NULL => q \in Request /\ WellFormed(q)
        /\ \A f \in Folders, u \in Uids :
               Doomed(f, u)' => Doomed(f, u) \/ (r.from = f /\ r.uid = u)
    BY <2>1, <2>5, Advanced, Zenon
  <2>7. r.uid < next[r.from] /\ r.to \in Folders
    BY <1>2, <2>1
  <2>8. DoomStep
    BY <2>3, <2>6, <2>7 DEF DoomStep
  <2> QED
    BY <2>1, <2>2, <2>4, <2>6, <2>8 DEF StepOK
<1>8. CASE FlagOriginal(d)
  <2> DEFINE stage == IF "UIDPLUS" \in capabilities
                      THEN "expunging" ELSE "answering"
  <2>1. /\ request[d] # NULL /\ request[d].at = "flagging"
        /\ UidStoreDeleted(request[d]) /\ Advance(d, stage)
        /\ late' = late /\ OthersOK'
    BY <1>0, <1>8 DEF FlagOriginal, At, OthersOK
  <2>2. MailOK' /\ MailStep
    BY <1>0, <1>2, <2>1, FlagEffect DEF MailStep
  <2>3. stage \in {"answering"} \union Commands /\ stage # "flagging"
    BY DEF Commands
  <2> HIDE DEF stage
  <2>4. /\ RequestsOK'
        /\ \A r \in InFlight' : r # NULL => r \in Request /\ WellFormed(r)
        /\ \A f \in Folders, u \in Uids : Doomed(f, u)' => Doomed(f, u)
    BY <2>1, <2>3, Advanced
  <2> QED
    BY <2>1, <2>2, <2>4 DEF StepOK, DoomStep
<1>9. CASE ExpungeOriginal(d)
  <2>1. /\ request[d] # NULL /\ request[d].at = "expunging"
        /\ UidExpunge(request[d]) /\ Advance(d, "answering")
        /\ late' = late /\ OthersOK'
    BY <1>0, <1>9 DEF ExpungeOriginal, At, OthersOK
  <2>2. MailOK' /\ MailStep
    BY <1>0, <1>2, <2>1, ExpungeEffect DEF MailStep
  <2>3. /\ RequestsOK'
        /\ \A r \in InFlight' : r # NULL => r \in Request /\ WellFormed(r)
        /\ \A f \in Folders, u \in Uids : Doomed(f, u)' => Doomed(f, u)
    BY <2>1, Advanced
  <2> QED
    BY <2>1, <2>2, <2>3 DEF StepOK, DoomStep
<1>10. CASE AnswerMove(d)
  <2> DEFINE offer == [id |-> request[d].id, uid |-> request[d].uid,
                       from |-> request[d].to]
  <2>1. offer \in Offer
    BY <1>2, <1>10 DEF AnswerMove, At, Offer, Request, WellFormed
  <2> HIDE DEF offer
  <2>2. undo' = [undo EXCEPT ![d] = offer]
    BY <1>10 DEF AnswerMove, offer
  <2> DEFINE row == [shown[d] EXCEPT ![request[d].uid] = NULL]
  <2>3. row \in [Uids -> Messages \union {NULL}]
    BY <1>0 DEF OthersOK
  <2> HIDE DEF row
  <2>4. shown' = [shown EXCEPT ![d] = row]
    BY <1>10 DEF AnswerMove, row
  <2>5. OthersOK'
    <3>1. shown' \in [Devices -> [Uids -> Messages \union {NULL}]]
      BY <1>0, <2>3, <2>4 DEF OthersOK
    <3>2. undo' \in [Devices -> Offer \union {NULL}]
      BY <1>0, <2>1, <2>2 DEF OthersOK
    <3> QED
      BY <1>0, <1>10, <3>1, <3>2 DEF OthersOK, AnswerMove
  <2>6. late' \in InFlight
    BY <1>10 DEF AnswerMove, InFlight
  <2> QED
    BY <1>3, <1>10, <2>5, <2>6 DEF AnswerMove, mail
<1>11. CASE AnswerRestore(d)
  <2>1. late' \in InFlight /\ mail' = mail /\ OthersOK'
    BY <1>0, <1>11 DEF AnswerRestore, InFlight, OthersOK
  <2> QED
    BY <1>3, <1>11, <2>1 DEF AnswerRestore
<1>12. CASE GiveUp(d)
  <2>1. late' \in InFlight /\ mail' = mail /\ OthersOK'
    BY <1>0, <1>12 DEF GiveUp, InFlight, OthersOK
  <2> QED
    BY <1>3, <1>12, <2>1 DEF GiveUp
<1> QED
  BY <1>4, <1>5, <1>6, <1>7, <1>8, <1>9, <1>10, <1>11, <1>12 DEF Proceeds

\* Another mail program's step, and a command that is carried out late
LEMMA TidyStep ==
    ASSUME TypeInv, NEW f \in Folders, NEW u \in Uids, Tidy(f, u)
    PROVE  StepOK
<1>0. TypeOK /\ MailOK /\ RequestsOK /\ OthersOK
  BY TypeParts DEF TypeInv
<1>1. MailOK' /\ Removed(f, u)
  BY <1>0, WithoutEffect DEF Tidy
<1>2. request' = request /\ late' = late /\ OthersOK'
  BY <1>0 DEF Tidy, OthersOK, server, screens
<1>3. RequestsOK' /\ MailStep /\ DoomStep
  BY <1>0, <1>1, <1>2 DEF RequestsOK, MailStep, DoomStep, Doomed
<1>4. \A r \in InFlight' : r # NULL => r \in Request /\ WellFormed(r)
  BY <1>2, Executing DEF InFlight
<1> QED
  BY <1>1, <1>2, <1>3, <1>4 DEF StepOK

LEMMA LateStep ==
    ASSUME TypeInv, CarryOutLate PROVE StepOK
<1>0. TypeOK /\ MailOK /\ RequestsOK /\ OthersOK
  BY TypeParts DEF TypeInv
<1>1. /\ late # NULL /\ late \in InFlight
      /\ request' = request /\ late' = NULL /\ OthersOK'
  BY <1>0 DEF CarryOutLate, InFlight, OthersOK, server, screens
<1>2. /\ late \in Request /\ WellFormed(late)
      /\ late.from \in Folders /\ late.to \in Folders
      /\ late.at # "finding" => late.uid \in Uids
      /\ late.at = "flagging" => Doomed(late.from, late.uid)
  BY <1>1, Executing
<1>3. MailOK' /\ MailStep
  <2>1. CASE late.at = "moving" /\ UidMove(late)
    BY <1>0, <1>2, <2>1, MoveEffect DEF MailStep
  <2>2. CASE late.at = "copying" /\ UidCopy(late)
    BY <1>0, <1>2, <2>2, CopyEffect DEF MailStep
  <2>3. CASE late.at = "flagging" /\ UidStoreDeleted(late)
    BY <1>0, <1>2, <2>3, FlagEffect DEF MailStep
  <2>4. CASE late.at = "expunging" /\ UidExpunge(late)
    BY <1>0, <1>2, <2>4, ExpungeEffect DEF MailStep
  <2> QED
    BY <2>1, <2>2, <2>3, <2>4 DEF CarryOutLate
<1>4. RequestsOK'
  BY <1>0, <1>1 DEF RequestsOK
<1>5. InFlight' \subseteq InFlight \union {NULL}
  BY <1>1 DEF InFlight
<1>6. \A r \in InFlight' : r # NULL => r \in Request /\ WellFormed(r)
  BY <1>5, Executing
<1>7. DoomStep
  BY <1>5 DEF DoomStep, Doomed, InFlight
<1> QED
  BY <1>1, <1>3, <1>4, <1>6, <1>7 DEF StepOK

LEMMA Step ==
    ASSUME TypeInv, [Next]_vars PROVE StepOK
<1>1. CASE UNCHANGED vars
  <2>0. TypeOK /\ MailOK /\ RequestsOK /\ OthersOK
    BY TypeParts DEF TypeInv
  <2>1. /\ request' = request /\ late' = late /\ mail' = mail
        /\ capabilities' = capabilities /\ folders' = folders
        /\ shown' = shown /\ undo' = undo
    BY <1>1 DEF vars, mail
  <2>2. MailOK' /\ RequestsOK' /\ OthersOK' /\ MailStep /\ DoomStep
    BY <2>0, <2>1
    DEF MailOK, RequestsOK, OthersOK, MailStep, DoomStep, Doomed, mail
  <2>3. \A r \in InFlight' : r # NULL => r \in Request /\ WellFormed(r)
    BY <2>1, Executing DEF InFlight
  <2> QED
    BY <2>2, <2>3 DEF StepOK
<1>2. CASE Next
  BY <1>2, AsksStep, ProceedsStep, TidyStep, LateStep DEF Next
<1> QED
  BY <1>1, <1>2

-----------------------------------------------------------------------------
\* UIDs only grow, so what is known about a UID stays known.
LEMMA NextGrows ==
    ASSUME MailOK, MailOK', MailStep
    PROVE  \A f \in Folders : next[f] <= next'[f]
<1> SUFFICES ASSUME NEW g \in Folders PROVE next[g] <= next'[g]
  OBVIOUS
<1>0. next[g] \in Nat
  BY MaxUidAssumption DEF MailOK
<1>1. CASE mail' = mail
  BY <1>0, <1>1 DEF mail
<1>2. ASSUME NEW c \in Copy, NEW f \in Folders, NEW u \in Uids,
             NEW t \in Folders, Arrives(c, f, u, t)
      PROVE  next[g] <= next'[g]
  <2>1. next'[g] = IF g = t THEN next[t] + 1 ELSE next[g]
    BY <1>2 DEF Arrives
  <2> QED
    BY <1>0, <2>1
<1>3. CASE next' = next
  BY <1>0, <1>3
<1> QED
  BY <1>1, <1>2, <1>3 DEF MailStep, Copied, Moved, Flagged, Removed

LEMMA TypeInvStep ==
    ASSUME TypeInv, StepOK PROVE TypeInv'
<1>1. TypeOK'
  BY DEF StepOK, TypeOK, MailOK, RequestsOK, OthersOK
<1>2. MailOK /\ MailOK' /\ MailStep
  BY TypeParts DEF TypeInv, StepOK
<1>3. \A f \in Folders : next[f] <= next'[f] /\ next[f] \in Nat /\ next'[f] \in Nat
  BY <1>2, NextGrows, MaxUidAssumption DEF MailOK
<1>4. ASSUME NEW r \in InFlight', r # NULL PROVE WellFormed(r)'
  <2>1. WellFormed(r) /\ r \in Request
    BY <1>4 DEF StepOK
  <2>2. r.uid \in Uids /\ r.uid < next[r.from] => r.uid < next'[r.from]
    BY <1>3, <2>1 DEF Request, Uids
  <2> QED
    BY <2>1, <2>2 DEF WellFormed
<1>5. Fresh'
  <2> SUFFICES ASSUME NEW g \in Folders, NEW v \in Uids, Holds(g, v)'
               PROVE  v < next'[g]
    BY DEF Fresh
  <2>0. Holds(g, v) => v < next'[g]
    BY <1>3 DEF TypeInv, Fresh, Uids
  <2>1. CASE mail' = mail
    BY <2>0, <2>1 DEF mail, Holds
  <2>2. ASSUME NEW c \in Copy, NEW f \in Folders, NEW u \in Uids,
               NEW t \in Folders, Copied(c, f, u, t) \/ Moved(c, f, u, t)
        PROVE  v < next'[g]
    <3>1. CASE g = t /\ v = next[t]
      BY <1>3, <2>2, <3>1 DEF Copied, Moved, Arrives
    <3>2. CASE ~(g = t /\ v = next[t])
      BY <2>0, <2>2, <3>2 DEF Copied, Moved, Holds
    <3> QED
      BY <3>1, <3>2
  <2>3. ASSUME NEW f \in Folders, NEW u \in Uids, Flagged(f, u) \/ Removed(f, u)
        PROVE  v < next'[g]
    BY <2>0, <2>3 DEF Flagged, Removed, Holds
  <2> QED
    BY <1>2, <2>1, <2>2, <2>3 DEF MailStep
<1> QED
  BY <1>1, <1>4, <1>5 DEF TypeInv

-----------------------------------------------------------------------------
LEMMA InitialMail ==
    ASSUME Init
    PROVE  /\ MailOK
           /\ \A f \in Folders, u \in Uids :
                  Holds(f, u) => f = INBOX /\ u < next[f]
           /\ \A m \in Messages :
                  /\ Holds(INBOX, Arrived[m])
                  /\ box[INBOX][Arrived[m]] = [id |-> m, deleted |-> m \in Marked]
<1> USE ArrivedAssumption, MaxUidAssumption DEF Uids
<1> DEFINE At0(f, u) ==
        IF f = INBOX /\ \E m \in Messages : Arrived[m] = u
        THEN LET m == CHOOSE m \in Messages : Arrived[m] = u
             IN  [id |-> m, deleted |-> m \in Marked]
        ELSE NULL
<1>1. box = [f \in Folders |-> [u \in Uids |-> At0(f, u)]]
  BY DEF Init
<1>2. ASSUME NEW u \in Uids, NEW n \in Messages, Arrived[n] = u
      PROVE  At0(INBOX, u) = [id |-> n, deleted |-> n \in Marked]
  <2>1. (CHOOSE m \in Messages : Arrived[m] = u) = n
    BY <1>2
  <2> QED
    BY <1>2, <2>1
<1>3. ASSUME NEW f \in Folders, NEW u \in Uids,
             ~(f = INBOX /\ \E m \in Messages : Arrived[m] = u)
      PROVE  At0(f, u) = NULL
  BY <1>3
<1>4. \A n \in Messages : [id |-> n, deleted |-> n \in Marked] \in Copy
  BY DEF Copy
<1> HIDE DEF At0
<1>5. \A f \in Folders, u \in Uids : At0(f, u) \in Copy \union {NULL}
  BY <1>2, <1>3, <1>4
<1>6. next = [f \in Folders |-> IF f = INBOX THEN FirstFree ELSE 1]
  BY DEF Init
<1>7. MailOK
  BY <1>1, <1>5, <1>6 DEF MailOK
<1>8. ASSUME NEW f \in Folders, NEW u \in Uids, Holds(f, u)
      PROVE  f = INBOX /\ u < next[f]
  <2>1. At0(f, u) # NULL
    BY <1>1, <1>8 DEF Holds
  <2>2. f = INBOX /\ \E m \in Messages : Arrived[m] = u
    BY <1>3, <2>1
  <2> QED
    BY <1>6, <2>2 DEF Folders
<1>9. ASSUME NEW m \in Messages
      PROVE  /\ Holds(INBOX, Arrived[m])
             /\ box[INBOX][Arrived[m]] = [id |-> m, deleted |-> m \in Marked]
  <2>1. Arrived[m] \in Uids /\ INBOX \in Folders
    BY DEF Folders
  <2>2. box[INBOX][Arrived[m]] = [id |-> m, deleted |-> m \in Marked]
    BY <1>1, <1>2, <2>1
  <2> QED
    BY <1>4, <2>2, NullAssumption DEF Holds
<1> QED
  BY <1>7, <1>8, <1>9

LEMMA InitTypeInv == Init => TypeInv
<1> SUFFICES ASSUME Init PROVE TypeInv
  OBVIOUS
<1>1. MailOK /\ Fresh
  BY InitialMail DEF Fresh
<1>2. RequestsOK
  BY DEF Init, RequestsOK
<1>3. OthersOK
  BY DEF Init, OthersOK, Folders
<1>4. \A r \in InFlight : r = NULL
  BY DEF Init, InFlight
<1> QED
  BY <1>1, <1>2, <1>3, <1>4, TypeParts DEF TypeInv

\* Every interleaving, abandoned request and late command keeps the mail and
\* the requests within their types, with UIDs below the next to be given out.
LEMMA TypeInvariant == Spec => []TypeInv
<1>1. TypeInv /\ [Next]_vars => TypeInv'
  BY Step, TypeInvStep
<1> QED
  BY InitTypeInv, <1>1, PTL DEF Spec

\* The server's folders, the requests and the devices' screens are always of
\* their types.
THEOREM TypeCorrect == Spec => []TypeOK
<1>1. TypeInv => TypeOK
  BY DEF TypeInv
<1> QED
  BY TypeInvariant, <1>1, PTL

-----------------------------------------------------------------------------
\* A listed copy that no STORE is on its way to
Safe(m, f, u) == Listed(f, u) /\ box[f][u].id = m /\ ~Doomed(f, u)

\* A copy made of a safe one is safe: it is listed, and nobody knows its UID.
LEMMA CopyIsSafe ==
    ASSUME TypeInv, StepOK, NEW m \in Messages,
           NEW f \in Folders, NEW u \in Uids, Safe(m, f, u),
           NEW c \in Copy, NEW t \in Folders,
           Copied(c, f, u, t) \/ Moved(c, f, u, t)
    PROVE  \E v \in Uids : Safe(m, t, v)'
<1>0. PICK v \in Uids : v = next[t]
  BY DEF Copied, Moved, Arrives
<1>1. box[f][u] \in Copy /\ box[f][u].id = m /\ ~box[f][u].deleted
  BY DEF TypeInv, TypeOK, Safe, Listed, Holds
<1>2. c \in CopiesOf(box[f][u]) /\ box'[t][v] = c
  BY <1>0 DEF Copied, Moved, Arrives
<1>3. c.id = m /\ ~c.deleted
  <2>1. CASE c = box[f][u]
    BY <1>1, <2>1
  <2>2. CASE c = [box[f][u] EXCEPT !.deleted = FALSE]
    BY <1>1, <2>2 DEF Copy
  <2> QED
    BY <1>2, <2>1, <2>2 DEF CopiesOf
<1>4. Listed(t, v)' /\ (box[t][v].id = m)'
  BY <1>2, <1>3, NullAssumption DEF Listed, Holds
<1>5. ~Doomed(t, v)
  <2> SUFFICES ASSUME NEW r \in InFlight, r # NULL, r.at = "flagging",
                      r.from = t, r.uid = v
               PROVE  FALSE
    BY DEF Doomed, InFlight
  <2>1. r.uid < next[t]
    BY Executing
  <2> QED
    BY <1>0, <2>1, MaxUidAssumption DEF Uids
<1>6. ~(v < next[t])
  BY <1>0, MaxUidAssumption DEF Uids
<1>7. ~Doomed(t, v)'
  BY <1>5, <1>6 DEF StepOK, DoomStep
<1> QED
  BY <1>4, <1>7 DEF Safe

\* No step takes a message's last safe copy away.
LEMMA SafetyStep ==
    ASSUME TypeInv, StepOK, NEW m \in Messages,
           NEW f \in Folders, NEW u \in Uids, Safe(m, f, u)
    PROVE  \E g \in Folders, v \in Uids : Safe(m, g, v)'
<1>0. Holds(f, u) /\ Listed(f, u) /\ ~Doomed(f, u) /\ u < next[f]
  BY DEF Safe, Listed, TypeInv, Fresh
\* The copy itself, unless this step has changed it
<1>1. ASSUME box'[f][u] = box[f][u], ~Doomed(f, u)'
      PROVE  Safe(m, f, u)'
  BY <1>1 DEF Safe, Listed, Holds
<1>2. CASE Doomed(f, u)'
  <2>1. PICK c \in Copy, t \in Folders : Copied(c, f, u, t)
    BY <1>0, <1>2 DEF StepOK, DoomStep
  <2> QED
    BY <2>1, CopyIsSafe
<1>3. CASE ~Doomed(f, u)'
  <2>1. CASE mail' = mail
    BY <1>1, <1>3, <2>1 DEF mail
  <2>2. ASSUME NEW c \in Copy, NEW g \in Folders, NEW v \in Uids,
               NEW t \in Folders, Copied(c, g, v, t) \/ Moved(c, g, v, t)
        PROVE  \E h \in Folders, w \in Uids : Safe(m, h, w)'
    <3>1. CASE g = f /\ v = u
      BY <2>2, <3>1, CopyIsSafe
    <3>2. CASE ~(g = f /\ v = u)
      <4>1. ~(f = t /\ u = next[t])
        BY <1>0, <2>2, MaxUidAssumption DEF Copied, Moved, Arrives, Uids
      <4>2. box'[f][u] = box[f][u]
        BY <2>2, <3>2, <4>1 DEF Copied, Moved
      <4> QED
        BY <1>1, <1>3, <4>2
    <3> QED
      BY <3>1, <3>2
  <2>3. ASSUME NEW g \in Folders, NEW v \in Uids,
               (Flagged(g, v) /\ Doomed(g, v)) \/ Removed(g, v)
        PROVE  Safe(m, f, u)'
    <3>1. ~(g = f /\ v = u)
      BY <1>0, <2>3 DEF Removed
    <3>2. box'[f][u] = box[f][u]
      BY <2>3, <3>1 DEF Flagged, Removed
    <3> QED
      BY <1>1, <1>3, <3>2
  <2> QED
    BY <2>1, <2>2, <2>3 DEF StepOK, MailStep
<1> QED
  BY <1>2, <1>3

LEMMA NeverLostStep ==
    TypeInv /\ NeverLost /\ [Next]_vars => NeverLost'
<1> SUFFICES ASSUME TypeInv, NeverLost, [Next]_vars,
                    NEW m \in Messages \ Marked
             PROVE  \E g \in Folders, v \in Uids : Safe(m, g, v)'
  BY DEF NeverLost, Safe
<1>1. PICK f \in Folders, u \in Uids : Safe(m, f, u)
  BY DEF NeverLost, Safe
<1> QED
  BY <1>1, Step, SafetyStep

\* On any server, for any number of devices, copies and overlapping requests,
\* each of which may be abandoned half way or carried out late: a message
\* that is moved about is always listed in some folder.
THEOREM NothingIsLost == Spec => []NeverLost
<1>1. Init => NeverLost
  <2> SUFFICES ASSUME Init, NEW m \in Messages \ Marked
               PROVE  \E f \in Folders, u \in Uids : Safe(m, f, u)
    BY DEF NeverLost, Safe
  <2>a. /\ Holds(INBOX, Arrived[m])
        /\ box[INBOX][Arrived[m]] = [id |-> m, deleted |-> m \in Marked]
    BY InitialMail
  <2>b. (m \in Marked) = FALSE
    OBVIOUS
  <2>c. box[INBOX][Arrived[m]] = [id |-> m, deleted |-> FALSE]
    BY <2>a, <2>b
  <2>1. Listed(INBOX, Arrived[m]) /\ box[INBOX][Arrived[m]].id = m
    BY <2>a, <2>c DEF Listed
  <2>2. ~Doomed(INBOX, Arrived[m])
    BY DEF Init, Doomed
  <2>3. INBOX \in Folders /\ Arrived[m] \in Uids
    BY ArrivedAssumption DEF Folders
  <2> QED
    BY <2>1, <2>2, <2>3 DEF Safe
<1> QED
  BY TypeInvariant, NeverLostStep, <1>1, PTL DEF Spec

-----------------------------------------------------------------------------
(* An answered move is final. *)

\* What is not listed stays so: a UID is given out once, and no command
\* removes a \Deleted flag.
LEMMA StaysUnlisted ==
    ASSUME TypeInv, StepOK, NEW f \in Folders, NEW u \in Uids,
           u < next[f], ~Listed(f, u)
    PROVE  ~Listed(f, u)'
<1> USE DEF Listed, Holds
<1>0. next[f] \in Nat /\ u \in Nat
  BY MaxUidAssumption DEF TypeInv, TypeOK, Uids
<1>1. CASE mail' = mail
  BY <1>1 DEF mail
<1>2. ASSUME NEW c \in Copy, NEW g \in Folders, NEW v \in Uids,
             NEW t \in Folders, Copied(c, g, v, t) \/ Moved(c, g, v, t)
      PROVE  ~Listed(f, u)'
  <2>1. ~(f = t /\ u = next[t])
    BY <1>0
  <2> QED
    BY <1>2, <2>1 DEF Copied, Moved
<1>3. ASSUME NEW g \in Folders, NEW v \in Uids, Flagged(g, v)
      PROVE  ~Listed(f, u)'
  <2>1. box[g][v] \in Copy
    BY <1>3 DEF TypeInv, TypeOK, Flagged
  <2>2. FlaggedDeleted(box[g][v]).deleted
    BY <2>1 DEF FlaggedDeleted, Copy
  <2> QED
    BY <1>3, <2>2 DEF Flagged
<1>4. ASSUME NEW g \in Folders, NEW v \in Uids, Removed(g, v)
      PROVE  ~Listed(f, u)'
  BY <1>4 DEF Removed
<1> QED
  BY <1>1, <1>2, <1>3, <1>4 DEF StepOK, MailStep

-----------------------------------------------------------------------------
\* A move past its last command has unlisted its message already.
Unlisted(r) ==
    ~r.restore /\ r.at \in {"expunging", "answering"} =>
        ~Listed(INBOX, r.uid)

GoneInv ==
    \A d \in Devices :
        /\ request[d] # NULL => Unlisted(request[d])
        /\ undo[d] # NULL =>
               undo[d].uid < next[INBOX] /\ ~Listed(INBOX, undo[d].uid)

LEMMA GoneStep == TypeInv /\ GoneInv /\ [Next]_vars => GoneInv'
<1> SUFFICES ASSUME TypeInv, GoneInv, [Next]_vars PROVE GoneInv'
  OBVIOUS
<1>0. /\ StepOK /\ INBOX \in Folders
      /\ TypeOK /\ MailOK /\ TypeInv'
  BY Step, TypeInvStep, TypeParts DEF TypeInv, Folders
<1>1. next[INBOX] <= next'[INBOX]
      /\ next[INBOX] \in Nat /\ next'[INBOX] \in Nat
  BY <1>0, NextGrows, MaxUidAssumption DEF StepOK, MailOK
<1>2. ASSUME NEW u \in Uids, u < next[INBOX], ~Listed(INBOX, u)
      PROVE  u < next'[INBOX] /\ ~Listed(INBOX, u)'
  BY <1>0, <1>1, <1>2, StaysUnlisted DEF Uids
<1>3. ASSUME NEW d \in Devices, undo[d] # NULL, undo'[d] = undo[d]
      PROVE  undo'[d].uid < next'[INBOX] /\ ~Listed(INBOX, undo[d].uid)'
  <2>1. PICK u \in Uids : u = undo[d].uid
    BY <1>0, <1>3 DEF TypeOK, Offer
  <2>2. u < next'[INBOX] /\ ~Listed(INBOX, u)'
    BY <1>2, <1>3, <2>1 DEF GoneInv
  <2> QED
    BY <1>3, <2>1, <2>2 DEF Listed, Holds
<1>4. ASSUME NEW d \in Devices, request[d] # NULL, request'[d] = request[d]
      PROVE  Unlisted(request[d])'
  <2>1. request[d] \in Request /\ WellFormed(request[d])
    BY <1>4, Executing DEF InFlight
  <2>2. CASE ~request[d].restore /\ request[d].at \in {"expunging", "answering"}
    <3>1. PICK u \in Uids : u = request[d].uid
      BY <2>1, <2>2 DEF WellFormed
    <3>2. u < next[INBOX] /\ ~Listed(INBOX, u)
      BY <1>4, <2>1, <2>2, <3>1 DEF GoneInv, Unlisted, WellFormed
    <3>3. ~Listed(INBOX, u)'
      BY <1>2, <3>2
    <3> QED
      BY <1>4, <3>1, <3>3 DEF Unlisted, Listed, Holds
  <2>3. CASE ~(~request[d].restore /\ request[d].at \in {"expunging", "answering"})
    BY <1>4, <2>3 DEF Unlisted
  <2> QED
    BY <2>2, <2>3
\* So only the devices whose request or offer changes need a look.
<1>5. ASSUME \A d \in Devices :
                 /\ \/ request'[d] = request[d] \/ request'[d] = NULL
                    \/ Unlisted(request[d])'
                 /\ \/ undo'[d] = undo[d] \/ undo'[d] = NULL
                    \/ /\ undo'[d].uid < next'[INBOX]
                       /\ ~Listed(INBOX, undo[d].uid)'
      PROVE  GoneInv'
  <2> SUFFICES ASSUME NEW d \in Devices
               PROVE  /\ request'[d] # NULL => Unlisted(request[d])'
                      /\ undo'[d] # NULL =>
                             /\ undo'[d].uid < next'[INBOX]
                             /\ ~Listed(INBOX, undo[d].uid)'
    BY DEF GoneInv
  <2>1. ASSUME request'[d] # NULL PROVE Unlisted(request[d])'
    <3>1. CASE request'[d] = request[d]
      BY <1>4, <2>1, <3>1
    <3> QED
      BY <1>5, <2>1, <3>1
  <2>2. ASSUME undo'[d] # NULL
        PROVE  /\ undo'[d].uid < next'[INBOX]
               /\ ~Listed(INBOX, undo[d].uid)'
    <3>1. CASE undo'[d] = undo[d]
      BY <1>3, <2>2, <3>1
    <3> QED
      BY <1>5, <2>2, <3>1
  <2> QED
    BY <2>1, <2>2
<1> DEFINE Others(d) == \A e \in Devices \ {d} : request'[e] = request[e]
           Kept(d) == request'[d] = request[d] \/ request'[d] = NULL
                      \/ Unlisted(request[d])'
<1>6. ASSUME NEW d \in Devices, Others(d), Kept(d), undo' = undo
      PROVE  GoneInv'
  BY <1>5, <1>6
<1>7. CASE UNCHANGED vars
  BY <1>5, <1>7 DEF vars
<1>8. ASSUME NEW d \in Devices, Asks(d) PROVE GoneInv'
  <2>1. CASE Refresh(d)
    BY <1>5, <2>1 DEF Refresh
  <2>2. ASSUME NEW q \in Request, q.at = "finding", Start(d, q)
        PROVE  Others(d) /\ Kept(d)
    BY <1>0, <2>2 DEF Start, Unlisted, TypeOK
  <2>3. ASSUME NEW u \in Uids, NEW to \in Targets, StartMove(d, u, to)
        PROVE  GoneInv'
    <3>1. Others(d) /\ Kept(d)
      BY <1>0, <2>3 DEF StartMove, Start, Unlisted, TypeOK
    <3> QED
      BY <1>6, <2>3, <3>1 DEF StartMove
  <2>4. CASE StartUndo(d)
    <3>1. Others(d) /\ Kept(d)
      BY <1>0, <2>4 DEF StartUndo, Start, Restore, Unlisted, TypeOK
    <3>2. undo' = [undo EXCEPT ![d] = NULL]
      BY <2>4 DEF StartUndo
    <3>3. \A e \in Devices : undo'[e] = undo[e] \/ undo'[e] = NULL
      BY <1>0, <3>2 DEF TypeOK
    <3> QED
      BY <1>5, <3>1, <3>3
  <2>5. ASSUME NEW f \in Targets, NEW u \in Uids, StartMoveToInbox(d, f, u)
        PROVE  GoneInv'
    <3>1. Others(d) /\ Kept(d)
      BY <1>0, <2>5 DEF StartMoveToInbox, Start, Restore, Unlisted, TypeOK
    <3> QED
      BY <1>6, <2>5, <3>1 DEF StartMoveToInbox
  <2> QED
    BY <1>8, <2>1, <2>3, <2>4, <2>5 DEF Asks
<1>9. ASSUME NEW d \in Devices, Proceeds(d) PROVE GoneInv'
  <2> USE DEF screens
  <2>0. ASSUME request[d] # NULL
        PROVE  /\ request[d] \in Request /\ WellFormed(request[d])
               /\ request[d].at # "finding" =>
                      request[d].uid \in Uids
    BY <2>0, Executing DEF InFlight
  \* After its last command, a move's message is not listed in the inbox.
  <2>1. ASSUME NEW stage, Advance(d, stage), request[d] # NULL,
               request[d].at \in Commands, undo' = undo,
               \/ stage = "flagging"
               \/ request[d].restore
               \/ ~Listed(INBOX, request[d].uid)
               \/ \A u \in Uids : u = request[d].uid => ~Listed(INBOX, u)'
        PROVE  GoneInv'
    <3> DEFINE q == [request[d] EXCEPT !.at = stage]
    <3>1. /\ request' = [request EXCEPT ![d] = q]
          /\ q.at = stage /\ q.uid = request[d].uid
          /\ q.restore = request[d].restore
      BY <2>0, <2>1 DEF Advance, Request
    <3> HIDE DEF q
    <3>2. request'[d] = q /\ Others(d)
      BY <1>0, <3>1 DEF TypeOK
    <3>3. PICK u \in Uids : u = request[d].uid
      BY <2>0, <2>1 DEF Commands
    <3>4. u < next[INBOX] \/ request[d].restore
      BY <2>0, <2>1, <3>3 DEF WellFormed, Commands
    <3>5. \/ stage = "flagging" \/ request[d].restore \/ ~Listed(INBOX, u)'
      BY <1>2, <2>1, <3>3, <3>4
    <3>6. /\ request'[d].at = stage /\ request'[d].uid = u
          /\ request'[d].restore = request[d].restore
      BY <3>1, <3>2, <3>3
    <3>7. Unlisted(request[d])'
      <4>1. CASE request[d].restore \/ stage = "flagging"
        BY <3>6, <4>1 DEF Unlisted
      <4>2. CASE ~Listed(INBOX, u)'
        BY <3>6, <4>2 DEF Unlisted, Listed, Holds
      <4> QED
        BY <3>5, <4>1, <4>2
    <3> QED
      BY <1>6, <2>1, <3>2, <3>7
  <2>2. CASE CreateArchive(d)
    BY <1>5, <2>2 DEF CreateArchive
  <2>3. CASE Find(d)
    <3>1. PICK u \in Uids :
              request' = [request EXCEPT ![d] =
                  [@ EXCEPT !.uid = u,
                            !.at = IF "MOVE" \in capabilities
                                   THEN "moving" ELSE "copying"]]
      BY <2>3 DEF Find
    <3> DEFINE stage == IF "MOVE" \in capabilities THEN "moving" ELSE "copying"
               q == [request[d] EXCEPT !.uid = u, !.at = stage]
    <3>2. stage \notin {"expunging", "answering"}
      OBVIOUS
    <3>3. request' = [request EXCEPT ![d] = q]
      BY <3>1
    <3> HIDE DEF stage
    <3>4. q.at = stage
      BY <2>0, <2>3 DEF Find, At, Request
    <3> HIDE DEF q
    <3>5. request'[d] = q /\ Others(d)
      BY <1>0, <3>3 DEF TypeOK
    <3>6. Unlisted(request[d])'
      BY <3>2, <3>4, <3>5 DEF Unlisted
    <3> QED
      BY <1>6, <2>3, <3>5, <3>6 DEF Find
  <2>4. CASE MoveInOne(d)
    <3>1. /\ request[d] # NULL /\ request[d].at = "moving"
          /\ UidMove(request[d]) /\ Advance(d, "answering") /\ undo' = undo
      BY <2>4 DEF MoveInOne, At
    <3>2. CASE request[d].restore
      BY <2>1, <3>1, <3>2 DEF Commands
    <3>3. CASE ~request[d].restore
      <4>1. request[d].from = INBOX /\ request[d].to \in Targets
        BY <2>0, <3>1, <3>3 DEF WellFormed
      <4>2. CASE ~Holds(INBOX, request[d].uid)
        BY <2>1, <3>1, <4>2 DEF Listed, Commands
      <4>3. CASE Holds(INBOX, request[d].uid)
        <5>0. INBOX \notin Targets /\ request[d].to \in Folders
          BY <4>1, TargetsAssumption DEF Folders, INBOX
        <5>1. PICK c \in CopiesOf(box[INBOX][request[d].uid]) :
                  Put(Without(INBOX, request[d].uid), request[d].to, c)
          BY <3>1, <4>1, <4>3 DEF UidMove
        <5>2. box'[INBOX] = Without(INBOX, request[d].uid)[INBOX]
          BY <1>0, <4>1, <5>0, <5>1 DEF Put, Without, MailOK
        <5>3. \A u \in Uids : u = request[d].uid => box'[INBOX][u] = NULL
          BY <1>0, <5>2 DEF Without, MailOK
        <5> QED
          BY <2>1, <3>1, <5>3 DEF Listed, Holds, Commands
      <4> QED
        BY <4>2, <4>3
    <3> QED
      BY <3>2, <3>3
  <2>5. CASE MakeCopy(d)
    <3>1. /\ request[d] # NULL /\ request[d].at = "copying"
          /\ Advance(d, "flagging") /\ undo' = undo
      BY <2>5 DEF MakeCopy, At
    <3> QED
      BY <2>1, <3>1 DEF Commands
  <2>6. CASE FlagOriginal(d)
    <3> DEFINE stage == IF "UIDPLUS" \in capabilities
                        THEN "expunging" ELSE "answering"
    <3>1. /\ request[d] # NULL /\ request[d].at = "flagging"
          /\ UidStoreDeleted(request[d]) /\ Advance(d, stage) /\ undo' = undo
      BY <2>6 DEF FlagOriginal, At
    <3> HIDE DEF stage
    <3>2. CASE request[d].restore
      BY <2>1, <3>1, <3>2 DEF Commands
    <3>3. CASE ~request[d].restore
      <4>1. request[d].from = INBOX
        BY <2>0, <3>1, <3>3 DEF WellFormed
      <4>2. CASE ~Holds(INBOX, request[d].uid)
        BY <2>1, <3>1, <4>2 DEF Listed, Commands
      <4>3. CASE Holds(INBOX, request[d].uid)
        <5>1. box[INBOX][request[d].uid] \in Copy
          BY <1>0, <2>0, <3>1, <4>3 DEF MailOK, Holds
        <5>2. FlaggedDeleted(box[INBOX][request[d].uid]).deleted
          BY <5>1 DEF FlaggedDeleted, Copy
        <5>3. box'[INBOX][request[d].uid] =
                  FlaggedDeleted(box[INBOX][request[d].uid])
          BY <1>0, <2>0, <3>1, <4>1, <4>3 DEF UidStoreDeleted, MailOK
        <5> QED
          BY <2>1, <3>1, <5>2, <5>3 DEF Listed, Commands
      <4> QED
        BY <4>2, <4>3
    <3> QED
      BY <3>2, <3>3
  <2>7. CASE ExpungeOriginal(d)
    <3>1. /\ request[d] # NULL /\ request[d].at = "expunging"
          /\ Advance(d, "answering") /\ undo' = undo
      BY <2>7 DEF ExpungeOriginal, At
    <3>2. request[d].restore \/ ~Listed(INBOX, request[d].uid)
      BY <3>1 DEF GoneInv, Unlisted
    <3> QED
      BY <2>1, <3>1, <3>2 DEF Commands
  <2>8. CASE AnswerMove(d)
    <3>1. /\ request[d] # NULL /\ request[d].at = "answering"
          /\ ~request[d].restore /\ mail' = mail
          /\ request' = [request EXCEPT ![d] = NULL]
      BY <2>8 DEF AnswerMove, At
    <3>2. \A e \in Devices : request'[e] = request[e] \/ request'[e] = NULL
      BY <1>0, <3>1 DEF TypeOK
    <3> DEFINE offer == [id |-> request[d].id, uid |-> request[d].uid,
                         from |-> request[d].to]
    <3>3. undo' = [undo EXCEPT ![d] = offer] /\ offer.uid = request[d].uid
      BY <2>8 DEF AnswerMove
    <3> HIDE DEF offer
    <3>4. PICK u \in Uids : u = request[d].uid
      BY <2>0, <3>1
    <3>5. u < next[INBOX] /\ ~Listed(INBOX, u)
      BY <2>0, <3>1, <3>4 DEF GoneInv, Unlisted, WellFormed
    <3>6. u < next'[INBOX] /\ ~Listed(INBOX, u)'
      BY <1>2, <3>5
    <3>7. undo'[d].uid = u /\ \A e \in Devices \ {d} : undo'[e] = undo[e]
      BY <1>0, <3>3, <3>4 DEF TypeOK
    <3>8. undo'[d].uid < next'[INBOX] /\ ~Listed(INBOX, undo[d].uid)'
      BY <3>6, <3>7 DEF Listed, Holds
    <3> QED
      BY <1>5, <3>2, <3>7, <3>8
  <2>9. CASE AnswerRestore(d) \/ GiveUp(d)
    <3>1. request' = [request EXCEPT ![d] = NULL] /\ undo' = undo
      BY <2>9 DEF AnswerRestore, GiveUp
    <3>2. \A e \in Devices : request'[e] = request[e] \/ request'[e] = NULL
      BY <1>0, <3>1 DEF TypeOK
    <3> QED
      BY <1>5, <3>1, <3>2
  <2> QED
    BY <1>9, <2>2, <2>3, <2>4, <2>5, <2>6, <2>7, <2>8, <2>9 DEF Proceeds
<1>10. ASSUME NEW f \in Folders, NEW u \in Uids, Tidy(f, u) PROVE GoneInv'
  BY <1>5, <1>10 DEF Tidy, screens
<1>11. CASE CarryOutLate
  BY <1>5, <1>11 DEF CarryOutLate, screens
<1> QED
  BY <1>7, <1>8, <1>9, <1>10, <1>11 DEF Next

\* A move that was answered is final: whatever other requests, late commands
\* or restores do, the UID it named is never listed in the inbox again.
THEOREM MovesAreFinal == Spec => []MovedIsGone
<1>1. Init => GoneInv
  BY DEF Init, GoneInv
<1>2. GoneInv => MovedIsGone
  BY DEF GoneInv, MovedIsGone
<1>3. Spec => []GoneInv
  BY TypeInvariant, GoneStep, <1>1, PTL DEF Spec
<1> QED
  BY <1>2, <1>3, PTL

-----------------------------------------------------------------------------
\* That folder f lists message m, and shows it under UID u
Shows(f, u, m) == Listed(f, u) /\ box[f][u].id = m
Lists(f, m) == \E u \in Uids : Shows(f, u, m)

LEMMA ListedInDef ==
    /\ \A m \in Movable : listedIn[m] = {f \in Folders : Lists(f, m)}
    /\ listedIn \in [Movable -> SUBSET Folders]
BY DEF listedIn, Lists, Shows

\* If the listings of one movable message change, the others stay put.
LEMMA OneMessage ==
    ASSUME NEW m \in Movable, NEW S \in SUBSET Folders,
           \A n \in Movable \ {m}, f \in Folders : Lists(f, n)' <=> Lists(f, n),
           \A f \in Folders : Lists(f, m)' <=> f \in S
    PROVE  listedIn' = [listedIn EXCEPT ![m] = S]
<1>1. \A n \in Movable :
          listedIn'[n] = {f \in Folders : Lists(f, n)'}
  BY DEF listedIn, Lists, Shows
<1>2. listedIn' = [n \in Movable |-> {f \in Folders : Lists(f, n)'}]
  BY DEF listedIn, Lists, Shows
<1>3. \A n \in Movable \ {m} : listedIn'[n] = listedIn[n]
  BY <1>1, ListedInDef
<1>4. listedIn'[m] = S
  BY <1>1
<1> QED
  BY <1>2, <1>3, <1>4, ListedInDef, ZenonT(30)

LEMMA NoMessage ==
    ASSUME \A n \in Movable, f \in Folders : Lists(f, n)' <=> Lists(f, n)
    PROVE  listedIn' = listedIn
<1>1. listedIn' = [n \in Movable |-> {f \in Folders : Lists(f, n)'}]
  BY DEF listedIn, Lists, Shows
<1>2. listedIn = [n \in Movable |-> {f \in Folders : Lists(f, n)}]
  BY DEF listedIn, Lists, Shows
<1> QED
  BY <1>1, <1>2

LEMMA NeverNowhere ==
    ASSUME NeverLost, NEW m \in Movable PROVE \E f \in Folders : Lists(f, m)
BY DEF NeverLost, Lists, Shows, Movable

\* One message's listings change as MailPlaces allows.
LEMMA PlacesChange ==
    ASSUME NEW m \in Movable, NEW f \in Folders, NEW t \in Folders,
           \A n \in Movable \ {m}, g \in Folders : Lists(g, n)' <=> Lists(g, n),
           NEW S \in SUBSET Folders, S # {},
           \A g \in Folders : Lists(g, m)' <=> g \in S,
           \/ S = listedIn[m] \/ S = listedIn[m] \union {t}
           \/ S = listedIn[m] \ {f} \/ S = (listedIn[m] \ {f}) \union {t}
    PROVE  [Places!PlacesNext]_listedIn
<1>1. listedIn' = [listedIn EXCEPT ![m] = S]
  BY OneMessage
<1>2. CASE S = listedIn[m]
  BY <1>1, <1>2, ListedInDef
<1>3. CASE S = listedIn[m] \union {t}
  BY <1>1, <1>3 DEF Places!PlacesNext, Places!Appear
<1>4. CASE S = listedIn[m] \ {f}
  BY <1>1, <1>4 DEF Places!PlacesNext, Places!Disappear
<1>5. CASE S = (listedIn[m] \ {f}) \union {t}
  BY <1>1, <1>5 DEF Places!PlacesNext, Places!Change
<1> QED
  BY <1>2, <1>3, <1>4, <1>5

LEMMA PlacesStep ==
    ASSUME TypeInv, StepOK, NeverLost'
    PROVE  [Places!PlacesNext]_listedIn
<1>0. box \in [Folders -> [Uids -> Copy \union {NULL}]]
  BY DEF TypeInv, TypeOK
<1>1. CASE mail' = mail
  <2>1. \A m \in Movable, f \in Folders : Lists(f, m)' <=> Lists(f, m)
    BY <1>1 DEF mail, Lists, Shows, Listed, Holds
  <2> QED
    BY <2>1, NoMessage
\* A copy c arrives in t, and the one it was made of may go.
<1>2. ASSUME NEW c \in Copy, NEW f \in Folders, NEW u \in Uids,
             NEW t \in Folders, Copied(c, f, u, t) \/ Moved(c, f, u, t)
      PROVE  [Places!PlacesNext]_listedIn
  <2>1. PICK v \in Uids : v = next[t]
    BY <1>2 DEF Copied, Moved, Arrives
  <2>2. /\ Holds(f, u) /\ box[f][u] \in Copy /\ c \in CopiesOf(box[f][u])
        /\ box[t][v] = NULL /\ box'[t][v] = c /\ ~(f = t /\ u = v)
    BY <1>0, <1>2, <2>1, MaxUidAssumption
    DEF TypeInv, Fresh, Copied, Moved, Arrives, Holds, Uids
  <2>3. c.id = box[f][u].id /\ (c.deleted => box[f][u].deleted)
    BY <2>2 DEF CopiesOf, Copy
  <2>4. \A g \in Folders, w \in Uids :
            ~(g = t /\ w = v) =>
                \/ box'[g][w] = box[g][w]
                \/ g = f /\ w = u /\ box'[g][w] = NULL
    BY <1>2, <2>1 DEF Copied, Moved
  <2>5. \A m : ~Shows(t, v, m) /\ (Shows(t, v, m)' <=> ~c.deleted /\ c.id = m)
    BY <2>2, NullAssumption DEF Shows, Listed, Holds
  \* Listings of other messages, and of other folders, do not change.
  <2>6. ASSUME NEW m \in Movable, NEW g \in Folders,
               m # c.id \/ c.deleted \/ g \notin {f, t}
        PROVE  Lists(g, m)' <=> Lists(g, m)
    <3>1. ASSUME NEW w \in Uids PROVE Shows(g, w, m)' <=> Shows(g, w, m)
      <4>1. CASE g = t /\ w = v
        BY <2>5, <2>6, <4>1
      <4>2. CASE box'[g][w] = box[g][w]
        BY <4>2 DEF Shows, Listed, Holds
      <4>3. CASE g = f /\ w = u /\ box'[g][w] = NULL
        BY <2>3, <2>6, <4>3 DEF Shows, Listed, Holds
      <4> QED
        BY <2>4, <4>1, <4>2, <4>3
    <3> QED
      BY <3>1 DEF Lists
  <2>7. CASE c.deleted \/ c.id \notin Movable
    BY <2>6, <2>7, NoMessage
  <2>8. CASE ~c.deleted /\ c.id \in Movable
    <3> DEFINE L == listedIn[c.id]
               S == {g \in Folders : Lists(g, c.id)'}
    <3>1. L = {g \in Folders : Lists(g, c.id)}
      BY <2>8, ListedInDef
    <3>2. t \in S
      BY <2>5, <2>8 DEF Lists
    <3>3. \A g \in Folders \ {f, t} : g \in S <=> g \in L
      BY <2>6, <2>8, <3>1
    <3>4. f # t /\ f \in S => f \in L
      <4> SUFFICES ASSUME f # t, NEW w \in Uids, Shows(f, w, c.id)'
                   PROVE  Shows(f, w, c.id)
        BY <3>1 DEF Lists
      <4>1. box'[f][w] = box[f][w]
        BY <2>4 DEF Shows, Listed, Holds
      <4> QED
        BY <4>1 DEF Shows, Listed, Holds
    <3> HIDE DEF L
    <3>5. L \in SUBSET Folders /\ S \in SUBSET Folders
      BY <3>1
    <3>6. \A g \in Folders : Lists(g, c.id)' <=> g \in S
      OBVIOUS
    <3> HIDE DEF S
    <3>7. S = L \union {t} \/ S = (L \ {f}) \union {t}
      <4>1. CASE f \in S \/ f \notin L
        BY <3>2, <3>3, <3>4, <3>5, <4>1
      <4>2. CASE f \notin S /\ f \in L
        BY <3>2, <3>3, <3>5, <4>2
      <4> QED
        BY <4>1, <4>2
    <3>8. \A n \in Movable \ {c.id}, g \in Folders : Lists(g, n)' <=> Lists(g, n)
      BY <2>6
    <3> QED
      BY <2>8, <3>2, <3>5, <3>6, <3>7, <3>8, PlacesChange DEF L
  <2> QED
    BY <2>7, <2>8
\* A copy is marked deleted, or one that was goes.
<1>3. ASSUME NEW f \in Folders, NEW u \in Uids, Flagged(f, u) \/ Removed(f, u)
      PROVE  [Places!PlacesNext]_listedIn
  <2>1. /\ Holds(f, u) /\ box[f][u] \in Copy
        /\ \A g \in Folders, w \in Uids :
               ~(g = f /\ w = u) => box'[g][w] = box[g][w]
    BY <1>0, <1>3 DEF Flagged, Removed, Holds
  <2> DEFINE m == box[f][u].id
  <2>2. PICK k \in Messages : k = m
    BY <2>1 DEF Copy
  <2>3. ~Listed(f, u)'
    <3>1. CASE Flagged(f, u)
      <4>1. FlaggedDeleted(box[f][u]).deleted
        BY <2>1 DEF FlaggedDeleted, Copy
      <4> QED
        BY <3>1, <4>1 DEF Flagged, Listed
    <3>2. CASE Removed(f, u)
      BY <3>2 DEF Removed, Listed, Holds
    <3> QED
      BY <1>3, <3>1, <3>2
  <2>4. ASSUME NEW n \in Messages, NEW g \in Folders, NEW w \in Uids
        PROVE  Shows(g, w, n)' <=> Shows(g, w, n) /\ ~(g = f /\ w = u)
    BY <2>1, <2>3 DEF Shows, Listed, Holds
  <2>5. ASSUME NEW n \in Movable, NEW g \in Folders, n # k \/ g # f
        PROVE  Lists(g, n)' <=> Lists(g, n)
    <3>1. ASSUME NEW w \in Uids PROVE Shows(g, w, n)' <=> Shows(g, w, n)
      <4>1. g = f /\ w = u => ~Shows(g, w, n)
        BY <2>2, <2>5 DEF Shows
      <4>2. n \in Messages
        BY DEF Movable
      <4> QED
        BY <2>4, <4>1, <4>2
    <3> QED
      BY <3>1 DEF Lists
  <2>6. CASE k \notin Movable
    BY <2>5, <2>6, NoMessage
  <2>7. CASE k \in Movable
    <3> DEFINE L == listedIn[k]
               S == {g \in Folders : Lists(g, k)'}
    <3>1. L = {g \in Folders : Lists(g, k)}
      BY <2>7, ListedInDef
    <3>2. Lists(f, k)' => Lists(f, k)
      BY <2>2, <2>4 DEF Lists
    <3>3. S = L \/ S = L \ {f}
      BY <2>5, <2>7, <3>1, <3>2
    <3>4. \E g \in Folders : Lists(g, k)'
      BY <2>7 DEF NeverLost, Lists, Shows, Movable
    <3>5. S # {} /\ S \in SUBSET Folders
      BY <3>4
    <3>6. \A g \in Folders : Lists(g, k)' <=> g \in S
      OBVIOUS
    <3>7. \A n \in Movable \ {k}, g \in Folders : Lists(g, n)' <=> Lists(g, n)
      BY <2>5
    <3> HIDE DEF S
    <3> QED
      BY <2>7, <3>3, <3>5, <3>6, <3>7, PlacesChange
  <2> QED
    BY <2>6, <2>7
<1> QED
  BY <1>1, <1>2, <1>3 DEF StepOK, MailStep

\* MoveMessage implements MailPlaces: seen through the folder listings, every
\* step takes one message to another folder or into one more, or off a list
\* while it stays on another.
THEOREM ImplementsMailPlaces == Spec => PlacesSpec
<1>1. Init /\ NeverLost => Places!PlacesInit
  <2> SUFFICES ASSUME NeverLost PROVE Places!PlacesInit
    OBVIOUS
  <2>1. \A m \in Movable : listedIn[m] \in SUBSET Folders /\ listedIn[m] # {}
    BY NeverNowhere, ListedInDef
  <2> QED
    BY <2>1, ListedInDef DEF Places!PlacesInit, Places!PlacesOK
<1>2. TypeInv /\ NeverLost' /\ [Next]_vars => [Places!PlacesNext]_listedIn
  BY Step, PlacesStep
<1> QED
  BY <1>1, <1>2, TypeInvariant, NothingIsLost, PTL
  DEF Spec, PlacesSpec, Places!PlacesSpec

-----------------------------------------------------------------------------
(* What another mail program has marked stays where it arrived: no list ever *)
(* shows it, so no request names its UID, and no command is about that UID.  *)

Aside == {Arrived[m] : m \in Marked}

Kept ==
    \A m \in Marked :
        /\ ~Listed(INBOX, Arrived[m]) /\ Holds(INBOX, Arrived[m])
        /\ box[INBOX][Arrived[m]].id = m

NotShown == \A d \in Devices, u \in Aside : shown[d][u] = NULL
NotNamed == \A r \in InFlight : r # NULL /\ r.from = INBOX => r.uid \notin Aside

KeptInv == TypeInv /\ Kept /\ NotShown /\ NotNamed

LEMMA AsideKnown ==
    ASSUME TypeInv
    PROVE  /\ Aside \subseteq Uids /\ INBOX \in Folders /\ INBOX \notin Targets
           /\ \A m \in Marked : Arrived[m] \in Aside
BY ArrivedAssumption, MarkedAssumption, TargetsAssumption DEF Aside, Folders, INBOX

LEMMA StaysKept ==
    ASSUME Kept, \A u \in Aside : box'[INBOX][u] = box[INBOX][u]
    PROVE  Kept'
BY DEF Kept, Aside, Listed, Holds

\* A command leaves alone what its request does not name.
LEMMA CommandKeeps ==
    ASSUME KeptInv, NEW r \in InFlight, r # NULL, r.at # "finding",
           \/ UidMove(r) \/ UidCopy(r) \/ UidStoreDeleted(r) \/ UidExpunge(r)
    PROVE  Kept'
<1>1. /\ r \in Request /\ r.uid \in Uids /\ MailOK /\ r.to \in Folders
      /\ r.from = INBOX => r.uid \notin Aside
  BY Executing DEF KeptInv, NotNamed
<1>2. \/ mail' = mail
      \/ \E c \in Copy : Copied(c, r.from, r.uid, r.to) \/ Moved(c, r.from, r.uid, r.to)
      \/ Flagged(r.from, r.uid) \/ Removed(r.from, r.uid)
  BY <1>1, MoveEffect, CopyEffect, FlagEffect, ExpungeEffect
<1>3. ASSUME NEW u \in Aside
      PROVE  box'[INBOX][u] = box[INBOX][u]
  <2>1. u \in Uids /\ INBOX \in Folders /\ ~(INBOX = r.from /\ u = r.uid)
    BY <1>1, AsideKnown DEF KeptInv
  <2>2. u < next[INBOX]
    BY <2>1 DEF KeptInv, Kept, Aside, TypeInv, Fresh
  <2>3. ~(u = next[INBOX])
    BY <2>1, <2>2, MaxUidAssumption DEF Uids
  <2> QED
    BY <1>2, <2>1, <2>3 DEF mail, Copied, Moved, Flagged, Removed
<1> QED
  BY <1>3, StaysKept DEF KeptInv

\* A request that comes in, or goes on, names nothing set aside.
LEMMA NamesNothing ==
    ASSUME KeptInv, NEW d \in Devices, NEW q, request' = [request EXCEPT ![d] = q],
           late' \in InFlight \union {NULL},
           q # NULL /\ q.from = INBOX => q.uid \notin Aside
    PROVE  NotNamed'
<1>1. InFlight' \subseteq InFlight \union {q, NULL}
  BY DEF InFlight, KeptInv, TypeInv, TypeOK
<1> QED
  BY <1>1 DEF KeptInv, NotNamed

LEMMA KeptAsks ==
    ASSUME KeptInv, NEW d \in Devices, Asks(d)
    PROVE  Kept' /\ NotShown' /\ NotNamed'
<1>0. /\ Kept /\ NotShown /\ NotNamed /\ TypeOK
      /\ Aside \subseteq Uids /\ INBOX \notin Targets
  BY AsideKnown DEF KeptInv, TypeInv
<1>1. Kept' /\ late' \in InFlight \union {NULL}
  BY <1>0, StaysKept
  DEF Asks, Refresh, StartMove, StartUndo, StartMoveToInbox, Start, mail, InFlight
<1>2. CASE Refresh(d)
  <2>1. NotNamed'
    BY <1>0, <1>2 DEF Refresh, NotNamed, InFlight
  <2>2. \A u \in Aside : ~Listed(INBOX, u)
    BY <1>0 DEF Kept, Aside
  <2> QED
    BY <1>0, <1>1, <1>2, <2>1, <2>2 DEF Refresh, NotShown, TypeOK
<1>3. CASE ~Refresh(d)
  <2>1. NotShown'
    BY <1>0, <1>3 DEF Asks, StartMove, StartUndo, StartMoveToInbox, Start, NotShown
  <2>2. PICK q : /\ request' = [request EXCEPT ![d] = q]
                 /\ q.from = INBOX => q.uid \notin Aside
    <3>1. ASSUME NEW u \in Uids, NEW to \in Targets, StartMove(d, u, to)
          PROVE  \E q : /\ request' = [request EXCEPT ![d] = q]
                        /\ q.from = INBOX => q.uid \notin Aside
      <4>1. PICK q : q = [at |-> "finding", restore |-> FALSE, id |-> shown[d][u],
                          uid |-> u, from |-> INBOX, to |-> to]
        OBVIOUS
      <4>2. q.uid = u /\ shown[d][u] # NULL
        BY <3>1, <4>1 DEF StartMove
      <4>3. request' = [request EXCEPT ![d] = q]
        BY <3>1, <4>1 DEF StartMove, Start
      <4> QED
        BY <1>0, <4>2, <4>3 DEF NotShown
    <3>2. CASE StartUndo(d)
      <4>1. PICK q : q = Restore(undo[d].id, undo[d].from)
        OBVIOUS
      <4>2. q.from = undo[d].from /\ undo[d].from \in Targets
        BY <1>0, <3>2, <4>1 DEF StartUndo, Restore, TypeOK, Offer
      <4>3. request' = [request EXCEPT ![d] = q]
        BY <3>2, <4>1 DEF StartUndo, Start
      <4> QED
        BY <1>0, <4>2, <4>3
    <3>3. ASSUME NEW f \in Targets, NEW u \in Uids, StartMoveToInbox(d, f, u)
          PROVE  \E q : /\ request' = [request EXCEPT ![d] = q]
                        /\ q.from = INBOX => q.uid \notin Aside
      <4>1. PICK q : q = Restore(box[f][u].id, f)
        OBVIOUS
      <4>2. q.from = f
        BY <4>1 DEF Restore
      <4>3. request' = [request EXCEPT ![d] = q]
        BY <3>3, <4>1 DEF StartMoveToInbox, Start
      <4> QED
        BY <1>0, <4>2, <4>3
    <3> QED
      BY <1>3, <3>1, <3>2, <3>3 DEF Asks
  <2>3. NotNamed'
    BY <1>1, <2>2, NamesNothing
  <2> QED
    BY <1>1, <2>1, <2>3
<1> QED
  BY <1>2, <1>3

LEMMA KeptProceeds ==
    ASSUME KeptInv, NEW d \in Devices, Proceeds(d)
    PROVE  Kept' /\ NotShown' /\ NotNamed'
<1>0. /\ Kept /\ NotShown /\ NotNamed /\ TypeOK /\ TypeInv
      /\ Aside \subseteq Uids /\ INBOX \notin Targets
  BY AsideKnown DEF KeptInv, TypeInv
<1>1. CASE CreateArchive(d)
  BY <1>0, <1>1, StaysKept DEF CreateArchive, mail, screens, NotShown, NotNamed, InFlight
<1>2. ASSUME request[d] # NULL
      PROVE  /\ request[d] \in InFlight /\ request[d] \in Request /\ WellFormed(request[d])
             /\ request[d].from = INBOX => request[d].uid \notin Aside
  BY <1>0, <1>2, Executing DEF InFlight, NotNamed
<1>3. CASE Find(d)
  <2>1. PICK u \in Uids :
            /\ ~request[d].restore => u = request[d].uid
            /\ request' = [request EXCEPT ![d] =
                   [@ EXCEPT !.uid = u,
                             !.at = IF "MOVE" \in capabilities
                                    THEN "moving" ELSE "copying"]]
    BY <1>3 DEF Find
  <2> DEFINE q == [request[d] EXCEPT !.uid = u,
                             !.at = IF "MOVE" \in capabilities
                                    THEN "moving" ELSE "copying"]
  <2>2. request[d] # NULL
    BY <1>3 DEF Find, At
  <2>3. q.from = request[d].from /\ q.uid = u
    BY <1>2, <2>2 DEF Request
  <2>4. request' = [request EXCEPT ![d] = q]
    BY <2>1
  <2> HIDE DEF q
  <2>5. q.from = INBOX => q.uid \notin Aside
    BY <1>0, <1>2, <2>1, <2>2, <2>3 DEF WellFormed
  <2>6. late' \in InFlight \union {NULL} /\ UNCHANGED <<mail, screens>>
    BY <1>3 DEF Find, InFlight
  <2> QED
    BY <1>0, <2>4, <2>5, <2>6, NamesNothing, StaysKept DEF mail, screens, NotShown
<1>4. ASSUME NEW stage, Advance(d, stage), request[d] # NULL, late' = late
      PROVE  NotNamed'
  <2> DEFINE q == [request[d] EXCEPT !.at = stage]
  <2>1. q.from = request[d].from /\ q.uid = request[d].uid
    BY <1>2, <1>4 DEF Request
  <2>2. request' = [request EXCEPT ![d] = q]
    BY <1>4 DEF Advance
  <2> HIDE DEF q
  <2>3. late' \in InFlight \union {NULL}
    BY <1>4 DEF InFlight
  <2> QED
    BY <1>2, <1>4, <2>1, <2>2, <2>3, NamesNothing
<1>5. CASE MoveInOne(d) \/ MakeCopy(d) \/ FlagOriginal(d) \/ ExpungeOriginal(d)
  <2>1. request[d] # NULL /\ request[d].at # "finding" /\ UNCHANGED <<late, screens>>
    BY <1>5 DEF MoveInOne, MakeCopy, FlagOriginal, ExpungeOriginal, At
  <2>2. \/ UidMove(request[d]) \/ UidCopy(request[d])
        \/ UidStoreDeleted(request[d]) \/ UidExpunge(request[d])
    BY <1>5 DEF MoveInOne, MakeCopy, FlagOriginal, ExpungeOriginal
  <2>3. Kept'
    BY <1>2, <2>1, <2>2, CommandKeeps
  <2>4. NotNamed'
    BY <1>4, <1>5, <2>1 DEF MoveInOne, MakeCopy, FlagOriginal, ExpungeOriginal
  <2> QED
    BY <1>0, <2>1, <2>3, <2>4 DEF screens, NotShown
<1>6. CASE AnswerMove(d) \/ AnswerRestore(d) \/ GiveUp(d)
  <2>1. request' = [request EXCEPT ![d] = NULL] /\ UNCHANGED mail
    BY <1>6 DEF AnswerMove, AnswerRestore, GiveUp
  <2>2. late' \in InFlight \union {NULL}
    BY <1>6 DEF AnswerMove, AnswerRestore, GiveUp, InFlight
  <2>3. NotNamed' /\ Kept'
    BY <1>0, <2>1, <2>2, NamesNothing, StaysKept DEF mail
  <2>4. NotShown'
    BY <1>0, <1>6 DEF AnswerMove, AnswerRestore, GiveUp, screens, NotShown, TypeOK
  <2> QED
    BY <2>3, <2>4
<1> QED
  BY <1>1, <1>3, <1>5, <1>6 DEF Proceeds

LEMMA KeptStep == KeptInv /\ [Next]_vars => Kept' /\ NotShown' /\ NotNamed'
<1> SUFFICES ASSUME KeptInv, [Next]_vars
             PROVE  Kept' /\ NotShown' /\ NotNamed'
  OBVIOUS
<1>0. /\ Kept /\ NotShown /\ NotNamed
  BY DEF KeptInv
<1>1. ASSUME NEW f \in Folders, NEW u \in Uids, Tidy(f, u)
      PROVE  Kept' /\ NotShown' /\ NotNamed'
  <2>1. Removed(f, u)
    BY <1>1, TypeParts, WithoutEffect DEF Tidy, KeptInv, TypeInv
  <2>2. \A v \in Aside : box'[INBOX][v] = box[INBOX][v]
    <3>1. ASSUME NEW v \in Aside
          PROVE  v \in Uids /\ INBOX \in Folders /\ box[INBOX][v].id \in Marked
      BY <1>0, AsideKnown DEF KeptInv, Kept, Aside
    <3> QED
      BY <1>1, <2>1, <3>1 DEF Removed, Tidy
  <2> QED
    BY <1>0, <1>1, <2>2, StaysKept DEF Tidy, screens, NotShown, NotNamed, InFlight
<1>2. CASE CarryOutLate
  <2>1. late # NULL /\ late \in InFlight /\ late.at # "finding"
    BY <1>2 DEF CarryOutLate, InFlight
  <2>2. Kept'
    BY <1>2, <2>1, CommandKeeps DEF CarryOutLate
  <2>3. InFlight' \subseteq InFlight \union {NULL}
    BY <1>2 DEF CarryOutLate, InFlight
  <2> QED
    BY <1>0, <1>2, <2>2, <2>3 DEF CarryOutLate, screens, NotShown, NotNamed
<1>3. CASE UNCHANGED vars
  BY <1>0, <1>3, StaysKept DEF vars, NotShown, NotNamed, InFlight
<1> QED
  BY <1>1, <1>2, <1>3, KeptAsks, KeptProceeds DEF Next

\* What another mail program has marked deleted in the inbox stays there,
\* whatever is moved, expunged or carried out late beside it, on servers with
\* and without UIDPLUS (move_uid: "only this message").
THEOREM MarkedStay == Spec => []MarkedAreKept
<1>1. Init => KeptInv
  <2> SUFFICES ASSUME Init
               PROVE  KeptInv
    OBVIOUS
  <2>1. TypeInv
    BY InitTypeInv
  <2>2. Kept
    <3> SUFFICES ASSUME NEW m \in Marked
                 PROVE  /\ ~Listed(INBOX, Arrived[m]) /\ Holds(INBOX, Arrived[m])
                        /\ box[INBOX][Arrived[m]].id = m
      BY DEF Kept
    <3>1. m \in Messages /\ (m \in Marked) = TRUE
      BY MarkedAssumption
    <3>2. Holds(INBOX, Arrived[m]) /\ box[INBOX][Arrived[m]] = [id |-> m, deleted |-> TRUE]
      BY <3>1, InitialMail
    <3> QED
      BY <3>2 DEF Listed
  <2>3. NotShown /\ NotNamed
    BY <2>1, AsideKnown DEF Init, NotShown, NotNamed, InFlight
  <2> QED
    BY <2>1, <2>2, <2>3 DEF KeptInv
<1>2. KeptInv /\ [Next]_vars => KeptInv'
  <2>1. KeptInv /\ [Next]_vars => TypeInv'
    BY Step, TypeInvStep DEF KeptInv
  <2> QED
    BY <2>1, KeptStep DEF KeptInv
<1>3. KeptInv => MarkedAreKept
  <2> SUFFICES ASSUME KeptInv, NEW m \in Marked
               PROVE  \E f \in Folders, u \in Uids : Holds(f, u) /\ box[f][u].id = m
    BY DEF MarkedAreKept
  <2>1. Arrived[m] \in Uids /\ INBOX \in Folders
    BY AsideKnown DEF KeptInv
  <2> QED
    BY <2>1 DEF KeptInv, Kept
<1> QED
  BY <1>1, <1>2, <1>3, PTL DEF Spec
=============================================================================
