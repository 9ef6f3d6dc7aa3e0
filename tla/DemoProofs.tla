----------------------------- MODULE DemoProofs -----------------------------
(***************************************************************************)
(* Demo is well typed; the message that arrives is new to whoever saw the  *)
(* demo before, and an opening nothing interferes with puts the demo in    *)
(* its starting state.                                                     *)
(*                                                                         *)
(* No UID handed to a page is above the newest a list can hold by now      *)
(* (HandedOut), the lists a reset goes by have the generated messages and  *)
(* perhaps the arrival (ByTheList), so that the marker is below the        *)
(* arrival or at a message a page chose (MarkerBelow).  A reset that runs  *)
(* undisturbed has put in order what its steps so far set (Sofar), by the  *)
(* list it read, to which one message may be added later; when it ends,    *)
(* that is the starting state (Over).                                      *)
(***************************************************************************)
EXTENDS Demo, SequenceTheorems, FiniteSetTheorems, TLAPS

\* The newest UID a list can hold by now
Newest ==
    IF arrival = NULL THEN FIRST_ARRIVAL_UID - 1
    ELSE IF arrival.here THEN arrival.uid ELSE arrival.uid - 1

\* Nothing that was handed to a page is newer than that, and moves are of such
\* messages only; another arrival may be scheduled while one is asked for.
HandedOut ==
    /\ arrival # NULL => arrival.uid >= FIRST_ARRIVAL_UID
    /\ highest <= Newest
    /\ \A i \in DOMAIN moved : moved[i].uid <= highest
    /\ \A m \in moves : m.uid <= highest
    /\ listing => row # NULL
    /\ Resetting("forget") \/ Resetting("schedule") =>
           (arrival # NULL => arrival.uid < FIRST_ARRIVAL_UID + MaxOpenings - 1)

\* The messages a reset goes by are the generated ones and perhaps the arrival.
ByTheList ==
    reset # NULL /\ reset.at \notin {"forget", "schedule"} =>
        /\ arrival # NULL
        /\ reset.at # "drafts" /\ reset.at # "envelopes" =>
               reset.envelopes \subseteq generated \union {arrival.uid}
        /\ reset.at = "remember" => Range(reset.left) \subseteq Range(DEMO_REMEMBERED)

MarkerBelow ==
    opened => /\ arrival # NULL /\ row # NULL
              /\ row.watermark < arrival.uid \/ row.watermark <= highest

\* What the messages of a list say of the row and the bookmarks
Whole(messages) == messages = generated \/ messages = generate_all
RowBy(messages) ==
    /\ DEMO_UNSEEN < Cardinality(messages)
    /\ row = [watermark |-> Listed(messages, DEMO_UNSEEN), last_open |-> "start",
              signed |-> FALSE]
Bookmarks(messages, positions) == {Listed(messages, i) : i \in Range(positions)}

\* What a reset nothing interferes with has put in order by each step, and
\* what is in order once it is over
Sofar ==
    start = "clean" =>
        /\ reset # NULL
        /\ reset.at # "forget" => moved = <<>>
        /\ reset.at \notin {"forget", "schedule", "drafts"} => ~drafts
        /\ reset.at \in {"update", "clear", "remember"} => Whole(reset.envelopes)
        /\ reset.at \in {"clear", "remember"} => RowBy(reset.envelopes)
        /\ reset.at = "remember" =>
               remembered \union Bookmarks(reset.envelopes, reset.left)
                   = Bookmarks(reset.envelopes, DEMO_REMEMBERED)
Over ==
    start = "over" =>
        /\ reset = NULL /\ moved = <<>> /\ ~drafts
        /\ \E messages \in SUBSET UIDs :
               /\ Whole(messages) /\ RowBy(messages)
               /\ remembered = Bookmarks(messages, DEMO_REMEMBERED)

DemoInv == TypeOK /\ HandedOut /\ ByTheList /\ MarkerBelow /\ Sofar /\ Over

-----------------------------------------------------------------------------
(* The places of a list, newest first *)

Newer(S, n) == {k \in S : k > n}
Place(S, n) == Cardinality(Newer(S, n))

\* A finite set of numbers has so many places, and a number for each.
LEMMA Places ==
    ASSUME NEW S \in SUBSET Nat, IsFiniteSet(S)
    PROVE  /\ Cardinality(S) \in Nat
           /\ \A n \in S : Place(S, n) \in 0..(Cardinality(S) - 1)
           /\ \A m, n \in S : m < n <=> Place(S, n) < Place(S, m)
           /\ \A m, n \in S : Place(S, m) = Place(S, n) => m = n
           /\ \A i \in 0..(Cardinality(S) - 1) : \E n \in S : Place(S, n) = i
<1> DEFINE C == Cardinality(S)
<1>0. \A n \in S : n \in Nat
  OBVIOUS
<1>1. C \in Nat
  BY FS_CardinalityType
<1>2. ASSUME NEW n \in S
      PROVE  Place(S, n) \in 0..(C - 1) /\ IsFiniteSet(Newer(S, n))
  <2>1. IsFiniteSet(S \ {n}) /\ Cardinality(S \ {n}) = C - 1
    BY FS_RemoveElement
  <2>2. Newer(S, n) \in SUBSET (S \ {n})
    BY <1>0 DEF Newer
  <2>3. IsFiniteSet(Newer(S, n)) /\ Place(S, n) <= C - 1
    BY <2>1, <2>2, FS_Subset DEF Place
  <2> QED
    BY <2>3, <1>1, FS_CardinalityType DEF Place
<1>3. ASSUME NEW m \in S, NEW n \in S, m < n
      PROVE  Place(S, n) < Place(S, m)
  <2>1. (\A k \in S : k > n => k > m) /\ n > m /\ ~(n > n)
    BY <1>0, <1>3
  <2>2. Newer(S, n) \in SUBSET Newer(S, m) /\ n \in Newer(S, m) /\ n \notin Newer(S, n)
    BY <2>1 DEF Newer
  <2>3. Place(S, n) <= Place(S, m) /\ Place(S, n) # Place(S, m)
    BY <1>2, <2>2, FS_Subset DEF Place
  <2> QED
    BY <1>2, <2>3
<1>4. ASSUME NEW m \in S, NEW n \in S
      PROVE  /\ m < n <=> Place(S, n) < Place(S, m)
             /\ Place(S, m) = Place(S, n) => m = n
  <2>1. m < n \/ n < m \/ (m = n /\ ~(m < n))
    BY <1>0
  <2>2. Place(S, m) \in Nat /\ Place(S, n) \in Nat
    BY <1>1, <1>2
  <2> QED
    BY <1>3, <2>1, <2>2
<1>5. \A i \in 0..(C - 1) : \E n \in S : Place(S, n) = i
  <2> DEFINE f == [n \in S |-> Place(S, n) + 1]
  <2>1. f \in [S -> 1..C]
    BY <1>1, <1>2
  <2>2. \A m, n \in S : f[m] = f[n] => m = n
    BY <1>2, <1>4
  <2>3. f \in Injection(S, 1..C)
    BY <2>1, <2>2 DEF Injection, IsInjective
  <2>4. IsFiniteSet(1..C) /\ Cardinality(1..C) = C
    BY <1>1, FS_Interval
  <2>5. f \in Surjection(S, 1..C)
    BY <2>3, <2>4, FS_Injection
  <2>6. \A i \in 1..C : \E n \in S : f[n] = i
    BY <2>5 DEF Surjection
  <2> QED
    BY <1>1, <1>2, <2>6
<1> QED
  BY <1>1, <1>2, <1>4, <1>5

\* The message listed at a place is the one that is there.
LEMMA ListedIs ==
    ASSUME NEW S \in SUBSET Nat, IsFiniteSet(S), NEW i \in Nat, i < Cardinality(S)
    PROVE  /\ Listed(S, i) \in S /\ Place(S, Listed(S, i)) = i
           /\ \A n \in S : Place(S, n) = i => n = Listed(S, i)
<1>1. Cardinality(S) \in Nat /\ i \in 0..(Cardinality(S) - 1)
  BY Places
<1>2. \E n \in S : Place(S, n) = i
  BY <1>1, Places
<1>3. Listed(S, i) = CHOOSE n \in S : Place(S, n) = i
  BY DEF Listed, Place, Newer
<1>4. Listed(S, i) \in S /\ Place(S, Listed(S, i)) = i
  BY <1>2, <1>3
<1>5. \A m, n \in S : Place(S, m) = Place(S, n) => m = n
  BY Places
<1> QED
  BY <1>4, <1>5

\* A message newer than all moves each of them one place on.
LEMMA ListedAfter ==
    ASSUME NEW S \in SUBSET Nat, IsFiniteSet(S), NEW a \in Nat, \A n \in S : n < a
    PROVE  /\ IsFiniteSet(S \union {a}) /\ Cardinality(S \union {a}) = Cardinality(S) + 1
           /\ \A i \in 0..(Cardinality(S) - 1) : Listed(S \union {a}, i + 1) = Listed(S, i)
<1> DEFINE T == S \union {a}
<1>1. Cardinality(S) \in Nat /\ a \notin S
  BY FS_CardinalityType
<1>2. IsFiniteSet(T) /\ Cardinality(T) = Cardinality(S) + 1
  BY <1>1, FS_AddElement
<1>3. ASSUME NEW n \in S PROVE Place(T, n) = Place(S, n) + 1
  <2>1. Newer(T, n) = Newer(S, n) \union {a} /\ a \notin Newer(S, n)
    BY <1>1 DEF Newer
  <2>2. IsFiniteSet(Newer(S, n))
    BY FS_Subset DEF Newer
  <2> QED
    BY <2>1, <2>2, FS_AddElement DEF Place
<1>4. ASSUME NEW i \in 0..(Cardinality(S) - 1)
      PROVE  Listed(T, i + 1) = Listed(S, i)
  <2>1. i \in Nat /\ i < Cardinality(S) /\ i + 1 \in Nat /\ i + 1 < Cardinality(T)
    BY <1>1, <1>2
  <2>2. Listed(S, i) \in S /\ Place(S, Listed(S, i)) = i
    BY <2>1, ListedIs
  <2>3. Listed(S, i) \in T /\ Place(T, Listed(S, i)) = i + 1
    BY <1>3, <2>2
  <2>4. T \in SUBSET Nat
    OBVIOUS
  <2> HIDE DEF T
  <2>5. \A n \in T : Place(T, n) = i + 1 => n = Listed(T, i + 1)
    BY <1>2, <2>1, <2>4, ListedIs
  <2> QED
    BY <2>3, <2>5
<1> QED
  BY <1>2, <1>4

-----------------------------------------------------------------------------
(* The messages of the demo *)

\* The lists are finite sets of UIDs, and the arrival is the newest of all.
LEMMA Lists ==
    ASSUME TypeOK, HandedOut
    PROVE  /\ generated \in SUBSET UIDs /\ IsFiniteSet(generated)
           /\ Cardinality(generated) = MESSAGES
           /\ generate_all \in SUBSET UIDs /\ IsFiniteSet(generate_all)
           /\ IsFiniteSet(UIDs) /\ UIDs \in SUBSET Nat
           /\ arrival # NULL =>
                  /\ arrival \in Arrival /\ arrival.uid \in UIDs /\ arrival.uid \in Nat
                  /\ arrival.here \in BOOLEAN
                  /\ \A uid \in generated : uid < arrival.uid
<1>1. /\ FIRST_ARRIVAL_UID \in Nat /\ MESSAGES \in Nat /\ MESSAGES < FIRST_ARRIVAL_UID
      /\ MaxOpenings \in Nat /\ MaxOpenings > 0
  BY DemoAssumption, BoundsAssumption
<1>2. generated \in SUBSET UIDs /\ UIDs \in SUBSET Nat
  BY <1>1 DEF generated, UIDs
<1>3. IsFiniteSet(generated) /\ Cardinality(generated) = MESSAGES /\ IsFiniteSet(UIDs)
  BY <1>1, FS_Interval DEF generated, UIDs
<1>4. arrival # NULL =>
          arrival \in Arrival /\ arrival.uid \in UIDs /\ arrival.here \in BOOLEAN
  BY DEF TypeOK, Arrival
<1>5. generate_all \in SUBSET UIDs
  BY <1>2, <1>4 DEF generate_all, arrived
<1>6. IsFiniteSet(generate_all)
  BY <1>3, <1>5, FS_Subset
<1>7. ASSUME arrival # NULL, NEW uid \in generated PROVE uid < arrival.uid
  <2>1. arrival.uid \in Nat /\ arrival.uid >= FIRST_ARRIVAL_UID
    BY <1>2, <1>4, <1>7 DEF HandedOut
  <2> QED
    BY <1>1, <2>1 DEF generated
<1> QED
  BY <1>2, <1>3, <1>4, <1>5, <1>6, <1>7

\* Once it is over, the reset has kept what StartsOver promises.
LEMMA OverIsStart == TypeOK /\ HandedOut /\ Over => StartsOver
<1> SUFFICES ASSUME TypeOK, HandedOut, Over, start = "over" PROVE StartsOver
  BY DEF StartsOver
<1>1. moved = <<>> /\ ~drafts
  BY DEF Over
<1>2. PICK messages \in SUBSET UIDs :
          /\ Whole(messages) /\ RowBy(messages)
          /\ remembered = Bookmarks(messages, DEMO_REMEMBERED)
  BY DEF Over
<1>3. generate = generate_all /\ \A f \in Folders : moved_to(f) = {}
  BY <1>1 DEF generate, is_moved, moved_to
<1>4. /\ row.last_open = "start" /\ ~row.signed
      /\ row.watermark = Listed(messages, DEMO_UNSEEN)
      /\ DEMO_UNSEEN < Cardinality(messages)
  BY <1>2 DEF RowBy
<1>5. /\ DEMO_UNSEEN \in Nat
      /\ \A i \in Range(DEMO_REMEMBERED) : i \in Nat /\ i < MESSAGES
  BY DemoAssumption DEF Range
<1>6. SUFFICES \E since \in 0 .. Cardinality(arrived) :
                   /\ Cardinality({uid \in generate_all : uid > row.watermark})
                          = DEMO_UNSEEN + since
                   /\ remembered = {Listed(generate_all, i + since) :
                                        i \in Range(DEMO_REMEMBERED)}
  BY <1>1, <1>3, <1>4 DEF StartsOver
<1>7. arrived = {} \/ (arrival # NULL /\ arrived = {arrival.uid})
  BY DEF arrived
<1>8. Cardinality(arrived) \in Nat /\ 0 \in 0 .. Cardinality(arrived)
  <2>1. Cardinality({}) = 0 /\ Cardinality({arrival.uid}) = 1
    BY FS_EmptySet, FS_Singleton
  <2> QED
    BY <1>7, <2>1
<1>9. CASE messages = generate_all
  <2>1. Place(generate_all, Listed(generate_all, DEMO_UNSEEN)) = DEMO_UNSEEN
    <3>1. generate_all \in SUBSET Nat /\ IsFiniteSet(generate_all)
      BY Lists
    <3> QED
      BY <1>4, <1>5, <1>9, <3>1, ListedIs
  <2>2. Cardinality({uid \in generate_all : uid > row.watermark}) = DEMO_UNSEEN + 0
    BY <1>4, <1>5, <1>9, <2>1 DEF Place, Newer
  <2>3. \A i \in Range(DEMO_REMEMBERED) : i + 0 = i
    BY <1>5
  <2>4. remembered = {Listed(generate_all, i + 0) : i \in Range(DEMO_REMEMBERED)}
    BY <1>2, <1>9, <2>3 DEF Bookmarks
  <2> QED
    BY <1>8, <2>2, <2>4
<1>10. CASE messages # generate_all
  <2>1. messages = generated /\ arrival # NULL /\ arrived = {arrival.uid}
    BY <1>2, <1>7, <1>10 DEF Whole, generate_all
  <2>2. generate_all = generated \union {arrival.uid}
    BY <2>1 DEF generate_all
  <2>3. /\ generated \in SUBSET Nat /\ IsFiniteSet(generated) /\ arrival.uid \in Nat
        /\ Cardinality(generated) = MESSAGES /\ \A uid \in generated : uid < arrival.uid
        /\ MESSAGES \in Nat /\ generate_all \in SUBSET Nat
    BY <2>1, Lists, DemoAssumption
  <2>4. /\ IsFiniteSet(generate_all) /\ Cardinality(generate_all) = MESSAGES + 1
        /\ \A i \in 0..(MESSAGES - 1) : Listed(generate_all, i + 1) = Listed(generated, i)
    BY <2>2, <2>3, ListedAfter
  <2>5. 1 \in 0 .. Cardinality(arrived)
    <3>1. Cardinality({arrival.uid}) = 1
      BY FS_Singleton
    <3> QED
      BY <2>1, <3>1
  <2>6. DEMO_UNSEEN \in 0..(MESSAGES - 1)
    BY <1>4, <1>5, <2>1, <2>3
  <2>7. row.watermark = Listed(generate_all, DEMO_UNSEEN + 1)
    BY <1>4, <2>1, <2>4, <2>6
  <2>8. Place(generate_all, Listed(generate_all, DEMO_UNSEEN + 1)) = DEMO_UNSEEN + 1
    BY <2>3, <2>4, <2>6, ListedIs
  <2>9. Cardinality({uid \in generate_all : uid > row.watermark}) = DEMO_UNSEEN + 1
    BY <2>7, <2>8 DEF Place, Newer
  <2>10. \A i \in Range(DEMO_REMEMBERED) : Listed(generate_all, i + 1) = Listed(generated, i)
    BY <1>5, <2>3, <2>4
  <2>11. remembered = {Listed(generate_all, i + 1) : i \in Range(DEMO_REMEMBERED)}
    BY <1>2, <2>1, <2>10 DEF Bookmarks
  <2> QED
    BY <2>5, <2>9, <2>11
<1> QED
  BY <1>9, <1>10

-----------------------------------------------------------------------------
(* The inductive invariant *)

LEMMA DemoStarts == Init => DemoInv
<1> SUFFICES ASSUME Init PROVE DemoInv
  OBVIOUS
<1>1. /\ FIRST_ARRIVAL_UID \in Nat \ {0} /\ MaxOpenings \in Nat \ {0} /\ MaxSent \in Nat
      /\ OUTBOX_LIMIT \in Nat
  BY DemoAssumption, BoundsAssumption
<1>2. TypeOK
  <2>1. /\ moved \in Seq([uid: UIDs, folder: Folders]) /\ outbox \in Seq(1..sent)
        /\ Len(outbox) <= OUTBOX_LIMIT /\ sent \in 0..MaxSent
    BY <1>1 DEF Init
  <2> QED
    BY <2>1 DEF Init, TypeOK
<1>3. HandedOut
  BY <1>1 DEF Init, HandedOut, Newest, Resetting
<1>4. ByTheList /\ MarkerBelow /\ Sofar /\ Over
  BY DEF Init, ByTheList, MarkerBelow, Sofar, Over
<1> QED
  BY <1>2, <1>3, <1>4 DEF DemoInv

\* What each kind of record is made of, and what a change of one field makes
LEMMA Records ==
    /\ Fresh \in Row /\ (\A q \in Reset : q # NULL) /\ (\A q \in Row : q # NULL)
    /\ \A q \in Arrival : q # NULL
    /\ \A q \in Reset :
           /\ q.at \in Steps /\ q.envelopes \in SUBSET UIDs /\ q.left \in Seq(Nat)
           /\ \A at \in Steps :
                  /\ [q EXCEPT !.at = at] \in Reset
                  /\ \A list \in SUBSET UIDs :
                         [q EXCEPT !.at = at, !.envelopes = list] \in Reset
                  /\ \A left \in Seq(Nat) : [q EXCEPT !.at = at, !.left = left] \in Reset
           /\ \A left \in Seq(Nat) : [q EXCEPT !.left = left] \in Reset
    /\ \A q \in Row :
           /\ [q EXCEPT !.last_open = "later"] \in Row /\ [q EXCEPT !.signed = TRUE] \in Row
           /\ \A uid \in UIDs :
                  [q EXCEPT !.watermark = uid, !.last_open = "later"] \in Row
<1>1. Fresh \in Row
  BY DEF Fresh, Row
<1>2. (\A q \in Reset : q # NULL) /\ (\A q \in Row : q # NULL) /\ \A q \in Arrival : q # NULL
  BY NullAssumption
<1>3. ASSUME NEW q \in Reset
      PROVE  /\ q.at \in Steps /\ q.envelopes \in SUBSET UIDs /\ q.left \in Seq(Nat)
             /\ \A at \in Steps :
                    /\ [q EXCEPT !.at = at] \in Reset
                    /\ \A list \in SUBSET UIDs :
                           [q EXCEPT !.at = at, !.envelopes = list] \in Reset
                    /\ \A left \in Seq(Nat) : [q EXCEPT !.at = at, !.left = left] \in Reset
             /\ \A left \in Seq(Nat) : [q EXCEPT !.left = left] \in Reset
  BY DEF Reset
<1>4. ASSUME NEW q \in Row
      PROVE  /\ [q EXCEPT !.last_open = "later"] \in Row /\ [q EXCEPT !.signed = TRUE] \in Row
             /\ \A uid \in UIDs :
                    [q EXCEPT !.watermark = uid, !.last_open = "later"] \in Row
  BY DEF Row
<1> QED
  BY <1>1, <1>2, <1>3, <1>4

\* What is left of a sequence was in it.
LEMMA RemoveAtWas ==
    ASSUME NEW S, NEW s \in Seq(S), NEW i \in DOMAIN s
    PROVE  /\ RemoveAt(s, i) \in Seq(S)
           /\ \A k \in DOMAIN RemoveAt(s, i) :
                  \E j \in DOMAIN s : RemoveAt(s, i)[k] = s[j]
<1> DEFINE front == SubSeq(s, 1, i - 1)
           back == SubSeq(s, i + 1, Len(s))
<1>1. /\ front \in Seq(S) /\ Len(front) = i - 1
      /\ \A k \in 1..(i - 1) : front[k] = s[k]
  OBVIOUS
<1>2. /\ back \in Seq(S) /\ Len(back) = Len(s) - i
      /\ \A k \in 1..(Len(s) - i) : back[k] = s[i + k]
  OBVIOUS
<1>3. RemoveAt(s, i) = front \o back
  BY DEF RemoveAt
<1> HIDE DEF front, back
<1>4. RemoveAt(s, i) \in Seq(S) /\ Len(RemoveAt(s, i)) = Len(s) - 1
  BY <1>1, <1>2, <1>3
<1>5. ASSUME NEW k \in 1..(i - 1) PROVE RemoveAt(s, i)[k] = s[k]
  BY <1>1, <1>2, <1>3
<1>6. ASSUME NEW k \in i..(Len(s) - 1) PROVE RemoveAt(s, i)[k] = s[k + 1]
  <2>1. k - (i - 1) \in 1..(Len(s) - i) /\ i + (k - (i - 1)) = k + 1
    OBVIOUS
  <2>2. (front \o back)[k] = back[k - (i - 1)]
    BY <1>1, <1>2
  <2> QED
    BY <2>1, <2>2, <1>2, <1>3
<1>7. /\ DOMAIN RemoveAt(s, i) = 1..(Len(s) - 1) /\ DOMAIN s = 1..Len(s)
      /\ Len(s) \in Nat /\ i \in 1..Len(s)
  BY <1>4
<1> HIDE DEF RemoveAt
<1>8. ASSUME NEW k \in 1..(Len(s) - 1)
      PROVE  \E j \in 1..Len(s) : RemoveAt(s, i)[k] = s[j]
  <2>1. CASE k < i
    BY <1>5, <1>7, <2>1
  <2>2. CASE k >= i
    <3>1. k \in i..(Len(s) - 1) /\ k + 1 \in 1..Len(s)
      BY <1>7, <2>2
    <3> QED
      BY <1>6, <3>1
  <2> QED
    BY <1>7, <2>1, <2>2
<1> QED
  BY <1>4, <1>7, <1>8

\* What the reset and the pages take from a list is in it.
LEMMA PositionIs ==
    ASSUME TypeOK, HandedOut, reset # NULL, NEW i \in Nat, Reaches(i)
    PROVE  Position(i) \in reset.envelopes /\ Position(i) \in UIDs
<1>1. reset.envelopes \in SUBSET UIDs
  BY Records DEF TypeOK
<1>2. IsFiniteSet(reset.envelopes) /\ reset.envelopes \in SUBSET Nat
  BY <1>1, Lists, FS_Subset
<1> QED
  BY <1>1, <1>2, ListedIs DEF Position, Reaches

\* A page that lists the newest gets it.
LEMMA NewestListed ==
    ASSUME TypeOK, HandedOut, generate # {}
    PROVE  /\ Listed(generate, 0) \in generate /\ Listed(generate, 0) \in UIDs
           /\ \A uid \in generate : uid <= Listed(generate, 0)
<1>1. generate \in SUBSET UIDs /\ generate \in SUBSET Nat /\ IsFiniteSet(generate)
  BY Lists, FS_Subset DEF generate
<1>2. 0 < Cardinality(generate)
  BY <1>1, FS_EmptySet, FS_CardinalityType
<1>3. Listed(generate, 0) \in generate /\ Place(generate, Listed(generate, 0)) = 0
  BY <1>1, <1>2, ListedIs
<1>4. \A uid \in generate : ~(Listed(generate, 0) < uid)
  <2>1. \A uid \in generate : Place(generate, uid) \in 0..(Cardinality(generate) - 1)
    BY <1>1, Places
  <2>2. \A uid \in generate : ~(Place(generate, uid) < 0)
    BY <1>1, <2>1, FS_CardinalityType
  <2>3. \A m, n \in generate : m < n <=> Place(generate, n) < Place(generate, m)
    BY <1>1, Places
  <2> QED
    BY <1>3, <2>2, <2>3
<1>5. \A m, n \in Nat : ~(m < n) => n <= m
  OBVIOUS
<1>6. Listed(generate, 0) \in UIDs /\ \A uid \in generate : uid <= Listed(generate, 0)
  BY <1>1, <1>3, <1>4, <1>5
<1> QED
  BY <1>3, <1>6

\* A scheduled message has the next UID.
LEMMA Scheduled ==
    ASSUME TypeOK, HandedOut, schedule_arrival
    PROVE  /\ arrival' \in Arrival /\ arrival' # NULL /\ ~arrival'.here
           /\ arrival'.uid = IF arrival = NULL THEN FIRST_ARRIVAL_UID ELSE arrival.uid + 1
<1>1. /\ FIRST_ARRIVAL_UID \in Nat /\ MaxOpenings \in Nat \ {0} /\ FIRST_ARRIVAL_UID > 0
  BY DemoAssumption, BoundsAssumption
<1>2. arrival # NULL => /\ arrival.uid \in UIDs
                        /\ arrival.uid < FIRST_ARRIVAL_UID + MaxOpenings - 1
  BY Lists DEF schedule_arrival, HandedOut
<1>3. arrival' \in Arrival
  BY <1>1, <1>2 DEF schedule_arrival, UIDs, Arrival
<1> QED
  BY <1>3, Records DEF schedule_arrival

LEMMA ResetTyped == TypeOK /\ HandedOut /\ ByTheList /\ reset_demo => TypeOK'
<1> SUFFICES ASSUME TypeOK, HandedOut, ByTheList, reset_demo PROVE TypeOK'
  OBVIOUS
<1> USE DEF folders, mail, account, history
<1>0. /\ reset # NULL => reset \in Reset /\ row \in Row /\ row # NULL
      /\ moved \in Seq([uid: UIDs, folder: Folders])
  BY Records DEF TypeOK
<1>1. CASE forget_moves
  <2>1. moved' = <<>> /\ <<>> \in Seq([uid: UIDs, folder: Folders])
    BY <1>1 DEF forget_moves
  <2>2. reset' \in Reset /\ reset' # NULL
    BY <1>0, <1>1, Records DEF forget_moves, Resetting, Go, Steps
  <2> QED
    BY <1>0, <1>1, <2>1, <2>2 DEF TypeOK, forget_moves, Resetting
<1>2. CASE schedule_arrival
  <2>1. reset' \in Reset /\ reset' # NULL
    BY <1>0, <1>2, Records DEF schedule_arrival, Resetting, Go, Steps
  <2>2. arrival' \in Arrival
    BY <1>2, Scheduled
  <2> QED
    BY <1>0, <1>2, <2>1, <2>2 DEF TypeOK, schedule_arrival, Resetting
<1>3. CASE delete_all
  <2>1. reset' \in Reset /\ reset' # NULL
    BY <1>0, <1>3, Records DEF delete_all, Resetting, Go, Steps
  <2> QED
    BY <1>0, <1>3, <2>1 DEF TypeOK, delete_all, Resetting
<1>4. CASE ReadEnvelopes
  <2>1. generate \in SUBSET UIDs
    BY Lists DEF generate
  <2>2. reset' \in Reset /\ reset' # NULL
    BY <1>0, <1>4, <2>1, Records DEF ReadEnvelopes, Resetting, Steps
  <2> QED
    BY <1>0, <1>4, <2>2 DEF TypeOK, ReadEnvelopes, Resetting
<1>5. CASE UpdateRow
  <2>1. reset' \in Reset /\ reset' # NULL
    BY <1>0, <1>5, Records DEF UpdateRow, Resetting, Go, Steps
  <2>2. Position(DEMO_UNSEEN) \in UIDs
    BY <1>5, PositionIs, DemoAssumption DEF UpdateRow, Resetting
  <2>3. row' \in Row /\ row' # NULL
    BY <1>5, <2>2, Records DEF UpdateRow, Row
  <2> QED
    BY <1>0, <1>5, <2>1, <2>3 DEF TypeOK, UpdateRow, Resetting
<1>6. CASE ForgetBookmarks
  <2>1. reset' \in Reset /\ reset' # NULL
    BY <1>0, <1>6, Records, DemoAssumption DEF ForgetBookmarks, Resetting, Steps
  <2> QED
    BY <1>0, <1>6, <2>1 DEF TypeOK, ForgetBookmarks, Resetting
<1>7. CASE RememberNext
  <2>1. reset.left \in Seq(Nat) /\ reset.left # <<>>
    BY <1>0, <1>7, Records DEF RememberNext, Resetting
  <2>2. /\ Head(reset.left) \in Nat /\ Tail(reset.left) \in Seq(Nat)
        /\ Head(reset.left) \in Range(reset.left)
    BY <2>1 DEF Range
  <2>3. reset' \in Reset /\ reset' # NULL
    BY <1>0, <1>7, <2>2, Records DEF RememberNext, Resetting
  <2>4. Position(Head(reset.left)) \in UIDs
    BY <1>7, <2>2, PositionIs DEF RememberNext, Resetting, ByTheList
  <2> QED
    BY <1>0, <1>7, <2>3, <2>4 DEF TypeOK, RememberNext, Resetting
<1>8. CASE ResetEnds
  BY <1>0, <1>8 DEF TypeOK, ResetEnds, Resetting
<1>9. CASE ResetFails
  BY <1>0, <1>9 DEF TypeOK, ResetFails, Resetting, Disturb
<1> QED
  BY <1>1, <1>2, <1>3, <1>4, <1>5, <1>6, <1>7, <1>8, <1>9 DEF reset_demo

LEMMA PageTyped == TypeOK /\ HandedOut /\ Page => TypeOK'
<1> SUFFICES ASSUME TypeOK, HandedOut, Page PROVE TypeOK'
  OBVIOUS
<1> USE DEF folders, mail, account, history, Disturb
<1>0. /\ \A uid \in generate_all : uid \in UIDs
      /\ UIDs \in SUBSET Nat
  BY Lists
<1>1. ASSUME NEW uid \in UIDs, See(uid) PROVE TypeOK'
  BY <1>1 DEF TypeOK, See
<1>2. CASE fetch_envelopes
  BY <1>1, <1>2, NewestListed DEF fetch_envelopes
<1>3. ASSUME NEW uid \in UIDs, search(uid) PROVE TypeOK'
  BY <1>1, <1>3 DEF search
<1>4. ASSUME NEW uid \in UIDs, set_watermark(uid) PROVE TypeOK'
  <2>1. row' \in Row /\ row' # NULL
    BY <1>4, Records DEF set_watermark, TypeOK
  <2> QED
    BY <1>4, <2>1 DEF TypeOK, set_watermark
<1>5. ASSUME NEW uid \in UIDs, Remember(uid) PROVE TypeOK'
  BY <1>5 DEF TypeOK, Remember
<1>6. ASSUME NEW uid \in UIDs, NEW folder \in Folders, FindMessage(uid, folder)
      PROVE  TypeOK'
  <2>1. [uid |-> uid, folder |-> folder, done |-> FALSE]
            \in [uid: UIDs, folder: Folders, done: BOOLEAN]
    OBVIOUS
  <2>2. moves' \in SUBSET [uid: UIDs, folder: Folders, done: BOOLEAN]
    BY <1>6, <2>1 DEF TypeOK, FindMessage
  <2> QED
    BY <1>6, <2>2 DEF TypeOK, FindMessage
<1>7. ASSUME NEW m \in moves, move_message(m) PROVE TypeOK'
  <2>1. m \in [uid: UIDs, folder: Folders, done: BOOLEAN]
    BY DEF TypeOK
  <2>2. /\ [uid |-> m.uid, folder |-> m.folder] \in [uid: UIDs, folder: Folders]
        /\ [m EXCEPT !.done = TRUE] \in [uid: UIDs, folder: Folders, done: BOOLEAN]
    BY <2>1
  <2>3. moved' \in Seq([uid: UIDs, folder: Folders])
    BY <1>7, <2>2, AppendProperties DEF TypeOK, move_message
  <2>4. moves' \in SUBSET [uid: UIDs, folder: Folders, done: BOOLEAN]
    BY <1>7, <2>2 DEF TypeOK, move_message
  <2> QED
    BY <1>7, <2>3, <2>4 DEF TypeOK, move_message
<1>8. ASSUME NEW m \in moves, ForgetMoved(m) PROVE TypeOK'
  <2>1. remembered' \in SUBSET remembered /\ moves' \in SUBSET moves
    BY <1>8 DEF ForgetMoved
  <2> QED
    BY <1>8, <2>1 DEF TypeOK, ForgetMoved
<1>9. ASSUME NEW i \in DOMAIN moved, restore_message(i) PROVE TypeOK'
  <2>1. moved' \in Seq([uid: UIDs, folder: Folders])
    BY <1>9, RemoveAtWas DEF TypeOK, restore_message
  <2> QED
    BY <1>9, <2>1 DEF TypeOK, restore_message
<1>10. CASE FirstListing
  BY <1>10 DEF TypeOK, FirstListing
<1>11. CASE FirstListed
  <2>1. row' \in Row /\ row' # NULL
    BY <1>11, Records DEF FirstListed, TypeOK, HandedOut
  <2> QED
    BY <1>11, <2>1 DEF TypeOK, FirstListed
<1>12. CASE Write
  <2>1. \/ drafts' = TRUE /\ UNCHANGED row
        \/ row' \in Row /\ row' # NULL /\ UNCHANGED drafts
    BY <1>12, Records DEF Write, TypeOK
  <2> QED
    BY <1>12, <2>1 DEF TypeOK, Write
<1>13. CASE send
  <2>1. sent' = sent + 1 /\ sent \in Nat /\ sent' \in 0..MaxSent
    BY <1>13, BoundsAssumption DEF send, TypeOK
  <2>2. outbox \in Seq(1..sent') /\ sent' \in 1..sent'
    <3>1. outbox \in Seq(1..sent) /\ 1..sent \in SUBSET (1..sent')
      BY <2>1 DEF TypeOK
    <3> QED
      BY <2>1, <3>1, SeqMonotonic
  <2>3. MakeRoom \in Seq(1..sent') /\ Len(MakeRoom) < OUTBOX_LIMIT
    <3>1. Len(outbox) \in Nat /\ Len(outbox) <= OUTBOX_LIMIT /\ OUTBOX_LIMIT \in Nat \ {0}
      BY <2>2, DemoAssumption DEF TypeOK
    <3>2. CASE Len(outbox) >= OUTBOX_LIMIT
      <4>1. outbox # <<>>
        BY <3>1, <3>2
      <4>2. Tail(outbox) \in Seq(1..sent') /\ Len(Tail(outbox)) = Len(outbox) - 1
        BY <2>2, <4>1, HeadTailProperties
      <4> QED
        BY <3>1, <3>2, <4>2 DEF MakeRoom
    <3>3. CASE ~(Len(outbox) >= OUTBOX_LIMIT)
      BY <2>2, <3>1, <3>3 DEF MakeRoom
    <3> QED
      BY <3>2, <3>3
  <2>4. outbox' \in Seq(1..sent') /\ Len(outbox') <= OUTBOX_LIMIT
    <3>1. outbox' = Append(MakeRoom, sent') /\ OUTBOX_LIMIT \in Nat
      BY <1>13, <2>1, DemoAssumption DEF send
    <3>2. /\ Append(MakeRoom, sent') \in Seq(1..sent')
          /\ Len(Append(MakeRoom, sent')) = Len(MakeRoom) + 1 /\ Len(MakeRoom) \in Nat
      BY <2>2, <2>3, AppendProperties, LenProperties
    <3> QED
      BY <2>3, <3>1, <3>2
  <2> QED
    BY <1>13, <2>1, <2>4 DEF TypeOK, send
<1> QED
  BY <1>2, <1>3, <1>4, <1>5, <1>6, <1>7, <1>8, <1>9, <1>10, <1>11, <1>12, <1>13 DEF Page

LEMMA DemoTyped == TypeOK /\ HandedOut /\ ByTheList /\ [Next]_vars => TypeOK'
<1> SUFFICES ASSUME TypeOK, HandedOut, ByTheList, [Next]_vars PROVE TypeOK'
  OBVIOUS
<1> USE DEF folders, mail, account, history
<1>1. ASSUME NEW email, NEW host, NEW password, Connect(email, host, password)
      PROVE  TypeOK'
  BY <1>1, Records DEF TypeOK, Connect
<1>2. CASE connect_demo
  <2>1. reset' \in Reset
    BY <1>2 DEF connect_demo, Reset, Steps
  <2>2. row' \in Row /\ row' # NULL
    BY <1>2, Records DEF connect_demo, TypeOK
  <2>3. start' \in {"clean", "over", "no"}
    BY <1>2 DEF connect_demo
  <2> QED
    BY <1>2, <2>1, <2>2, <2>3 DEF TypeOK, connect_demo
<1>3. CASE Arrive
  <2>1. arrival' \in Arrival
    BY <1>3 DEF Arrive, TypeOK, Arrival
  <2> QED
    BY <1>3, <2>1 DEF TypeOK, Arrive
<1>4. CASE Quit
  <2>1. /\ moved' \in Seq([uid: UIDs, folder: Folders]) /\ outbox' \in Seq(1..sent')
        /\ Len(outbox') <= OUTBOX_LIMIT /\ sent' \in 0..MaxSent
    BY <1>4, DemoAssumption, BoundsAssumption DEF Quit
  <2> QED
    BY <1>4, <2>1 DEF TypeOK, Quit
<1>5. CASE UNCHANGED vars
  BY <1>5 DEF TypeOK, vars
<1> QED
  BY <1>1, <1>2, <1>3, <1>4, <1>5, ResetTyped, PageTyped DEF Next

\* Nothing a list holds is newer than Newest.
LEMMA NewestIs ==
    ASSUME TypeOK, HandedOut
    PROVE  /\ Newest \in Nat /\ highest \in Nat
           /\ \A uid \in generate_all : uid <= Newest
           /\ arrival # NULL => Newest <= arrival.uid
           /\ arrival # NULL /\ ~arrival.here => Newest = arrival.uid - 1
           /\ arrival # NULL /\ arrival.here => Newest = arrival.uid
           /\ arrival = NULL => Newest = FIRST_ARRIVAL_UID - 1
<1>1. /\ FIRST_ARRIVAL_UID \in Nat \ {0} /\ MESSAGES \in Nat
      /\ arrival # NULL => arrival.uid \in Nat /\ arrival.uid >= FIRST_ARRIVAL_UID
      /\ highest \in Nat
  BY Lists, DemoAssumption DEF HandedOut, TypeOK
<1>2. Newest \in Nat
  BY <1>1 DEF Newest
<1>3. \A uid \in generated : uid \in Nat /\ uid <= FIRST_ARRIVAL_UID - 1
  BY <1>1, DemoAssumption DEF generated
<1>4. \A uid \in generated : uid <= Newest
  BY <1>1, <1>3 DEF Newest
<1>5. \A uid \in arrived : uid <= Newest
  BY <1>1 DEF Newest, arrived
<1>6. arrival # NULL => Newest <= arrival.uid
  BY <1>1 DEF Newest
<1> QED
  BY <1>1, <1>2, <1>4, <1>5, <1>6 DEF generate_all, Newest

LEMMA HandedOutKept == TypeOK /\ TypeOK' /\ HandedOut /\ [Next]_vars => HandedOut'
<1> SUFFICES ASSUME TypeOK, TypeOK', HandedOut, [Next]_vars PROVE HandedOut'
  OBVIOUS
<1> USE DEF folders, mail, account, history, Disturb
<1>0. /\ Newest \in Nat /\ highest \in Nat /\ highest <= Newest
      /\ \A uid \in generate : uid <= Newest /\ uid \in Nat
      /\ \A i \in DOMAIN moved : moved[i].uid <= highest
      /\ \A m \in moves : m.uid <= highest
      /\ FIRST_ARRIVAL_UID \in Nat
  BY NewestIs, Lists, DemoAssumption DEF HandedOut, generate
<1>1. ASSUME UNCHANGED <<arrival, highest>>, listing' => row' # NULL,
             \/ UNCHANGED reset
             \/ reset' = NULL
             \/ reset' # NULL /\ reset'.at \notin {"forget", "schedule"}
             \/ reset # NULL /\ reset.at = "forget",
             \A i \in DOMAIN moved' : moved'[i].uid <= highest,
             \A m \in moves' : m.uid <= highest
      PROVE  HandedOut'
  BY <1>1 DEF HandedOut, Newest, Resetting
<1>2. ASSUME NEW email, NEW host, NEW password, Connect(email, host, password)
      PROVE  HandedOut'
  BY <1>0, <1>1, <1>2, Records DEF Connect
<1>3. CASE connect_demo
  <2>1. row' # NULL
    BY <1>3, Records DEF connect_demo, TypeOK
  <2>2. arrival # NULL => arrival.uid < FIRST_ARRIVAL_UID + MaxOpenings - 1
    BY <1>3 DEF connect_demo
  <2> QED
    BY <1>3, <2>1, <2>2 DEF connect_demo, HandedOut, Newest
<1>4. CASE schedule_arrival
  <2>1. /\ arrival' # NULL /\ ~arrival'.here
        /\ arrival'.uid = IF arrival = NULL THEN FIRST_ARRIVAL_UID ELSE arrival.uid + 1
    BY <1>4, Scheduled
  <2>2. /\ arrival'.uid >= FIRST_ARRIVAL_UID
        /\ arrival'.uid - 1 >= Newest
    <3>1. CASE arrival = NULL
      BY <1>0, <2>1, <3>1 DEF Newest
    <3>2. CASE arrival # NULL
      <4>1. arrival.uid \in Nat /\ arrival.uid >= FIRST_ARRIVAL_UID /\ Newest <= arrival.uid
        BY <3>2, Lists, NewestIs DEF HandedOut
      <4> QED
        BY <1>0, <2>1, <3>2, <4>1
    <3> QED
      BY <3>1, <3>2
  <2>3. arrival'.uid \in Nat
    <3>1. arrival' \in Arrival /\ UIDs \in SUBSET Nat
      BY <1>4, Scheduled, Lists
    <3> QED
      BY <3>1 DEF Arrival
  <2>4. Newest' = arrival'.uid - 1 /\ highest <= Newest'
    BY <1>0, <2>1, <2>2, <2>3 DEF Newest
  <2>5. /\ reset' # NULL => reset'.at = "drafts"
        /\ UNCHANGED <<highest, moved, moves, listing, row>>
    <3>1. reset \in Reset
      BY <1>4 DEF schedule_arrival, Resetting, TypeOK
    <3> QED
      BY <1>4, <3>1 DEF schedule_arrival, Go, Reset
  <2>6. \A i \in DOMAIN moved' : moved'[i].uid <= highest'
    BY <1>0, <2>5
  <2>7. (\A m \in moves' : m.uid <= highest') /\ (listing' => row' # NULL)
    BY <1>0, <2>5 DEF HandedOut
  <2> QED
    BY <2>1, <2>2, <2>4, <2>5, <2>6, <2>7 DEF HandedOut, Resetting
<1>5. CASE reset_demo /\ ~schedule_arrival
  <2>1. UNCHANGED <<arrival, highest, moves, listing>> /\ (moved' = <<>> \/ UNCHANGED moved)
    BY <1>5 DEF reset_demo, forget_moves, delete_all, ReadEnvelopes, UpdateRow, ForgetBookmarks,
                RememberNext, ResetEnds, ResetFails
  <2>2. row' # NULL
    <3>1. reset # NULL /\ row # NULL
      BY <1>5 DEF reset_demo, forget_moves, delete_all, ReadEnvelopes, UpdateRow,
                  ForgetBookmarks, RememberNext, ResetEnds, ResetFails, Resetting, TypeOK
    <3>2. UpdateRow => row' # NULL
      <4>1. UpdateRow => row' \in Row
        <5>1. UpdateRow => Position(DEMO_UNSEEN) \in UIDs
          BY PositionIs, DemoAssumption DEF UpdateRow, Resetting
        <5> QED
          BY <5>1 DEF UpdateRow, Row
      <4> QED
        BY <4>1, Records
    <3> QED
      BY <1>5, <3>1, <3>2 DEF reset_demo, forget_moves, delete_all, ReadEnvelopes,
                  ForgetBookmarks, RememberNext, ResetEnds, ResetFails
  <2>3. \/ reset' = NULL
        \/ reset' # NULL /\ reset'.at \notin {"forget", "schedule"}
        \/ reset # NULL /\ reset.at = "forget"
    <3>1. reset # NULL => reset \in Reset
      BY DEF TypeOK
    <3>2. reset' # NULL => reset' \in Reset
      BY DEF TypeOK
    <3> QED
      BY <1>5, <3>1, <3>2 DEF reset_demo, forget_moves, delete_all, ReadEnvelopes, UpdateRow,
           ForgetBookmarks, RememberNext, ResetEnds, ResetFails, Resetting, Go, Reset
  <2>4. \A i \in DOMAIN moved' : moved'[i].uid <= highest
    BY <1>0, <2>1
  <2> QED
    BY <1>0, <1>1, <2>1, <2>2, <2>3, <2>4
<1>6. CASE Arrive
  <2>1. /\ arrival \in Arrival /\ arrival # NULL /\ ~arrival.here
        /\ arrival' = [arrival EXCEPT !.here = TRUE]
        /\ UNCHANGED <<highest, moved, moves, listing, row, reset>>
    BY <1>6, Lists DEF Arrive
  <2>2. arrival' \in Arrival /\ arrival' # NULL /\ arrival'.here /\ arrival'.uid = arrival.uid
    <3>1. arrival' \in Arrival /\ arrival'.here /\ arrival'.uid = arrival.uid
      BY <2>1 DEF Arrival
    <3> QED
      BY <3>1, Records
  <2>3. Newest' = arrival.uid /\ highest <= arrival.uid
    <3>1. Newest <= arrival.uid /\ arrival.uid \in Nat
      BY <2>1, NewestIs, Lists
    <3> QED
      BY <1>0, <2>2, <3>1 DEF Newest
  <2> QED
    BY <2>1, <2>2, <2>3 DEF HandedOut, Resetting
<1>7. CASE Quit
  <2>1. /\ moved' = <<>> /\ moves' = {} /\ arrival' = NULL /\ reset' = NULL /\ ~listing'
        /\ highest' = 0
    BY <1>7 DEF Quit
  <2> QED
    BY <2>1, DemoAssumption DEF HandedOut, Newest, Resetting
<1>8. CASE Page
  <2>1. ASSUME NEW uid \in generate, See(uid) PROVE HandedOut'
    <3>1. highest' \in Nat /\ highest <= highest' /\ highest' <= Newest
      BY <1>0, <2>1 DEF See
    <3>2. (\A i \in DOMAIN moved : moved[i].uid \in Nat) /\ \A m \in moves : m.uid \in Nat
      <4>1. UIDs \in SUBSET Nat
        BY Lists
      <4>2. \A i \in DOMAIN moved : moved[i] \in [uid: UIDs, folder: Folders]
        <5>1. moved \in Seq([uid: UIDs, folder: Folders])
          BY DEF TypeOK
        <5> QED
          BY <5>1, LenProperties, ElementOfSeq
      <4>3. \A m \in moves : m \in [uid: UIDs, folder: Folders, done: BOOLEAN]
        BY DEF TypeOK
      <4> QED
        BY <4>1, <4>2, <4>3
    <3>3. \A i \in DOMAIN moved : moved[i].uid <= highest'
      BY <1>0, <3>1, <3>2
    <3>4. \A m \in moves : m.uid <= highest'
      BY <1>0, <3>1, <3>2
    <3> QED
      BY <2>1, <3>1, <3>3, <3>4 DEF See, HandedOut, Newest, Resetting
  <2>2. CASE fetch_envelopes
    BY <2>1, <2>2, NewestListed DEF fetch_envelopes
  <2>3. ASSUME NEW uid \in UIDs, search(uid) PROVE HandedOut'
    BY <2>1, <2>3 DEF search
  <2>4. ASSUME NEW uid \in UIDs, set_watermark(uid) PROVE HandedOut'
    <3>1. row' # NULL
      BY <2>4, Records DEF set_watermark, TypeOK
    <3> QED
      BY <1>0, <1>1, <2>4, <3>1 DEF set_watermark
  <2>5. ASSUME NEW uid \in UIDs, Remember(uid) PROVE HandedOut'
    BY <1>0, <1>1, <2>5 DEF Remember
  <2>6. ASSUME NEW uid \in UIDs, NEW folder \in Folders, FindMessage(uid, folder)
        PROVE  HandedOut'
    <3>1. \A m \in moves' : m.uid <= highest
      BY <1>0, <2>6 DEF FindMessage
    <3> QED
      BY <1>0, <1>1, <2>6, <3>1 DEF FindMessage, HandedOut
  <2>7. ASSUME NEW m \in moves, move_message(m) PROVE HandedOut'
    <3>1. m \in [uid: UIDs, folder: Folders, done: BOOLEAN]
      BY DEF TypeOK
    <3>2. \A k \in moves' : k.uid <= highest
      BY <1>0, <2>7, <3>1 DEF move_message
    <3>3. \A i \in DOMAIN moved' : moved'[i].uid <= highest
      <4> DEFINE new == [uid |-> m.uid, folder |-> m.folder]
      <4>1. moved' = Append(moved, new) /\ moved \in Seq([uid: UIDs, folder: Folders])
        BY <2>7 DEF move_message, TypeOK
      <4>2. new \in [uid: UIDs, folder: Folders] /\ new.uid <= highest
        BY <1>0, <3>1
      <4> HIDE DEF new
      <4>3. /\ DOMAIN moved' = 1..Len(moved) + 1 /\ DOMAIN moved = 1..Len(moved)
            /\ Len(moved) \in Nat
            /\ \A i \in 1..Len(moved) : moved'[i] = moved[i]
            /\ moved'[Len(moved) + 1] = new
        BY <4>1, <4>2
      <4>4. \A i \in 1..Len(moved) + 1 : i \in 1..Len(moved) \/ i = Len(moved) + 1
        BY <4>3
      <4> QED
        BY <1>0, <4>2, <4>3, <4>4
    <3> QED
      BY <1>0, <1>1, <2>7, <3>2, <3>3 DEF move_message, HandedOut
  <2>8. ASSUME NEW m \in moves, ForgetMoved(m) PROVE HandedOut'
    BY <1>0, <1>1, <2>8 DEF ForgetMoved, HandedOut
  <2>9. ASSUME NEW i \in DOMAIN moved, restore_message(i) PROVE HandedOut'
    <3>1. \A k \in DOMAIN moved' : \E j \in DOMAIN moved : moved'[k] = moved[j]
      BY <2>9, RemoveAtWas DEF restore_message, TypeOK
    <3>2. \A k \in DOMAIN moved' : moved'[k].uid <= highest
      BY <1>0, <3>1
    <3> QED
      BY <1>0, <1>1, <2>9, <3>2 DEF restore_message, HandedOut
  <2>10. CASE FirstListing
    BY <1>0, <1>1, <2>10 DEF FirstListing
  <2>11. CASE FirstListed
    BY <1>0, <1>1, <2>11 DEF FirstListed
  <2>12. CASE Write
    <3>1. row' # NULL
      BY <2>12, Records DEF Write, TypeOK
    <3> QED
      BY <1>0, <1>1, <2>12, <3>1 DEF Write
  <2>13. CASE send
    BY <1>0, <1>1, <2>13 DEF send, HandedOut
  <2> QED
    BY <1>8, <2>2, <2>3, <2>4, <2>5, <2>6, <2>7, <2>8, <2>9, <2>10, <2>11, <2>12, <2>13
       DEF Page
<1>9. CASE UNCHANGED vars
  BY <1>0, <1>1, <1>9 DEF vars, HandedOut
<1> QED
  BY <1>2, <1>3, <1>4, <1>5, <1>6, <1>7, <1>8, <1>9 DEF Next

LEMMA ByTheListKept == TypeOK /\ TypeOK' /\ HandedOut /\ ByTheList /\ [Next]_vars => ByTheList'
<1> SUFFICES ASSUME TypeOK, TypeOK', HandedOut, ByTheList, [Next]_vars PROVE ByTheList'
  OBVIOUS
<1> USE DEF folders, mail, account, history, Disturb
<1>0. (reset # NULL => reset \in Reset) /\ (reset' # NULL => reset' \in Reset)
  BY DEF TypeOK
<1>1. ASSUME UNCHANGED <<arrival, reset>> PROVE ByTheList'
  BY <1>1 DEF ByTheList, generated
<1>2. CASE Page
  BY <1>1, <1>2 DEF Page, fetch_envelopes, search, See, set_watermark, Remember, FindMessage,
       move_message, ForgetMoved, restore_message, FirstListing, FirstListed, Write, send
<1>3. ASSUME NEW email, NEW host, NEW password, Connect(email, host, password)
      PROVE  ByTheList'
  BY <1>1, <1>3 DEF Connect
<1>4. CASE connect_demo
  BY <1>4 DEF connect_demo, ByTheList
<1>5. CASE Arrive
  <2>1. /\ arrival # NULL /\ arrival' # NULL /\ arrival'.uid = arrival.uid
        /\ UNCHANGED reset
    BY <1>5, Lists, Records DEF Arrive, Arrival
  <2> QED
    BY <2>1 DEF ByTheList, generated
<1>6. CASE Quit
  BY <1>6 DEF Quit, ByTheList
<1>7. CASE forget_moves
  BY <1>0, <1>7 DEF forget_moves, Resetting, Go, ByTheList, Reset
<1>8. CASE schedule_arrival
  BY <1>0, <1>8, Scheduled DEF schedule_arrival, Resetting, Go, ByTheList, Reset
<1>9. CASE delete_all
  BY <1>0, <1>9 DEF delete_all, Resetting, Go, ByTheList, Reset
<1>10. CASE ReadEnvelopes
  <2>1. generate \in SUBSET (generated \union {arrival.uid}) /\ arrival # NULL
    BY <1>10 DEF ReadEnvelopes, Resetting, ByTheList, generate, generate_all, arrived
  <2>2. reset' # NULL => reset'.at = "update" /\ reset'.envelopes = generate
    BY <1>0, <1>10 DEF ReadEnvelopes, Resetting, Reset
  <2> QED
    BY <1>10, <2>1, <2>2 DEF ReadEnvelopes, ByTheList, generated
<1>11. CASE UpdateRow
  <2>1. reset' # NULL => reset'.at = "clear" /\ reset'.envelopes = reset.envelopes
    BY <1>0, <1>11 DEF UpdateRow, Resetting, Go, Reset
  <2> QED
    BY <1>11, <2>1 DEF UpdateRow, Resetting, ByTheList, generated
<1>12. CASE ForgetBookmarks
  <2>1. reset' # NULL =>
            /\ reset'.at = "remember" /\ reset'.envelopes = reset.envelopes
            /\ reset'.left = DEMO_REMEMBERED
    BY <1>0, <1>12 DEF ForgetBookmarks, Resetting, Reset
  <2> QED
    BY <1>12, <2>1 DEF ForgetBookmarks, Resetting, ByTheList, generated
<1>13. CASE RememberNext
  <2>1. reset' # NULL =>
            /\ reset'.at = "remember" /\ reset'.envelopes = reset.envelopes
            /\ reset'.left = Tail(reset.left)
    BY <1>0, <1>13 DEF RememberNext, Resetting, Reset
  <2>2. Range(Tail(reset.left)) \in SUBSET Range(reset.left)
    <3>1. reset.left \in Seq(Nat) /\ reset.left # <<>>
      BY <1>0, <1>13, Records DEF RememberNext, Resetting
    <3>2. \A i \in DOMAIN Tail(reset.left) :
              i + 1 \in DOMAIN reset.left /\ Tail(reset.left)[i] = reset.left[i + 1]
      BY <3>1
    <3> QED
      BY <3>2 DEF Range
  <2> QED
    BY <1>13, <2>1, <2>2 DEF RememberNext, Resetting, ByTheList, generated
<1>14. CASE ResetEnds
  BY <1>14 DEF ResetEnds, ByTheList
<1>15. CASE ResetFails
  BY <1>15 DEF ResetFails, ByTheList
<1>16. CASE UNCHANGED vars
  BY <1>1, <1>16 DEF vars
<1> QED
  BY <1>2, <1>3, <1>4, <1>5, <1>6, <1>7, <1>8, <1>9, <1>10, <1>11, <1>12, <1>13, <1>14,
     <1>15, <1>16 DEF Next, reset_demo

\* The marker the reset sets has a newer message above it in the list.
LEMMA MarkerSet ==
    ASSUME TypeOK, HandedOut, ByTheList, UpdateRow
    PROVE  /\ arrival # NULL /\ Position(DEMO_UNSEEN) < arrival.uid
           /\ row' # NULL /\ row'.watermark = Position(DEMO_UNSEEN)
           /\ reset \in Reset /\ reset.at = "update" /\ Position(DEMO_UNSEEN) \in UIDs
<1>1. /\ reset # NULL /\ reset \in Reset /\ reset.at = "update" /\ Reaches(DEMO_UNSEEN)
      /\ DEMO_UNSEEN \in Nat /\ DEMO_UNSEEN > 0
  BY DemoAssumption DEF UpdateRow, Resetting, TypeOK
<1>2. /\ arrival # NULL
      /\ reset.envelopes \in SUBSET (generated \union {arrival.uid})
  BY <1>1 DEF ByTheList
<1>3. /\ reset.envelopes \in SUBSET UIDs /\ reset.envelopes \in SUBSET Nat
      /\ IsFiniteSet(reset.envelopes)
  BY <1>1, Records, Lists, FS_Subset
<1>4. Place(reset.envelopes, Position(DEMO_UNSEEN)) = DEMO_UNSEEN
  BY <1>1, <1>3, ListedIs DEF Position, Reaches
<1>5. Newer(reset.envelopes, Position(DEMO_UNSEEN)) # {}
  BY <1>1, <1>4, FS_EmptySet DEF Place
<1>6. PICK uid \in reset.envelopes : uid > Position(DEMO_UNSEEN)
  BY <1>5 DEF Newer
<1>7. arrival.uid \in Nat /\ uid <= arrival.uid /\ uid \in Nat
  BY <1>2, <1>3, Lists
<1>8. Position(DEMO_UNSEEN) \in UIDs /\ UIDs \in SUBSET Nat
  BY <1>1, PositionIs, Lists
<1>9. Position(DEMO_UNSEEN) < arrival.uid
  <2>1. Position(DEMO_UNSEEN) \in Nat
    BY <1>8
  <2> QED
    BY <1>6, <1>7, <2>1
<1>10. row' \in Row /\ row'.watermark = Position(DEMO_UNSEEN)
  BY <1>8 DEF UpdateRow, Row
<1> QED
  BY <1>1, <1>2, <1>8, <1>9, <1>10, Records

LEMMA MarkerBelowKept ==
    TypeOK /\ TypeOK' /\ HandedOut /\ ByTheList /\ MarkerBelow /\ [Next]_vars => MarkerBelow'
<1> SUFFICES ASSUME TypeOK, TypeOK', HandedOut, ByTheList, MarkerBelow, [Next]_vars,
                    opened'
             PROVE  /\ arrival' # NULL /\ row' # NULL
                    /\ row'.watermark < arrival'.uid \/ row'.watermark <= highest'
  BY DEF MarkerBelow
<1> USE DEF folders, mail, account, history, Disturb
<1>0. highest \in Nat /\ \A uid \in UIDs : uid \in Nat
  BY Lists DEF TypeOK
<1>1. ASSUME UNCHANGED opened
      PROVE  /\ arrival # NULL /\ arrival.uid \in Nat /\ row \in Row /\ row # NULL
             /\ row.watermark \in Nat
             /\ row.watermark < arrival.uid \/ row.watermark <= highest
  <2>1. opened
    BY <1>1, Zenon
  <2>2. /\ arrival # NULL /\ row # NULL
        /\ row.watermark < arrival.uid \/ row.watermark <= highest
    BY <2>1 DEF MarkerBelow
  <2>3. row \in Row /\ row.watermark \in UIDs \union {0}
    BY <2>2 DEF TypeOK, Row
  <2> QED
    BY <1>0, <2>2, <2>3, Lists
<1>2. ASSUME UNCHANGED opened, UNCHANGED arrival, row' # NULL,
             highest' >= highest, highest' \in Nat,
             row'.watermark = row.watermark \/ row'.watermark \in 0..highest
      PROVE  /\ arrival' # NULL /\ row' # NULL
             /\ row'.watermark < arrival'.uid \/ row'.watermark <= highest'
  <2>1. /\ arrival' # NULL /\ arrival'.uid = arrival.uid /\ row.watermark \in Nat
        /\ row.watermark < arrival.uid \/ row.watermark <= highest
    BY <1>1, <1>2
  <2>2. row.watermark <= highest => row.watermark <= highest'
    BY <1>0, <1>2, <2>1
  <2>3. row'.watermark \in 0..highest => row'.watermark <= highest'
    BY <1>0, <1>2
  <2> QED
    BY <1>2, <2>1, <2>2, <2>3
<1>17. ASSUME UNCHANGED <<arrival, row, opened, highest>>
      PROVE  /\ arrival' # NULL /\ row' # NULL
             /\ row'.watermark < arrival'.uid \/ row'.watermark <= highest'
  BY <1>0, <1>1, <1>2, <1>17
<1>3. CASE UpdateRow
  BY <1>3, MarkerSet DEF UpdateRow
<1>4. CASE schedule_arrival
  <2>1. UNCHANGED opened /\ UNCHANGED <<row, highest>>
    BY <1>4 DEF schedule_arrival
  <2>2. arrival' # NULL /\ arrival'.uid = arrival.uid + 1
    BY <1>1, <1>4, <2>1, Scheduled
  <2>3. /\ arrival.uid \in Nat /\ row.watermark \in Nat
        /\ row.watermark < arrival.uid \/ row.watermark <= highest
    BY <1>1, <2>1
  <2>4. row' # NULL /\ row'.watermark = row.watermark /\ highest' = highest
    BY <1>1, <2>1
  <2>5. row.watermark < arrival.uid => row.watermark < arrival.uid + 1
    BY <2>3
  <2> QED
    BY <2>2, <2>3, <2>4, <2>5
<1>5. CASE reset_demo /\ ~UpdateRow /\ ~schedule_arrival
  <2>1. UNCHANGED <<arrival, row, opened, highest>>
    BY <1>5 DEF reset_demo, forget_moves, delete_all, ReadEnvelopes, ForgetBookmarks,
         RememberNext, ResetEnds, ResetFails
  <2> QED
    BY <1>17, <2>1
<1>6. CASE Arrive
  <2>1. UNCHANGED opened /\ UNCHANGED <<row, highest>>
    BY <1>6 DEF Arrive
  <2>2. arrival' # NULL /\ arrival'.uid = arrival.uid
    BY <1>6, Lists, Records DEF Arrive, Arrival
  <2> QED
    BY <1>0, <1>1, <2>1, <2>2
<1>7. CASE Quit
  BY <1>7 DEF Quit
<1>8. ASSUME NEW email, NEW host, NEW password, Connect(email, host, password)
      PROVE  FALSE
  BY <1>1, <1>8 DEF Connect
<1>9. CASE connect_demo
  <2>1. UNCHANGED opened /\ UNCHANGED <<arrival, highest>>
    BY <1>9 DEF connect_demo
  <2>2. UNCHANGED row
    BY <1>1, <1>9, <2>1 DEF connect_demo
  <2> QED
    BY <1>17, <2>1, <2>2
<1>10. ASSUME NEW uid \in UIDs, See(uid)
      PROVE  /\ arrival' # NULL /\ row' # NULL
             /\ row'.watermark < arrival'.uid \/ row'.watermark <= highest'
  <2>1. UNCHANGED opened /\ UNCHANGED <<arrival, row>>
    BY <1>10 DEF See
  <2>2. highest' >= highest /\ highest' \in Nat
    BY <1>0, <1>10 DEF See
  <2> QED
    BY <1>1, <1>2, <2>1, <2>2
<1>11. CASE fetch_envelopes
  BY <1>10, <1>11, NewestListed DEF fetch_envelopes
<1>12. ASSUME NEW uid \in UIDs, search(uid)
      PROVE  /\ arrival' # NULL /\ row' # NULL
             /\ row'.watermark < arrival'.uid \/ row'.watermark <= highest'
  BY <1>10, <1>12 DEF search
<1>13. ASSUME NEW uid \in UIDs, set_watermark(uid)
      PROVE  /\ arrival' # NULL /\ row' # NULL
             /\ row'.watermark < arrival'.uid \/ row'.watermark <= highest'
  <2>1. UNCHANGED opened /\ UNCHANGED <<arrival, highest>> /\ uid <= highest
        /\ row' = [row EXCEPT !.watermark = uid, !.last_open = "later"]
    BY <1>13 DEF set_watermark
  <2>2. row \in Row
    BY <1>1, <2>1
  <2>3. row' \in Row /\ row'.watermark = uid
    BY <2>1, <2>2 DEF Row
  <2>4. row' # NULL
    BY <2>3, Records
  <2>5. uid \in 0..highest /\ highest' >= highest /\ highest' \in Nat
    BY <1>0, <2>1
  <2> QED
    BY <1>2, <2>1, <2>3, <2>4, <2>5
<1>14. CASE FirstListed \/ Write
  <2>1. UNCHANGED opened /\ UNCHANGED <<arrival, highest>>
    BY <1>14 DEF FirstListed, Write
  <2>2. row \in Row
    BY <1>1, <2>1
  <2>3. row'.watermark = row.watermark /\ row' # NULL
    <3>1. \/ UNCHANGED row /\ row # NULL
          \/ row' = [row EXCEPT !.last_open = "later"]
          \/ row' = [row EXCEPT !.signed = TRUE]
      BY <1>1, <1>14, <2>1 DEF FirstListed, Write
    <3>2. row' \in Row /\ row'.watermark = row.watermark
      BY <2>2, <3>1 DEF Row
    <3> QED
      BY <3>2, Records
  <2>4. highest' >= highest /\ highest' \in Nat
    BY <1>0, <2>1
  <2> QED
    BY <1>2, <2>1, <2>3, <2>4
<1>15. CASE Page /\ ~FirstListed /\ ~Write
  <2>1. ASSUME NEW uid \in UIDs, NEW folder \in Folders, FindMessage(uid, folder)
        PROVE UNCHANGED <<arrival, row, opened, highest>>
    BY <2>1 DEF FindMessage
  <2>2. ASSUME NEW uid \in UIDs, Remember(uid) PROVE UNCHANGED <<arrival, row, opened, highest>>
    BY <2>2 DEF Remember
  <2>3. ASSUME NEW m \in moves, move_message(m) \/ ForgetMoved(m)
        PROVE UNCHANGED <<arrival, row, opened, highest>>
    BY <2>3 DEF move_message, ForgetMoved
  <2>4. ASSUME NEW i \in DOMAIN moved, restore_message(i)
        PROVE UNCHANGED <<arrival, row, opened, highest>>
    BY <2>4 DEF restore_message
  <2>5. ASSUME FirstListing \/ send PROVE UNCHANGED <<arrival, row, opened, highest>>
    BY <2>5 DEF FirstListing, send
  <2> QED
    BY <1>17, <1>11, <1>12, <1>13, <1>15, <2>1, <2>2, <2>3, <2>4, <2>5 DEF Page
<1>16. CASE UNCHANGED vars
  BY <1>17, <1>16 DEF vars
<1> QED
  BY <1>3, <1>4, <1>5, <1>6, <1>7, <1>8, <1>9, <1>14, <1>15, <1>16 DEF Next

\* A list that was whole stays whole when the arrival's time has come.
LEMMA WholeKept ==
    ASSUME TypeOK, HandedOut, NEW messages, Whole(messages),
           UNCHANGED arrival \/ Arrive
    PROVE  Whole(messages)'
<1>1. CASE UNCHANGED arrival
  BY <1>1 DEF Whole, generated, generate_all, arrived
<1>2. CASE Arrive
  <2>1. arrived = {}
    BY <1>2 DEF Arrive, arrived
  <2> QED
    BY <2>1 DEF Whole, generate_all, generated
<1> QED
  BY <1>1, <1>2

\* A step of the reset takes one position from those left.
LEMMA RangeOfTail ==
    ASSUME NEW S, NEW s \in Seq(S), s # <<>>
    PROVE  Range(s) = Range(Tail(s)) \union {Head(s)}
<1>1. /\ DOMAIN s = 1..Len(s) /\ Len(s) \in Nat \ {0} /\ Head(s) = s[1]
      /\ Tail(s) \in Seq(S) /\ Len(Tail(s)) = Len(s) - 1
      /\ \A i \in 1..(Len(s) - 1) : Tail(s)[i] = s[i + 1]
  OBVIOUS
<1>2. DOMAIN Tail(s) = 1..(Len(s) - 1)
  BY <1>1
<1>3. ASSUME NEW i \in DOMAIN s PROVE s[i] \in Range(Tail(s)) \union {Head(s)}
  <2>1. CASE i = 1
    BY <1>1, <2>1
  <2>2. CASE i # 1
    <3>1. i - 1 \in DOMAIN Tail(s) /\ Tail(s)[i - 1] = s[i]
      BY <1>1, <1>2, <2>2
    <3> QED
      BY <3>1 DEF Range
  <2> QED
    BY <2>1, <2>2
<1>4. ASSUME NEW i \in DOMAIN Tail(s) PROVE Tail(s)[i] \in Range(s)
  <2>1. i + 1 \in DOMAIN s /\ Tail(s)[i] = s[i + 1]
    BY <1>1, <1>2
  <2> QED
    BY <2>1 DEF Range
<1>5. Head(s) \in Range(s)
  <2>1. 1 \in DOMAIN s
    BY <1>1
  <2> QED
    BY <1>1, <2>1 DEF Range
<1>6. Range(s) \subseteq Range(Tail(s)) \union {Head(s)}
  BY <1>3 DEF Range
<1>7. Range(Tail(s)) \subseteq Range(s)
  BY <1>4 DEF Range
<1> QED
  BY <1>5, <1>6, <1>7

LEMMA SofarKept == TypeOK /\ TypeOK' /\ HandedOut /\ Sofar /\ [Next]_vars => Sofar'
<1> DEFINE Clean ==
        /\ reset # NULL
        /\ reset.at # "forget" => moved = <<>>
        /\ reset.at \notin {"forget", "schedule", "drafts"} => ~drafts
        /\ reset.at \in {"update", "clear", "remember"} => Whole(reset.envelopes)
        /\ reset.at \in {"clear", "remember"} => RowBy(reset.envelopes)
        /\ reset.at = "remember" =>
               remembered \union Bookmarks(reset.envelopes, reset.left)
                   = Bookmarks(reset.envelopes, DEMO_REMEMBERED)
<1> SUFFICES ASSUME TypeOK, TypeOK', HandedOut, Sofar, [Next]_vars, start' = "clean"
             PROVE  Clean'
  BY DEF Sofar
<1> USE DEF folders, mail, account, history, Disturb
<1>0. (reset # NULL => reset \in Reset) /\ (reset' # NULL => reset' \in Reset)
  BY DEF TypeOK
<1>1. ASSUME UNCHANGED start PROVE Clean /\ reset \in Reset
  BY <1>0, <1>1 DEF Sofar
<1>2. ASSUME UNCHANGED <<row, reset, moved, remembered, drafts, start>>,
             UNCHANGED arrival \/ Arrive
      PROVE  Clean'
  <2>1. Clean
    BY <1>1, <1>2
  <2>2. reset.at \in {"update", "clear", "remember"} => Whole(reset.envelopes)'
    BY <1>2, <2>1, WholeKept
  <2> QED
    BY <1>2, <2>1, <2>2 DEF RowBy, Whole
<1>3. ASSUME NEW email, NEW host, NEW password, Connect(email, host, password)
      PROVE  FALSE
  BY <1>1, <1>3 DEF Connect, TypeOK
<1>4. CASE connect_demo
  <2>1. reset' # NULL /\ reset'.at = "forget"
    <3>1. reset' \in Reset /\ reset'.at = "forget"
      BY <1>4 DEF connect_demo, Reset, Steps
    <3> QED
      BY <3>1, Records
  <2> QED
    BY <2>1
<1>5. CASE Arrive
  BY <1>2, <1>5 DEF Arrive
<1>6. CASE Quit
  BY <1>6 DEF Quit
<1>7. CASE Page
  <2>1. CASE fetch_envelopes
    BY <1>2, <2>1 DEF fetch_envelopes, See
  <2>2. ASSUME NEW uid \in UIDs, search(uid) PROVE Clean'
    BY <1>2, <2>2 DEF search, See
  <2>3. CASE send
    BY <1>2, <2>3 DEF send
  <2>4. ASSUME NEW uid \in UIDs, set_watermark(uid) \/ Remember(uid) PROVE FALSE
    BY <2>4 DEF set_watermark, Remember
  <2>5. ASSUME NEW uid \in UIDs, NEW folder \in Folders, FindMessage(uid, folder) PROVE FALSE
    BY <2>5 DEF FindMessage
  <2>6. ASSUME NEW m \in moves, move_message(m) \/ ForgetMoved(m) PROVE FALSE
    BY <2>6 DEF move_message, ForgetMoved
  <2>7. ASSUME NEW i \in DOMAIN moved, restore_message(i) PROVE FALSE
    BY <2>7 DEF restore_message
  <2>8. ~FirstListing /\ ~FirstListed /\ ~Write
    BY DEF FirstListing, FirstListed, Write
  <2> QED
    BY <1>7, <2>1, <2>2, <2>3, <2>4, <2>5, <2>6, <2>7, <2>8 DEF Page
<1>8. CASE forget_moves
  <2>1. /\ reset'= [reset EXCEPT !.at = "schedule"] /\ moved' = <<>> /\ Clean
        /\ reset \in Reset
    BY <1>1, <1>8 DEF forget_moves, Go
  <2>2. reset' \in Reset /\ reset'.at = "schedule"
    BY <2>1 DEF Reset, Steps
  <2> QED
    BY <2>1, <2>2, Records
<1>9. CASE schedule_arrival
  <2>1. /\ reset'= [reset EXCEPT !.at = "drafts"] /\ moved' = <<>> /\ reset \in Reset
    BY <1>1, <1>9 DEF schedule_arrival, Go, Resetting
  <2>2. reset' \in Reset /\ reset'.at = "drafts"
    BY <2>1 DEF Reset, Steps
  <2> QED
    BY <2>1, <2>2, Records
<1>10. CASE delete_all
  <2>1. /\ reset'= [reset EXCEPT !.at = "envelopes"] /\ moved' = <<>> /\ ~drafts'
        /\ reset \in Reset
    BY <1>1, <1>10 DEF delete_all, Go, Resetting
  <2>2. reset' \in Reset /\ reset'.at = "envelopes"
    BY <2>1 DEF Reset, Steps
  <2> QED
    BY <2>1, <2>2, Records
<1>11. CASE ReadEnvelopes
  <2>1. /\ reset'= [reset EXCEPT !.at = "update", !.envelopes = generate]
        /\ moved = <<>> /\ ~drafts /\ reset \in Reset /\ UNCHANGED <<moved, drafts, arrival>>
    BY <1>1, <1>11 DEF ReadEnvelopes, Resetting
  <2>2. reset'.at = "update" /\ reset'.envelopes = generate /\ reset' # NULL
    <3>1. reset'.at = "update" /\ reset'.envelopes = generate
      BY <2>1 DEF Reset
    <3>2. generate \in SUBSET UIDs
      BY Lists DEF generate
    <3> QED
      BY <2>1, <3>1, <3>2, Records DEF Steps
  <2>3. Whole(generate)
    BY <2>1 DEF Whole, generate, is_moved
  <2>4. Whole(generate)'
    BY <2>1, <2>3 DEF Whole, generate, generate_all, generated, arrived, is_moved
  <2>5. Whole(reset.envelopes)'
    BY <2>1, <2>2, <2>3 DEF Whole, generate_all, generated, arrived
  <2> QED
    BY <2>1, <2>2, <2>5
<1>12. CASE UpdateRow
  <2>1. /\ reset'= [reset EXCEPT !.at = "clear"] /\ Reaches(DEMO_UNSEEN)
        /\ moved = <<>> /\ ~drafts /\ reset \in Reset /\ Whole(reset.envelopes)
        /\ UNCHANGED <<moved, drafts, arrival>>
        /\ row' = [watermark |-> Position(DEMO_UNSEEN), last_open |-> "start",
                   signed |-> FALSE]
    BY <1>1, <1>12 DEF UpdateRow, Resetting, Go
  <2>2. reset'.at = "clear" /\ reset'.envelopes = reset.envelopes /\ reset' # NULL
    <3>1. reset'.at = "clear" /\ reset'.envelopes = reset.envelopes
      BY <2>1 DEF Reset
    <3> QED
      BY <2>1, <3>1, Records DEF Steps
  <2>3. Whole(reset.envelopes)'
    BY <2>1, <2>2 DEF Whole, generate_all, generated, arrived
  <2>4. RowBy(reset.envelopes)'
    BY <2>1, <2>2 DEF RowBy, Reaches, Position
  <2> QED
    BY <2>1, <2>2, <2>3, <2>4
<1>13. CASE ForgetBookmarks
  <2>1. /\ reset' = [reset EXCEPT !.at = "remember", !.left = DEMO_REMEMBERED]
        /\ moved = <<>> /\ ~drafts /\ reset \in Reset /\ Whole(reset.envelopes)
        /\ RowBy(reset.envelopes) /\ remembered' = {}
        /\ UNCHANGED <<moved, drafts, arrival, row>>
    BY <1>1, <1>13 DEF ForgetBookmarks, Resetting
  <2>2. /\ reset'.at = "remember" /\ reset'.envelopes = reset.envelopes /\ reset' # NULL
        /\ reset'.left = DEMO_REMEMBERED
    <3>1. /\ reset'.at = "remember" /\ reset'.envelopes = reset.envelopes
          /\ reset'.left = DEMO_REMEMBERED
      BY <2>1 DEF Reset
    <3> QED
      BY <2>1, <3>1, Records, DemoAssumption DEF Steps
  <2>3. Whole(reset.envelopes)' /\ RowBy(reset.envelopes)'
    BY <2>1, <2>2 DEF Whole, generate_all, generated, arrived, RowBy
  <2> QED
    BY <2>1, <2>2, <2>3 DEF Bookmarks
<1>14. CASE RememberNext
  <2>1. /\ reset' = [reset EXCEPT !.left = Tail(@)] /\ reset.at = "remember"
        /\ moved = <<>> /\ ~drafts /\ reset \in Reset /\ Whole(reset.envelopes)
        /\ RowBy(reset.envelopes) /\ reset.left # <<>>
        /\ remembered' = remembered \union {Listed(reset.envelopes, Head(reset.left))}
        /\ remembered \union Bookmarks(reset.envelopes, reset.left)
                   = Bookmarks(reset.envelopes, DEMO_REMEMBERED)
        /\ UNCHANGED <<moved, drafts, arrival, row>>
    BY <1>1, <1>14 DEF RememberNext, Resetting, Position
  <2>2. reset.left \in Seq(Nat) /\ Tail(reset.left) \in Seq(Nat)
    BY <2>1, Records, HeadTailProperties
  <2>3. /\ reset'.at = "remember" /\ reset'.envelopes = reset.envelopes /\ reset' # NULL
        /\ reset'.left = Tail(reset.left)
    <3>1. /\ reset'.at = "remember" /\ reset'.envelopes = reset.envelopes
          /\ reset'.left = Tail(reset.left)
      BY <2>1 DEF Reset
    <3> QED
      BY <2>1, <2>2, <3>1, Records
  <2>4. Whole(reset.envelopes)' /\ RowBy(reset.envelopes)'
    BY <2>1, <2>3 DEF Whole, generate_all, generated, arrived, RowBy
  <2>5. Range(reset.left) = Range(Tail(reset.left)) \union {Head(reset.left)}
    BY <2>1, <2>2, RangeOfTail
  <2>6. remembered' \union Bookmarks(reset'.envelopes, reset'.left)
            = Bookmarks(reset'.envelopes, DEMO_REMEMBERED)
    <3>1. Bookmarks(reset.envelopes, reset.left)
              = Bookmarks(reset.envelopes, Tail(reset.left))
                    \union {Listed(reset.envelopes, Head(reset.left))}
      BY <2>5 DEF Bookmarks
    <3> QED
      BY <2>1, <2>3, <3>1
  <2> QED
    BY <2>1, <2>3, <2>4, <2>6 DEF Bookmarks
<1>15. CASE ResetEnds \/ ResetFails
  BY <1>15 DEF ResetEnds, ResetFails
<1>16. CASE UNCHANGED vars
  BY <1>2, <1>16 DEF vars
<1> QED
  BY <1>3, <1>4, <1>5, <1>6, <1>7, <1>8, <1>9, <1>10, <1>11, <1>12, <1>13, <1>14, <1>15,
     <1>16 DEF Next, reset_demo

LEMMA OverKept ==
    TypeOK /\ TypeOK' /\ HandedOut /\ ByTheList /\ Sofar /\ Over /\ [Next]_vars => Over'
<1> DEFINE Done(messages) == /\ Whole(messages) /\ RowBy(messages)
                             /\ remembered = Bookmarks(messages, DEMO_REMEMBERED)
<1> SUFFICES ASSUME TypeOK, TypeOK', HandedOut, ByTheList, Sofar, Over, [Next]_vars,
                    start' = "over"
             PROVE  /\ reset' = NULL /\ moved' = <<>> /\ ~drafts'
                    /\ \E messages \in SUBSET UIDs : Done(messages)'
  BY DEF Over, UIDs
<1> USE DEF folders, mail, account, history, Disturb
<1>1. ASSUME UNCHANGED start
      PROVE  /\ reset = NULL /\ moved = <<>> /\ ~drafts
             /\ \E messages \in SUBSET UIDs : Done(messages)
  BY <1>1 DEF Over
<1>2. ASSUME UNCHANGED <<row, reset, moved, remembered, drafts, start>>,
             UNCHANGED arrival \/ Arrive
      PROVE  /\ reset' = NULL /\ moved' = <<>> /\ ~drafts'
             /\ \E messages \in SUBSET UIDs : Done(messages)'
  <2>1. PICK messages \in SUBSET UIDs : Done(messages)
    BY <1>1, <1>2
  <2>2. Whole(messages)'
    BY <1>2, <2>1, WholeKept
  <2>3. Done(messages)'
    BY <1>2, <2>1, <2>2 DEF RowBy, Bookmarks
  <2> QED
    BY <1>1, <1>2, <2>3
<1>3. ASSUME NEW email, NEW host, NEW password, Connect(email, host, password)
      PROVE  FALSE
  <2>1. PICK messages \in SUBSET UIDs : Done(messages)
    BY <1>1, <1>3 DEF Connect
  <2>2. IsFiniteSet(messages) /\ messages \in SUBSET Nat /\ DEMO_UNSEEN \in Nat
    BY Lists, FS_Subset, DemoAssumption
  <2>3. Listed(messages, DEMO_UNSEEN) \in UIDs
    BY <2>1, <2>2, ListedIs DEF RowBy
  <2>4. row \in Row
    BY <2>1, <2>3 DEF RowBy, Row
  <2> QED
    BY <1>3, <2>4, Records DEF Connect
<1>4. CASE connect_demo
  BY <1>4 DEF connect_demo
<1>5. CASE Arrive
  BY <1>2, <1>5 DEF Arrive
<1>6. CASE Quit
  BY <1>6 DEF Quit
<1>7. CASE Page
  <2>1. CASE fetch_envelopes
    BY <1>2, <2>1 DEF fetch_envelopes, See
  <2>2. ASSUME NEW uid \in UIDs, search(uid)
        PROVE  /\ reset' = NULL /\ moved' = <<>> /\ ~drafts'
               /\ \E messages \in SUBSET UIDs : Done(messages)'
    BY <1>2, <2>2 DEF search, See
  <2>3. CASE send
    BY <1>2, <2>3 DEF send
  <2>4. ASSUME NEW uid \in UIDs, set_watermark(uid) \/ Remember(uid) PROVE FALSE
    BY <2>4 DEF set_watermark, Remember
  <2>5. ASSUME NEW uid \in UIDs, NEW folder \in Folders, FindMessage(uid, folder) PROVE FALSE
    BY <2>5 DEF FindMessage
  <2>6. ASSUME NEW m \in moves, move_message(m) \/ ForgetMoved(m) PROVE FALSE
    BY <2>6 DEF move_message, ForgetMoved
  <2>7. ASSUME NEW i \in DOMAIN moved, restore_message(i) PROVE FALSE
    BY <2>7 DEF restore_message
  <2>8. ~FirstListing /\ ~FirstListed /\ ~Write
    BY DEF FirstListing, FirstListed, Write
  <2> QED
    BY <1>7, <2>1, <2>2, <2>3, <2>4, <2>5, <2>6, <2>7, <2>8 DEF Page
<1>8. CASE ResetEnds
  <2>1. start = "clean" /\ reset # NULL /\ reset.at = "remember" /\ reset.left = <<>>
    BY <1>8 DEF ResetEnds, Resetting
  <2>2. /\ moved = <<>> /\ ~drafts /\ Whole(reset.envelopes) /\ RowBy(reset.envelopes)
        /\ remembered \union Bookmarks(reset.envelopes, reset.left)
               = Bookmarks(reset.envelopes, DEMO_REMEMBERED)
    BY <2>1 DEF Sofar
  <2>3. Bookmarks(reset.envelopes, reset.left) = {}
    <3>1. Range(reset.left) = {}
      BY <2>1 DEF Range
    <3> QED
      BY <3>1 DEF Bookmarks
  <2>4. reset.envelopes \in SUBSET UIDs
    BY <2>1, Records DEF TypeOK
  <2>5. UNCHANGED <<row, moved, remembered, drafts, arrival>> /\ reset' = NULL
    BY <1>8 DEF ResetEnds
  <2>6. Whole(reset.envelopes) /\ RowBy(reset.envelopes)
        /\ remembered = Bookmarks(reset.envelopes, DEMO_REMEMBERED)
    BY <2>2, <2>3
  <2> DEFINE list == reset.envelopes
  <2>7. PICK messages \in SUBSET UIDs : Done(messages)
    BY <2>4, <2>6
  <2>8. Done(messages)'
    BY <2>5, <2>7, WholeKept DEF RowBy, Bookmarks
  <2> QED
    BY <2>2, <2>5, <2>8
<1>9. CASE reset_demo /\ ~ResetEnds
  <2>1. reset # NULL /\ (UNCHANGED start \/ start' = "no")
    BY <1>9 DEF reset_demo, forget_moves, schedule_arrival, delete_all, ReadEnvelopes,
         UpdateRow, ForgetBookmarks, RememberNext, ResetFails, Resetting
  <2> QED
    BY <1>1, <2>1
<1>10. CASE UNCHANGED vars
  BY <1>2, <1>10 DEF vars
<1> QED
  BY <1>3, <1>4, <1>5, <1>6, <1>7, <1>8, <1>9, <1>10 DEF Next

\* The arrival is above every UID handed out, moved or marked.
LEMMA ArrivalUnseen == TypeOK /\ HandedOut /\ MarkerBelow => ArrivalIsNew
<1> SUFFICES ASSUME TypeOK, HandedOut, MarkerBelow,
                    arrival # NULL, arrival.here => arrival.uid > highest
             PROVE  /\ arrival.uid > highest
                    /\ ~is_moved(arrival.uid)
                    /\ arrival.here => Listed(generate, 0) = arrival.uid
                    /\ opened => row.watermark < arrival.uid
  BY DEF ArrivalIsNew
<1>1. /\ arrival \in Arrival /\ arrival.uid \in Nat /\ highest \in Nat /\ Newest \in Nat
      /\ arrival.here \in BOOLEAN /\ highest <= Newest
      /\ ~arrival.here => Newest = arrival.uid - 1
      /\ arrival.here => Newest = arrival.uid
      /\ \A uid \in generate_all : uid <= Newest
      /\ UIDs \in SUBSET Nat
  BY Lists, NewestIs DEF HandedOut
<1>2. arrival.uid > highest
  BY <1>1
<1>3. ~is_moved(arrival.uid)
  <2>1. ASSUME NEW i \in DOMAIN moved PROVE moved[i].uid # arrival.uid
    <3>1. moved[i].uid <= highest
      BY <2>1 DEF HandedOut
    <3> QED
      BY <1>1, <1>2, <3>1
  <2> QED
    BY <2>1 DEF is_moved
<1>4. ASSUME arrival.here PROVE Listed(generate, 0) = arrival.uid
  <2>1. arrival.uid \in generate
    BY <1>3, <1>4 DEF generate, generate_all, arrived
  <2>2. /\ Listed(generate, 0) \in generate_all /\ Listed(generate, 0) \in Nat
        /\ arrival.uid <= Listed(generate, 0)
    BY <1>1, <2>1, NewestListed DEF generate
  <2>3. Listed(generate, 0) <= arrival.uid
    BY <1>1, <1>4, <2>2
  <2> QED
    BY <1>1, <2>2, <2>3
<1>5. ASSUME opened PROVE row.watermark < arrival.uid
  <2>1. row # NULL /\ (row.watermark < arrival.uid \/ row.watermark <= highest)
    BY <1>5 DEF MarkerBelow
  <2>2. row \in Row /\ row.watermark \in UIDs \union {0}
    BY <2>1 DEF TypeOK, Row
  <2>3. row.watermark \in Nat
    <3>1. UIDs \union {0} \in SUBSET Nat
      BY <1>1
    <3> QED
      BY <2>2, <3>1
  <2> QED
    BY <1>1, <1>2, <2>1, <2>3
<1> QED
  BY <1>2, <1>3, <1>4, <1>5

-----------------------------------------------------------------------------
(* Theorems *)

\* The invariant holds in every state of every behaviour.
THEOREM DemoInvariant == Spec => []DemoInv
<1>1. DemoInv /\ [Next]_vars => DemoInv'
  BY DemoTyped, HandedOutKept, ByTheListKept, MarkerBelowKept, SofarKept, OverKept DEF DemoInv
<1> QED
  BY DemoStarts, <1>1, PTL DEF Spec

\* Every variable keeps its type: the outbox never holds more than its limit,
\* and without a row there are no bookmarks, no drafts and no reset (send,
\* reset_demo, connect_demo).
THEOREM DemoWellTyped == Spec => []TypeOK
<1>1. DemoInv => TypeOK
  BY DEF DemoInv
<1> QED
  BY <1>1, DemoInvariant, PTL

\* However often the demo is opened, whatever was moved, marked or listed
\* meanwhile: until it is listed, the message that arrives is above every UID a
\* page has seen, not hidden by a move and not below the marker, and it is the
\* first of the list (schedule_arrival, reset_demo, generate).
THEOREM DemoArrivalIsNew == Spec => []ArrivalIsNew
<1>1. DemoInv => ArrivalIsNew
  BY ArrivalUnseen DEF DemoInv
<1> QED
  BY <1>1, DemoInvariant, PTL

\* An opening nothing interferes with ends in the starting state, whatever an
\* earlier one that failed between two statements left behind, and whether or
\* not the message arrives while it runs (connect_demo, reset_demo).
THEOREM DemoStartsOver == Spec => []StartsOver
<1>1. DemoInv => StartsOver
  BY OverIsStart DEF DemoInv
<1> QED
  BY <1>1, DemoInvariant, PTL

=============================================================================
