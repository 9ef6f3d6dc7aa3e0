--------------------------- MODULE ReadingProofs ---------------------------
(***************************************************************************)
(* Reading is well typed; what is saved is what was listed, and nothing is *)
(* replaced; what was moved is listed where it was moved to.               *)
(*                                                                         *)
(* Each save that has created a file is alone with it (SavesApart).  While *)
(* the app alone makes folders, every request at work knows where its kind *)
(* is found, every row a page lists is at its place or gone (AsFound), and *)
(* every message that was moved is in the folder its kind is found as      *)
(* (MovedInPlace): a created archive carries no mark and a name no other   *)
(* kind is looked for under, so that no other place changes.               *)
(***************************************************************************)
EXTENDS Reading, FiniteSetTheorems, WellFoundedInduction, TLAPS

-----------------------------------------------------------------------------
(* Saving attachments *)

\* Saves that have a file of their own, written half or not at all
Busy(r) == Saving(r, "write") \/ Saving(r, "remove")

FilesTyped ==
    /\ DOMAIN files \subseteq Names
    /\ saving \in [Requests -> Save(Messages) \union {NULL}]

\* Each has the one it created: nobody was told of it, no other save has it or
\* has left it.
SavesApart ==
    /\ left \subseteq DOMAIN files
    /\ \A r \in Requests :
           Busy(r) => /\ Path(r) \in DOMAIN files \ left
                      /\ \A t \in told : t.path # Path(r)
    /\ \A r, q \in Requests : Busy(r) /\ Busy(q) /\ Path(r) = Path(q) => r = q

DownloadsInv == FilesTyped /\ SavesApart /\ NothingReplaced

LEMMA SaveFields ==
    /\ NULL \notin Save(Messages)
    /\ \A save \in Save(Messages) :
           /\ save.at \in {"open", "write", "remove"} /\ save.name \in Names
           /\ save.copy \in 0 .. MAX_COPIES - 1 /\ save.copy \in Nat
           /\ save.data \in Messages /\ save.asked \in Messages
           /\ candidate(save.name, save.copy) \in Names
<1>1. MAX_COPIES \in Nat
  BY CopiesAssumption
<1>2. ASSUME NEW save \in Save(Messages)
      PROVE  /\ save.at \in {"open", "write", "remove"} /\ save.name \in Names
             /\ save.copy \in 0 .. MAX_COPIES - 1 /\ save.copy \in Nat
             /\ save.data \in Messages /\ save.asked \in Messages
  BY <1>1 DEF Save
<1>3. ASSUME NEW name \in Names, NEW copy \in 0 .. MAX_COPIES - 1
      PROVE  candidate(name, copy) \in Names
  <2>1. CASE copy = 0
    BY <2>1 DEF candidate
  <2>2. CASE copy # 0
    <3>1. copy \in 1..MAX_COPIES /\ name.copies \in Seq(1..MAX_COPIES)
      BY <1>1, <2>2 DEF Names
    <3>2. Append(name.copies, copy) \in Seq(1..MAX_COPIES)
      BY <3>1
    <3> QED
      BY <2>2, <3>2 DEF candidate, Names
  <2> QED
    BY <2>1, <2>2
<1> QED
  BY <1>2, <1>3, ApartAssumption

\* A step of one save changes what it says itself.
LEMMA SavingStep ==
    ASSUME FilesTyped, NEW r \in Requests, NEW save \in Save(Messages) \union {NULL},
           saving' = [saving EXCEPT ![r] = save]
    PROVE  /\ saving' \in [Requests -> Save(Messages) \union {NULL}]
           /\ saving'[r] = save /\ \A q \in Requests : q # r => saving'[q] = saving[q]
           /\ \A q \in Requests : q # r => (Busy(q)' <=> Busy(q)) /\ Path(q)' = Path(q)
<1>1. saving \in [Requests -> Save(Messages) \union {NULL}]
  BY DEF FilesTyped
<1>2. /\ saving' \in [Requests -> Save(Messages) \union {NULL}] /\ saving'[r] = save
      /\ \A q \in Requests : q # r => saving'[q] = saving[q]
  BY <1>1
<1> QED
  BY <1>2 DEF Busy, Saving, Path

\* Whoever starts one has no file yet.
LEMMA StartKeeps ==
    ASSUME DownloadsInv, NEW r \in Requests, NEW name \in Names, NEW data \in Messages,
           NEW asked \in Messages, saving[r] = NULL, StartSave(r, name, data, asked),
           UNCHANGED <<files, told, left>>
    PROVE  DownloadsInv'
<1> DEFINE save == [at |-> "open", name |-> safe_filename(name), copy |-> 0,
                    data |-> data, asked |-> asked]
<1>1. safe_filename(name) \in Names
  BY DEF safe_filename, Names
<1>2. save \in Save(Messages)
  BY <1>1, CopiesAssumption DEF Save
<1>3. saving' = [saving EXCEPT ![r] = save] /\ save.at = "open"
  BY DEF StartSave
<1> HIDE DEF save
<1>4. /\ FilesTyped' /\ saving'[r] = save
      /\ \A q \in Requests : q # r => (Busy(q)' <=> Busy(q)) /\ Path(q)' = Path(q)
  BY <1>2, <1>3, SavingStep DEF DownloadsInv, FilesTyped
<1>5. ~Busy(r) /\ ~Busy(r)'
  BY <1>3, <1>4 DEF Busy, Saving
<1>6. SavesApart'
  BY <1>4, <1>5 DEF DownloadsInv, SavesApart
<1>7. NothingReplaced'
  BY <1>4, <1>5 DEF DownloadsInv, NothingReplaced, Writing, Busy
<1> QED
  BY <1>4, <1>6, <1>7 DEF DownloadsInv

\* A save that has no file, before and after, changes nothing about them.
LEMMA IdleKeeps ==
    ASSUME DownloadsInv, NEW r \in Requests, NEW save \in Save(Messages) \union {NULL},
           saving' = [saving EXCEPT ![r] = save], UNCHANGED <<files, told, left>>,
           ~Busy(r), save # NULL => save.at = "open"
    PROVE  DownloadsInv'
<1>1. /\ FilesTyped' /\ saving'[r] = save
      /\ \A q \in Requests : q # r => (Busy(q)' <=> Busy(q)) /\ Path(q)' = Path(q)
  BY SavingStep DEF DownloadsInv, FilesTyped
<1>2. ~Busy(r)'
  BY <1>1 DEF Busy, Saving
<1>3. SavesApart'
  BY <1>1, <1>2 DEF DownloadsInv, SavesApart
<1>4. NothingReplaced'
  BY <1>1, <1>2 DEF DownloadsInv, NothingReplaced, Writing, Busy
<1> QED
  BY <1>1, <1>3, <1>4 DEF DownloadsInv

LEMMA SaveKeeps ==
    ASSUME DownloadsInv, NEW r \in Requests, SaveNew(r)
    PROVE  DownloadsInv'
<1>0. /\ saving[r] # NULL /\ saving[r] \in Save(Messages) /\ Path(r) \in Names
      /\ NULL \notin Save(Messages) /\ MAX_COPIES \in Nat
  <2>1. saving[r] # NULL
    BY DEF SaveNew, CreateNew, NextName, SaveFails, WriteAll, WriteFails, RemoveHalf, Saving
  <2> QED
    BY <2>1, SaveFields, CopiesAssumption DEF DownloadsInv, FilesTyped, Path
<1>1. CASE CreateNew(r)
  <2> DEFINE save == [saving[r] EXCEPT !.at = "write"]
  <2>1. save \in Save(Messages) /\ save # NULL
    BY <1>0 DEF Save
  <2>2. save.at = "write" /\ save.name = saving[r].name /\ save.copy = saving[r].copy
    BY <1>0 DEF Save
  <2>3. saving' = [saving EXCEPT ![r] = save]
    BY <1>1 DEF CreateNew
  <2> HIDE DEF save
  <2>4. /\ saving' \in [Requests -> Save(Messages) \union {NULL}] /\ saving'[r] = save
        /\ \A q \in Requests : q # r => (Busy(q)' <=> Busy(q)) /\ Path(q)' = Path(q)
    BY <2>1, <2>3, SavingStep DEF DownloadsInv
  <2>5. Busy(r)' /\ Path(r)' = Path(r) /\ ~Busy(r)
    BY <1>1, <2>1, <2>2, <2>4 DEF Busy, Saving, Path, CreateNew
  <2>6. /\ Path(r) \notin DOMAIN files /\ DOMAIN files' = DOMAIN files \union {Path(r)}
        /\ \A p \in DOMAIN files : files'[p] = files[p]
        /\ told' = told /\ left' = left
    BY <1>1 DEF CreateNew, Put, Half
  <2>7. FilesTyped'
    BY <1>0, <2>4, <2>6 DEF DownloadsInv, FilesTyped
  <2>8. SavesApart'
    <3>1. ASSUME NEW q \in Requests, Busy(q)'
          PROVE  /\ Path(q)' \in DOMAIN files' /\ \A t \in told' : t.path # Path(q)'
                 /\ Path(q)' \notin left'
                 /\ q = r \/ (Busy(q) /\ Path(q)' = Path(q) /\ Path(q) \in DOMAIN files)
      <4>1. CASE q = r
        BY <2>5, <2>6, <4>1 DEF DownloadsInv, NothingReplaced, SavesApart
      <4>2. CASE q # r
        BY <2>4, <2>6, <3>1, <4>2 DEF DownloadsInv, SavesApart
      <4> QED
        BY <4>1, <4>2
    <3>2. ASSUME NEW p \in Requests, NEW q \in Requests, Busy(p)', Busy(q)',
                 Path(p)' = Path(q)'
          PROVE  p = q
      BY <2>5, <2>6, <3>1, <3>2 DEF DownloadsInv, SavesApart
    <3>3. left' \subseteq DOMAIN files'
      BY <2>6 DEF DownloadsInv, SavesApart
    <3> QED
      BY <3>1, <3>2, <3>3 DEF SavesApart
  <2>9. NothingReplaced'
    <3>1. \A t \in told' : t.path \in DOMAIN files'
                         /\ files'[t.path] = [data |-> t.data, whole |-> TRUE]
      BY <2>6 DEF DownloadsInv, NothingReplaced
    <3>2. ASSUME NEW path \in DOMAIN files'
          PROVE  \/ (\E t \in told' : t.path = path) \/ path \in left'
                 \/ \E q \in Requests : Busy(q)' /\ Path(q)' = path
      BY <2>4, <2>5, <2>6, <3>2 DEF DownloadsInv, NothingReplaced, Writing, Busy
    <3> QED
      BY <3>1, <3>2 DEF NothingReplaced, Writing, Busy
  <2> QED
    BY <2>7, <2>8, <2>9 DEF DownloadsInv
<1>2. CASE NextName(r)
  <2> DEFINE save == [saving[r] EXCEPT !.copy = @ + 1]
  <2>1. saving[r].copy + 1 \in 0 .. MAX_COPIES - 1 /\ saving[r].at = "open"
    BY <1>0, <1>2, SaveFields DEF NextName, More, Saving
  <2>2. save \in Save(Messages) /\ save.at = "open"
    BY <1>0, <2>1 DEF Save
  <2>3. saving' = [saving EXCEPT ![r] = save] /\ UNCHANGED <<files, told, left>> /\ ~Busy(r)
    BY <1>2, <2>1 DEF NextName, Busy, Saving
  <2> QED
    BY <2>2, <2>3, IdleKeeps
<1>3. CASE SaveFails(r)
  <2>1. saving' = [saving EXCEPT ![r] = NULL] /\ UNCHANGED <<files, told, left>> /\ ~Busy(r)
    BY <1>3 DEF SaveFails, Done, Busy, Saving
  <2> QED
    BY <2>1, IdleKeeps
<1>4. CASE WriteAll(r) \/ RemoveHalf(r)
  <2>1. saving' = [saving EXCEPT ![r] = NULL] /\ Busy(r)
    BY <1>4 DEF WriteAll, RemoveHalf, Done, Busy
  <2>2. /\ saving' \in [Requests -> Save(Messages) \union {NULL}] /\ saving'[r] = NULL
        /\ \A q \in Requests : q # r => (Busy(q)' <=> Busy(q)) /\ Path(q)' = Path(q)
    BY <2>1, SavingStep DEF DownloadsInv
  <2>3. ~Busy(r)'
    BY <2>2 DEF Busy, Saving
  <2>4. /\ Path(r) \in DOMAIN files /\ \A t \in told : t.path # Path(r)
        /\ Path(r) \notin left /\ left \subseteq DOMAIN files
        /\ \A q \in Requests : q # r /\ Busy(q) => Path(q) # Path(r)
    BY <2>1 DEF DownloadsInv, SavesApart
  <2>5. CASE WriteAll(r)
    <3> DEFINE new == [path |-> Path(r), data |-> saving[r].data, asked |-> saving[r].asked]
    <3>1. /\ DOMAIN files' = DOMAIN files /\ told' = told \union {new} /\ left' = left
          /\ files'[Path(r)] = [data |-> new.data, whole |-> TRUE]
          /\ \A p \in DOMAIN files : p # Path(r) => files'[p] = files[p]
      <4> DEFINE data == [data |-> saving[r].data, whole |-> TRUE]
      <4>1. files' = Put(Path(r), data) /\ told' = told \union {new}
        BY <2>5 DEF WriteAll
      <4>3. left' = left
        BY <2>5 DEF WriteAll
      <4> HIDE DEF data
      <4>2. /\ DOMAIN files' = DOMAIN files \union {Path(r)} /\ files'[Path(r)] = data
            /\ \A p \in DOMAIN files : p # Path(r) => files'[p] = files[p]
        BY <4>1 DEF Put
      <4> QED
        BY <2>4, <4>1, <4>2, <4>3 DEF data
    <3>2. new.path = Path(r)
      OBVIOUS
    <3> HIDE DEF new
    <3>3. FilesTyped'
      BY <2>2, <3>1 DEF DownloadsInv, FilesTyped
    <3>4. SavesApart'
      BY <2>2, <2>3, <2>4, <3>1, <3>2 DEF DownloadsInv, SavesApart
    <3>5. NothingReplaced'
      <4>1. \A t \in told' : t.path \in DOMAIN files'
                           /\ files'[t.path] = [data |-> t.data, whole |-> TRUE]
        BY <2>4, <3>1, <3>2 DEF DownloadsInv, NothingReplaced
      <4>2. ASSUME NEW path \in DOMAIN files'
            PROVE  \/ (\E t \in told' : t.path = path) \/ path \in left'
                   \/ \E q \in Requests : Busy(q)' /\ Path(q)' = path
        BY <2>2, <2>3, <3>1, <3>2, <4>2 DEF DownloadsInv, NothingReplaced, Writing, Busy
      <4> QED
        BY <4>1, <4>2 DEF NothingReplaced, Writing, Busy
    <3> QED
      BY <3>3, <3>4, <3>5 DEF DownloadsInv
  <2>6. CASE RemoveHalf(r)
    <3>1. /\ told' = told
          /\ \/ DOMAIN files' = DOMAIN files \ {Path(r)} /\ left' = left
             \/ DOMAIN files' = DOMAIN files /\ left' = left \union {Path(r)}
          /\ \A p \in DOMAIN files : p # Path(r) => files'[p] = files[p]
      <4>1. CASE files' = Without(Path(r)) /\ left' = left
        BY <2>6, <4>1 DEF RemoveHalf, Without
      <4>2. CASE left' = left \union {Path(r)} /\ files' = files
        BY <2>6, <4>2 DEF RemoveHalf
      <4> QED
        BY <2>6, <4>1, <4>2 DEF RemoveHalf
    <3>3. FilesTyped'
      BY <2>2, <3>1 DEF DownloadsInv, FilesTyped
    <3>4. SavesApart'
      BY <2>2, <2>3, <2>4, <3>1 DEF DownloadsInv, SavesApart
    <3>5. NothingReplaced'
      <4>1. \A t \in told' : t.path \in DOMAIN files'
                           /\ files'[t.path] = [data |-> t.data, whole |-> TRUE]
        BY <2>4, <3>1 DEF DownloadsInv, NothingReplaced
      <4>2. ASSUME NEW path \in DOMAIN files'
            PROVE  \/ (\E t \in told' : t.path = path) \/ path \in left'
                   \/ \E q \in Requests : Busy(q)' /\ Path(q)' = path
        BY <2>2, <2>3, <2>4, <3>1, <4>2 DEF DownloadsInv, NothingReplaced, Writing, Busy
      <4> QED
        BY <4>1, <4>2 DEF NothingReplaced, Writing, Busy
    <3> QED
      BY <3>3, <3>4, <3>5 DEF DownloadsInv
  <2> QED
    BY <1>4, <2>5, <2>6
<1>5. CASE WriteFails(r)
  <2> DEFINE save == [saving[r] EXCEPT !.at = "remove"]
  <2>1. save \in Save(Messages) /\ save # NULL
    BY <1>0 DEF Save
  <2>2. save.at = "remove" /\ save.name = saving[r].name /\ save.copy = saving[r].copy
    BY <1>0 DEF Save
  <2>3. saving' = [saving EXCEPT ![r] = save] /\ UNCHANGED <<files, told, left>>
    BY <1>5 DEF WriteFails
  <2> HIDE DEF save
  <2>4. /\ saving' \in [Requests -> Save(Messages) \union {NULL}] /\ saving'[r] = save
        /\ \A q \in Requests : q # r => (Busy(q)' <=> Busy(q)) /\ Path(q)' = Path(q)
    BY <2>1, <2>3, SavingStep DEF DownloadsInv
  <2>5. Busy(r)' /\ Path(r)' = Path(r) /\ Busy(r)
    BY <1>5, <2>1, <2>2, <2>4 DEF Busy, Saving, Path, WriteFails
  <2>6. \A q \in Requests : (Busy(q)' <=> Busy(q)) /\ Path(q)' = Path(q)
    BY <2>4, <2>5
  <2>7. FilesTyped' /\ SavesApart'
    BY <2>3, <2>4, <2>6 DEF DownloadsInv, FilesTyped, SavesApart
  <2>8. NothingReplaced'
    BY <2>3, <2>6 DEF DownloadsInv, NothingReplaced, Writing, Busy
  <2> QED
    BY <2>7, <2>8 DEF DownloadsInv
<1> QED
  BY <1>1, <1>2, <1>3, <1>4, <1>5 DEF SaveNew

\* Other programs' files come where there is none and go where one is known.
LEMMA ForeignKeeps ==
    ASSUME DownloadsInv, NEW path \in Foreigns, ForeignWrites(path) \/ ForeignDeletes(path)
    PROVE  DownloadsInv'
<1>0. saving' = saving /\ path \in Names
  BY OthersAssumption DEF ForeignWrites, ForeignDeletes
<1>1. \A q \in Requests : (Busy(q)' <=> Busy(q)) /\ Path(q)' = Path(q)
  BY <1>0 DEF Busy, Saving, Path
<1>2. CASE ForeignWrites(path)
  <2> DEFINE new == [path |-> path, data |-> Foreign, asked |-> Foreign]
  <2>1. /\ path \notin DOMAIN files /\ DOMAIN files' = DOMAIN files \union {path}
        /\ files'[path] = [data |-> new.data, whole |-> TRUE]
        /\ \A p \in DOMAIN files : files'[p] = files[p]
        /\ told' = told \union {new} /\ new.path = path /\ left' = left
    <3> DEFINE data == [data |-> Foreign, whole |-> TRUE]
    <3>1. /\ files' = Put(path, data) /\ told' = told \union {new}
          /\ path \notin DOMAIN files /\ left' = left
      BY <1>2 DEF ForeignWrites
    <3> HIDE DEF data
    <3>2. /\ DOMAIN files' = DOMAIN files \union {path} /\ files'[path] = data
          /\ \A p \in DOMAIN files : p # path => files'[p] = files[p]
      BY <3>1 DEF Put
    <3> QED
      BY <3>1, <3>2 DEF data
  <2> HIDE DEF new
  <2>2. FilesTyped' /\ SavesApart'
    BY <1>0, <1>1, <2>1 DEF DownloadsInv, FilesTyped, SavesApart
  <2>3. NothingReplaced'
    BY <1>1, <2>1 DEF DownloadsInv, NothingReplaced, Writing, Busy
  <2> QED
    BY <2>2, <2>3 DEF DownloadsInv
<1>3. CASE ForeignDeletes(path)
  <2>1. /\ DOMAIN files' = DOMAIN files \ {path} /\ told' = {t \in told : t.path # path}
        /\ \A p \in DOMAIN files : p # path => files'[p] = files[p]
        /\ left' = left \ {path}
        /\ path \in left \/ \E t \in told : t.path = path
    BY <1>3 DEF ForeignDeletes, Without
  <2>2. FilesTyped' /\ SavesApart'
    BY <1>0, <1>1, <2>1 DEF DownloadsInv, FilesTyped, SavesApart
  <2>3. NothingReplaced'
    BY <1>1, <2>1 DEF DownloadsInv, NothingReplaced, Writing, Busy
  <2> QED
    BY <2>2, <2>3 DEF DownloadsInv
<1> QED
  BY <1>2, <1>3

-----------------------------------------------------------------------------
(* Which folder is meant *)

LEMMA MinIsFirst ==
    ASSUME NEW S \in SUBSET Nat, S # {}
    PROVE  Min(S) \in S /\ \A y \in S : Min(S) <= y
<1>1. PICK x \in S : \A y \in S : <<y, x>> \notin OpToRel(<, Nat)
  BY NatLessThanWellFounded, WFMin
<1>2. \A y \in S : ~(y < x)
  BY <1>1 DEF OpToRel
<1>3. \A y \in S : x <= y
  BY <1>2
<1> QED
  BY <1>3 DEF Min

LEMMA KindsAre ==
    /\ DOMAIN Kinds = 1..5
    /\ Kinds[1] = "Sent" /\ Kinds[2] = "Drafts" /\ Kinds[3] = "Archive"
    /\ Kinds[4] = "Trash" /\ Kinds[5] = "Junk"
    /\ Range(Kinds) = {"Sent", "Drafts", "Archive", "Trash", "Junk"}
<1>1. /\ DOMAIN Kinds = 1..5
      /\ Kinds[1] = "Sent" /\ Kinds[2] = "Drafts" /\ Kinds[3] = "Archive"
      /\ Kinds[4] = "Trash" /\ Kinds[5] = "Junk"
  BY DEF Kinds
<1>2. \A i \in 1..5 : i = 1 \/ i = 2 \/ i = 3 \/ i = 4 \/ i = 5
  OBVIOUS
<1>3. 1 \in 1..5 /\ 2 \in 1..5 /\ 3 \in 1..5 /\ 4 \in 1..5 /\ 5 \in 1..5
  OBVIOUS
<1>4. Range(Kinds) = {Kinds[1], Kinds[2], Kinds[3], Kinds[4], Kinds[5]}
  BY <1>1, <1>2, <1>3 DEF Range
<1> QED
  BY <1>1, <1>4

LEMMA Pairs ==
    ASSUME NEW S, NEW a \in S, NEW b \in S, NEW c \in S
    PROVE  <<a>> \in Seq(S) /\ <<a, b, c>> \in Seq(S)
OBVIOUS

LEMMA FourthIs ==
    ASSUME NEW a, NEW b, NEW c, NEW d, NEW s, s = <<a, b, c, d>>
    PROVE  DOMAIN s = 1..4 /\ s[1] = a /\ s[2] = b /\ s[3] = c /\ s[4] = d
OBVIOUS

LEMMA ThirdIs ==
    ASSUME NEW a, NEW b, NEW c, NEW s, s = <<a, b, c>>
    PROVE  DOMAIN s = 1..3 /\ s[1] = a /\ s[2] = b /\ s[3] = c
OBVIOUS

LEMMA SecondIs ==
    ASSUME NEW a, NEW b, NEW s, s = <<a, b>>
    PROVE  DOMAIN s = 1..2 /\ s[1] = a /\ s[2] = b
OBVIOUS

\* The new archive's name is among those an archive is looked for under, and
\* among no other kind's.
LEMMA NamesAre ==
    ASSUME NEW kind \in Range(Kinds)
    PROVE  /\ DOMAIN FOLDER_NAMES(kind) \in SUBSET Nat
           /\ kind # "Archive" =>
                  \A i \in DOMAIN FOLDER_NAMES(kind) : \A d :
                      /\ FOLDER_NAMES(kind)[i] # <<"Archive">>
                      /\ FOLDER_NAMES(kind)[i] # <<"INBOX", d, "Archive">>
           /\ kind = "Archive" =>
                  /\ 1 \in DOMAIN FOLDER_NAMES(kind) /\ 2 \in DOMAIN FOLDER_NAMES(kind)
                  /\ 3 \in DOMAIN FOLDER_NAMES(kind)
                  /\ FOLDER_NAMES(kind)[1] = <<"Archive">>
                  /\ FOLDER_NAMES(kind)[2] = <<"INBOX", ".", "Archive">>
                  /\ FOLDER_NAMES(kind)[3] = <<"INBOX", "/", "Archive">>
<1> DEFINE names == FOLDER_NAMES(kind)
           Other(name) == \A d : name # <<"Archive">> /\ name # <<"INBOX", d, "Archive">>
<1>1. CASE kind = "Archive"
  <2>1. names = <<<<"Archive">>, <<"INBOX", ".", "Archive">>, <<"INBOX", "/", "Archive">>,
                  <<"[Gmail]", "/", "All Mail">>>>
    BY <1>1 DEF FOLDER_NAMES
  <2> HIDE DEF names
  <2>2. /\ DOMAIN names = 1..4 /\ names[1] = <<"Archive">>
        /\ names[2] = <<"INBOX", ".", "Archive">> /\ names[3] = <<"INBOX", "/", "Archive">>
    <3> DEFINE a == <<"Archive">>
               b == <<"INBOX", ".", "Archive">>
               c == <<"INBOX", "/", "Archive">>
               d == <<"[Gmail]", "/", "All Mail">>
    <3>1. names = <<a, b, c, d>>
      BY <2>1
    <3> HIDE DEF a, b, c, d
    <3>2. DOMAIN names = 1..4 /\ names[1] = a /\ names[2] = b /\ names[3] = c
      BY <3>1, FourthIs
    <3> QED
      BY <3>2 DEF a, b, c
  <2> QED
    BY <1>1, <2>2 DEF names
<1>2. CASE kind = "Junk"
  <2>1. names = <<<<"Junk">>, <<"Spam">>, <<"INBOX", ".", "Junk">>,
                  <<"[Gmail]", "/", "Spam">>>>
    BY <1>2 DEF FOLDER_NAMES
  <2>2. /\ Other(<<"Junk">>) /\ Other(<<"Spam">>) /\ Other(<<"INBOX", ".", "Junk">>)
        /\ Other(<<"[Gmail]", "/", "Spam">>)
    OBVIOUS
  <2> HIDE DEF names, Other
  <2>3. /\ DOMAIN names = 1..4
        /\ Other(names[1]) /\ Other(names[2]) /\ Other(names[3]) /\ Other(names[4])
    BY <2>1, <2>2, FourthIs
  <2>4. \A i \in DOMAIN names : Other(names[i])
    BY <2>3
  <2> QED
    BY <1>2, <2>3, <2>4 DEF names, Other
<1>3. CASE kind = "Sent"
  <2>1. names = <<<<"Sent">>, <<"INBOX", ".", "Sent">>>>
    BY <1>3 DEF FOLDER_NAMES
  <2>2. Other(<<"Sent">>) /\ Other(<<"INBOX", ".", "Sent">>)
    OBVIOUS
  <2> HIDE DEF names, Other
  <2>3. DOMAIN names = 1..2 /\ Other(names[1]) /\ Other(names[2])
    BY <2>1, <2>2, SecondIs
  <2>4. \A i \in DOMAIN names : Other(names[i])
    BY <2>3
  <2> QED
    BY <1>3, <2>3, <2>4 DEF names, Other
<1>4. CASE kind = "Drafts" \/ kind = "Trash"
  <2>1. names = <<<<kind>>, <<"INBOX", ".", kind>>, <<"[Gmail]", "/", kind>>>>
    BY <1>4 DEF FOLDER_NAMES
  <2>2. Other(<<kind>>) /\ Other(<<"INBOX", ".", kind>>) /\ Other(<<"[Gmail]", "/", kind>>)
    BY <1>4
  <2> HIDE DEF names, Other
  <2>3. DOMAIN names = 1..3 /\ Other(names[1]) /\ Other(names[2]) /\ Other(names[3])
    BY <2>1, <2>2, ThirdIs
  <2>4. \A i \in DOMAIN names : Other(names[i])
    BY <2>3
  <2> QED
    BY <1>4, <2>3, <2>4 DEF names, Other
<1> QED
  BY <1>1, <1>2, <1>3, <1>4, KindsAre

\* What is found is one of the server's folders, where its names are tried last.
LEMMA FindsFolder ==
    ASSUME NEW known \in Seq(ServerFolder), NEW special, NEW names,
           DOMAIN names \in SUBSET Nat
    PROVE  \/ find_folder(known, special, names) = <<>>
           \/ \E n \in NamesIn(known) : find_folder(known, special, names) = <<n>>
<1> DEFINE marked == {i \in DOMAIN known : known[i].attr = special}
           named == {i \in DOMAIN names : names[i] \in NamesIn(known)}
<1>1. marked \in SUBSET Nat /\ named \in SUBSET Nat /\ marked \in SUBSET DOMAIN known
  OBVIOUS
<1>2. find_folder(known, special, names) =
          IF marked # {} THEN <<known[Min(marked)].name>>
          ELSE IF named # {} THEN <<names[Min(named)]>> ELSE <<>>
  BY DEF find_folder
<1>3. CASE marked # {}
  <2>1. Min(marked) \in DOMAIN known
    BY <1>1, <1>3, MinIsFirst
  <2>2. known[Min(marked)].name \in NamesIn(known)
    BY <2>1 DEF NamesIn
  <2> QED
    BY <1>2, <1>3, <2>2
<1>4. CASE marked = {} /\ named # {}
  <2>1. Min(named) \in named
    BY <1>1, <1>4, MinIsFirst
  <2> QED
    BY <1>2, <1>4, <2>1
<1> QED
  BY <1>2, <1>3, <1>4

LEMMA LocatesFolder ==
    ASSUME NEW known \in Seq(ServerFolder), NEW kind \in Range(Kinds)
    PROVE  \/ locate(known, kind) = <<>>
           \/ \E n \in NamesIn(known) : locate(known, kind) = <<n>>
<1>1. /\ DOMAIN FOLDER_NAMES(kind) \in SUBSET Nat
      /\ DOMAIN (<<>>) \in SUBSET Nat
  BY NamesAre
<1>2. \/ find_folder(known, kind, FOLDER_NAMES(kind)) = <<>>
      \/ \E n \in NamesIn(known) : find_folder(known, kind, FOLDER_NAMES(kind)) = <<n>>
  BY <1>1, FindsFolder
<1>3. \/ find_folder(known, "All", <<>>) = <<>>
      \/ \E n \in NamesIn(known) : find_folder(known, "All", <<>>) = <<n>>
  BY <1>1, FindsFolder
<1> QED
  BY <1>2, <1>3 DEF locate

LEMMA Appended ==
    ASSUME NEW known \in Seq(ServerFolder), NEW folder \in ServerFolder
    PROVE  /\ Append(known, folder) \in Seq(ServerFolder)
           /\ DOMAIN known \in SUBSET Nat
           /\ \A i \in DOMAIN Append(known, folder) :
                  \/ i \in DOMAIN known /\ Append(known, folder)[i] = known[i]
                  \/ i = Len(known) + 1 /\ Append(known, folder)[i] = folder
           /\ \A i \in DOMAIN known : i \in DOMAIN Append(known, folder)
           /\ Len(known) + 1 \in DOMAIN Append(known, folder)
           /\ Len(known) + 1 \notin DOMAIN known
           /\ NamesIn(Append(known, folder)) = NamesIn(known) \union {folder.name}
<1> DEFINE more == Append(known, folder)
<1>1. more \in Seq(ServerFolder)
  OBVIOUS
<1>2. /\ DOMAIN more = 1..Len(known) + 1 /\ Len(known) \in Nat /\ DOMAIN known = 1..Len(known)
      /\ \A i \in 1..Len(known) : more[i] = known[i]
      /\ more[Len(known) + 1] = folder
  OBVIOUS
<1>3. \A i \in DOMAIN more : i \in DOMAIN known \/ i = Len(known) + 1
  BY <1>2
<1>4. \A i \in DOMAIN known : i \in DOMAIN more
  BY <1>2
<1>5. Len(known) + 1 \in DOMAIN more /\ Len(known) + 1 \notin DOMAIN known
      /\ DOMAIN known \in SUBSET Nat
  BY <1>2
<1>6. \A i \in DOMAIN known : more[i] = known[i]
  BY <1>2
<1> HIDE DEF more
<1>7. NamesIn(more) = NamesIn(known) \union {folder.name}
  BY <1>2, <1>3, <1>4, <1>5, <1>6 DEF NamesIn
<1> QED
  BY <1>1, <1>2, <1>3, <1>4, <1>5, <1>6, <1>7 DEF more

\* A folder with no mark and none of the names changes nothing.
LEMMA FindsTheSame ==
    ASSUME NEW known \in Seq(ServerFolder), NEW folder \in ServerFolder, folder.attr = "",
           NEW special, special # "", NEW names,
           \A i \in DOMAIN names : names[i] # folder.name
    PROVE  find_folder(Append(known, folder), special, names)
               = find_folder(known, special, names)
<1> DEFINE more == Append(known, folder)
           marked(list) == {i \in DOMAIN list : list[i].attr = special}
           named(list) == {i \in DOMAIN names : names[i] \in NamesIn(list)}
<1>1. \A list : find_folder(list, special, names) =
          IF marked(list) # {} THEN <<list[Min(marked(list))].name>>
          ELSE IF named(list) # {} THEN <<names[Min(named(list))]>> ELSE <<>>
  BY DEF find_folder
<1>2. /\ \A i \in DOMAIN more : \/ i \in DOMAIN known /\ more[i] = known[i]
                                \/ i = Len(known) + 1 /\ more[i] = folder
      /\ \A i \in DOMAIN known : i \in DOMAIN more
      /\ Len(known) + 1 \notin DOMAIN known
      /\ NamesIn(more) = NamesIn(known) \union {folder.name}
      /\ DOMAIN known \in SUBSET Nat
  BY Appended
<1> HIDE DEF more
<1>3. marked(more) = marked(known)
  BY <1>2
<1>4. named(more) = named(known)
  BY <1>2
<1>5. ASSUME marked(known) # {} PROVE more[Min(marked(known))] = known[Min(marked(known))]
  <2>1. marked(known) \in SUBSET Nat
    BY <1>2
  <2>2. Min(marked(known)) \in marked(known)
    BY <1>5, <2>1, MinIsFirst
  <2>3. Min(marked(known)) \in DOMAIN known
    BY <2>2
  <2> QED
    BY <1>2, <2>3
<1> HIDE DEF marked, named
<1>6. find_folder(more, special, names) = find_folder(known, special, names)
  BY <1>1, <1>3, <1>4, <1>5
<1> QED
  BY <1>6 DEF more

LEMMA NewNameIs ==
    ASSUME NEW known, NEW leaf
    PROVE  new_folder_name(known, leaf) \in {<<leaf>>, <<"INBOX", delimiter, leaf>>}
BY DEF new_folder_name

\* Where the other folders are stays the same when an archive is created.
LEMMA LocatesTheSame ==
    ASSUME NEW known \in Seq(ServerFolder), NEW folder \in ServerFolder, folder.attr = "",
           folder.name \in {<<"Archive">>, <<"INBOX", delimiter, "Archive">>},
           NEW kind \in Range(Kinds), kind # "Archive"
    PROVE  locate(Append(known, folder), kind) = locate(known, kind)
<1>1. \A i \in DOMAIN FOLDER_NAMES(kind) : FOLDER_NAMES(kind)[i] # folder.name
  BY NamesAre
<1>2. kind # ""
  BY KindsAre
<1>3. find_folder(Append(known, folder), kind, FOLDER_NAMES(kind))
          = find_folder(known, kind, FOLDER_NAMES(kind))
  BY <1>1, <1>2, FindsTheSame
<1> QED
  BY <1>3 DEF locate

\* The archive created where there was none is the one found from then on.
LEMMA LocatesTheNew ==
    ASSUME NEW known \in Seq(ServerFolder), NEW folder \in ServerFolder, folder.attr = "",
           folder.name \in {<<"Archive">>, <<"INBOX", ".", "Archive">>,
                            <<"INBOX", "/", "Archive">>},
           locate(known, "Archive") = <<>>
    PROVE  locate(Append(known, folder), "Archive") = <<folder.name>>
<1> DEFINE more == Append(known, folder)
           names == FOLDER_NAMES("Archive")
           marked(list) == {i \in DOMAIN list : list[i].attr = "Archive"}
           named(list) == {i \in DOMAIN names : names[i] \in NamesIn(list)}
<1>1. \A list : find_folder(list, "Archive", names) =
          IF marked(list) # {} THEN <<list[Min(marked(list))].name>>
          ELSE IF named(list) # {} THEN <<names[Min(named(list))]>> ELSE <<>>
  BY DEF find_folder
<1>2. /\ \A i \in DOMAIN more : \/ i \in DOMAIN known /\ more[i] = known[i]
                                \/ i = Len(known) + 1 /\ more[i] = folder
      /\ NamesIn(more) = NamesIn(known) \union {folder.name}
  BY Appended
<1>3. find_folder(known, "Archive", names) = <<>>
  BY DEF locate
<1>4. \A x : <<x>> # <<>>
  OBVIOUS
<1>5. /\ 1 \in DOMAIN names /\ 2 \in DOMAIN names /\ 3 \in DOMAIN names
      /\ names[1] = <<"Archive">> /\ names[2] = <<"INBOX", ".", "Archive">>
      /\ names[3] = <<"INBOX", "/", "Archive">> /\ DOMAIN names \in SUBSET Nat
  BY NamesAre, KindsAre
<1> HIDE DEF more, names
<1>6. marked(known) = {} /\ named(known) = {}
  <2> HIDE DEF marked, named
  <2> QED
    BY <1>1, <1>3, <1>4
<1>7. marked(more) = {}
  BY <1>2, <1>6
<1>8. /\ named(more) # {} /\ named(more) \in SUBSET Nat
      /\ \A i \in named(more) : names[i] = folder.name
  BY <1>2, <1>5, <1>6
<1>9. Min(named(more)) \in named(more)
  BY <1>8, MinIsFirst
<1> HIDE DEF marked, named
<1>10. find_folder(more, "Archive", names) = <<folder.name>>
  BY <1>1, <1>7, <1>8, <1>9
<1> QED
  BY <1>4, <1>10 DEF locate, more, names

-----------------------------------------------------------------------------
(* The inductive invariant *)

\* What a request knows of its folder, whoever changes them meanwhile
RequestOK(q) ==
    /\ q.at = "create" => q.move # NULL /\ q.kind = "Archive"
    /\ q.at = "act" => q.to \in Listed
    /\ q.row # NULL => q.move = NULL

RequestsOK ==
    \A r \in Requests : request[r] # NULL => saving[r] = NULL /\ RequestOK(request[r])

\* While the app alone makes folders, a kind stays where it was found: a row
\* listed there is there, or gone, and an archive that was not found is either
\* the one that was created meanwhile or still missing.
Placed(row) ==
    \E n \in Listed :
        /\ locate(folders, row.kind) = <<n>> /\ row.uid \in DOMAIN contents[n]
        /\ contents[n][row.uid] \in {row.message, GONE}

Findable == delimiter \in {".", "/"}

RequestAsFound(q) ==
    /\ q.at = "create" =>
           \/ q.to \in Listed
           \/ /\ locate(folders, "Archive") = <<>>
              /\ q.to = new_folder_name(folders, "Archive")
    /\ q.at = "act" /\ (q.move = NULL \/ Findable) => locate(folders, q.kind) = <<q.to>>
    /\ q.row # NULL => q.row.kind = q.kind /\ Placed(q.row)

AsFound ==
    ~others => /\ \A r \in Requests : request[r] # NULL => RequestAsFound(request[r])
               /\ page # NULL => Placed(page)

SavedAsAsked ==
    ~others => /\ \A r \in Requests : saving[r] # NULL => saving[r].data = saving[r].asked
               /\ \A t \in told : t.data = t.asked

InFolder(m) ==
    \E n \in Listed : /\ locate(folders, moved[m]) = <<n>>
                      /\ \E uid \in DOMAIN contents[n] : contents[n][uid] = m

MovedInPlace == ~others /\ Findable => \A m \in Messages : moved[m] # NULL => InFolder(m)

ReadingInv ==
    /\ TypeOK /\ SavesApart /\ NothingReplaced
    /\ RequestsOK /\ AsFound /\ SavedAsAsked /\ MovedInPlace

LEMMA ReadingStarts == Init => ReadingInv
<1> SUFFICES ASSUME Init PROVE ReadingInv
  OBVIOUS
<1>1. PICK layout \in Layouts :
          /\ delimiter = layout.delimiter /\ folders = layout.folders
          /\ contents = [name \in {f.name : f \in Range(layout.folders)} |-> <<>>]
  BY DEF Init
<1>2. /\ delimiter \in Parts /\ folders \in Seq(ServerFolder)
      /\ \A i, j \in DOMAIN folders : folders[i].name = folders[j].name => i = j
  BY <1>1, LayoutsAssumption
<1>3. DOMAIN contents = Listed /\ \A name \in Listed : contents[name] = <<>>
  BY <1>1 DEF Listed, Range
<1>4. \A name \in Listed : contents[name] \in Seq(Messages \union {GONE})
  <2>1. <<>> \in Seq(Messages \union {GONE})
    OBVIOUS
  <2> QED
    BY <1>3, <2>1
<1>5. /\ files = <<>> /\ DOMAIN files = {} /\ saving = [r \in Requests |-> NULL] /\ told = {}
      /\ left = {}
      /\ \A r \in Requests : saving[r] = NULL /\ request[r] = NULL
      /\ request = [r \in Requests |-> NULL] /\ page = NULL
      /\ moved = [m \in Messages |-> NULL] /\ others = FALSE /\ inbox = Messages
      /\ \A m \in Messages : moved[m] = NULL
  BY DEF Init, DownloadsInit
<1>6. TypeOK
  BY <1>2, <1>3, <1>4, <1>5 DEF TypeOK
<1>7. SavesApart /\ NothingReplaced
  BY <1>5 DEF SavesApart, NothingReplaced, Writing, Busy, Saving
<1>8. RequestsOK /\ AsFound /\ SavedAsAsked /\ MovedInPlace
  BY <1>5 DEF RequestsOK, AsFound, SavedAsAsked, MovedInPlace
<1> QED
  BY <1>6, <1>7, <1>8 DEF ReadingInv

LEMMA RequestFields ==
    /\ NULL \notin Messages /\ NULL \notin Row /\ NULL \notin Request
    /\ NULL \notin Save(Messages) /\ NULL \notin Range(Kinds) /\ GONE \notin Messages
    /\ \A q \in Row : q.kind \in Range(Kinds) /\ q.uid \in Nat /\ q.message \in Messages
    /\ \A q \in Request :
           /\ q.at \in {"create", "act"} /\ q.kind \in Range(Kinds)
           /\ q.move \in Messages \union {NULL} /\ q.row \in Row \union {NULL}
           /\ q.to \in Seq(Parts)
           /\ [q EXCEPT !.at = "act"] \in Request
           /\ [q EXCEPT !.at = "act"].at = "act" /\ [q EXCEPT !.at = "act"].kind = q.kind
           /\ [q EXCEPT !.at = "act"].move = q.move /\ [q EXCEPT !.at = "act"].row = q.row
           /\ [q EXCEPT !.at = "act"].to = q.to
<1>1. /\ NULL \notin Messages /\ NULL \notin Row /\ NULL \notin Request
      /\ NULL \notin Save(Messages) /\ NULL \notin Range(Kinds) /\ GONE \notin Messages
  BY ApartAssumption
<1>2. \A q \in Row : q.kind \in Range(Kinds) /\ q.uid \in Nat /\ q.message \in Messages
  BY DEF Row
<1>3. ASSUME NEW q \in Request
      PROVE  /\ q.at \in {"create", "act"} /\ q.kind \in Range(Kinds)
             /\ q.move \in Messages \union {NULL} /\ q.row \in Row \union {NULL}
             /\ q.to \in Seq(Parts)
             /\ [q EXCEPT !.at = "act"] \in Request
             /\ [q EXCEPT !.at = "act"].at = "act" /\ [q EXCEPT !.at = "act"].kind = q.kind
             /\ [q EXCEPT !.at = "act"].move = q.move /\ [q EXCEPT !.at = "act"].row = q.row
             /\ [q EXCEPT !.at = "act"].to = q.to
  BY DEF Request
<1> QED
  BY <1>1, <1>2, <1>3

\* A request that begins knows the folder it found, or that there is none.
LEMMA BeginKeeps ==
    ASSUME ReadingInv, NEW r \in Requests, NEW kind \in Range(Kinds),
           NEW m \in Messages \union {NULL}, NEW row \in Row \union {NULL},
           NEW step \in {"create", "act"}, NEW name \in Seq(Parts),
           Begin(r, kind, m, row, step, name),
           step = "act" => name \in Listed /\ locate(folders, kind) = <<name>>,
           step = "create" => /\ m # NULL /\ row = NULL /\ kind = "Archive"
                              /\ locate(folders, "Archive") = <<>>
                              /\ name = new_folder_name(folders, "Archive"),
           row # NULL => row = page /\ row.kind = kind /\ m = NULL
    PROVE  ReadingInv'
<1> DEFINE q == [at |-> step, kind |-> kind, move |-> m, row |-> row, to |-> name]
<1>1. /\ q \in Request /\ q.at = step /\ q.kind = kind /\ q.move = m /\ q.row = row
      /\ q.to = name
  BY DEF Request
<1> HIDE DEF q
<1>2. /\ request[r] = NULL /\ saving[r] = NULL /\ request' = [request EXCEPT ![r] = q]
      /\ UNCHANGED <<files, saving, told, left, delimiter, folders, contents, inbox, page, moved,
                     others>>
  BY DEF Begin, downloads, server, history, q
<1>3. /\ request' \in [Requests -> Request \union {NULL}] /\ request'[r] = q
      /\ \A k \in Requests : k # r => request'[k] = request[k]
  BY <1>1, <1>2 DEF ReadingInv, TypeOK
<1>4. TypeOK'
  <2>1. Listed' = Listed
    BY <1>2 DEF Listed
  <2> QED
    BY <1>2, <1>3, <2>1 DEF ReadingInv, TypeOK
<1>5. SavesApart' /\ NothingReplaced' /\ SavedAsAsked' /\ MovedInPlace'
  <2>1. SavesApart' /\ NothingReplaced'
    BY <1>2 DEF ReadingInv, SavesApart, NothingReplaced, Writing, Busy, Saving, Path
  <2>2. SavedAsAsked'
    BY <1>2 DEF ReadingInv, SavedAsAsked
  <2>3. MovedInPlace'
    BY <1>2 DEF ReadingInv, MovedInPlace, InFolder, Findable, Listed
  <2> QED
    BY <2>1, <2>2, <2>3
<1>6. RequestsOK'
  BY <1>1, <1>2, <1>3 DEF ReadingInv, RequestsOK, RequestOK, Listed
<1>7. AsFound'
  <2>1. \A k : RequestAsFound(k)' <=> RequestAsFound(k)
    BY <1>2 DEF RequestAsFound, Placed, Findable, Listed, new_folder_name
  <2>2. \A k : Placed(k)' <=> Placed(k)
    BY <1>2 DEF Placed, Listed
  <2>3. ASSUME ~others PROVE RequestAsFound(q)
    <3>1. page # NULL => Placed(page)
      BY <2>3 DEF ReadingInv, AsFound
    <3> QED
      BY <1>1, <3>1 DEF RequestAsFound
  <2> QED
    BY <1>2, <1>3, <2>1, <2>2, <2>3 DEF ReadingInv, AsFound
<1> QED
  BY <1>4, <1>5, <1>6, <1>7 DEF ReadingInv

\* A request that ends forgets what it knew.
LEMMA EndKeeps ==
    ASSUME ReadingInv, NEW r \in Requests, RequestFails(r)
    PROVE  ReadingInv'
<1>1. /\ request' = [request EXCEPT ![r] = NULL]
      /\ UNCHANGED <<files, saving, told, left, delimiter, folders, contents, inbox, page, moved,
                     others>>
  BY DEF RequestFails, End, downloads, server, history
<1>2. /\ request' \in [Requests -> Request \union {NULL}] /\ request'[r] = NULL
      /\ \A k \in Requests : k # r => request'[k] = request[k]
  BY <1>1 DEF ReadingInv, TypeOK
<1>3. TypeOK'
  <2>1. Listed' = Listed
    BY <1>1 DEF Listed
  <2> QED
    BY <1>1, <1>2, <2>1 DEF ReadingInv, TypeOK
<1>4. SavesApart' /\ NothingReplaced'
  BY <1>1 DEF ReadingInv, SavesApart, NothingReplaced, Writing, Busy, Saving, Path
<1>5. SavedAsAsked' /\ MovedInPlace'
  BY <1>1 DEF ReadingInv, SavedAsAsked, MovedInPlace, InFolder, Findable, Listed
<1>6. RequestsOK'
  BY <1>1, <1>2 DEF ReadingInv, RequestsOK, RequestOK, Listed
<1>7. AsFound'
  <2>1. \A k : RequestAsFound(k)' <=> RequestAsFound(k)
    BY <1>1 DEF RequestAsFound, Placed, Findable, Listed, new_folder_name
  <2>2. \A k : Placed(k)' <=> Placed(k)
    BY <1>1 DEF Placed, Listed
  <2> QED
    BY <1>1, <1>2, <2>1, <2>2 DEF ReadingInv, AsFound
<1> QED
  BY <1>3, <1>4, <1>5, <1>6, <1>7 DEF ReadingInv

\* Mail that is added to a folder, or goes from its place, moves no other.
LEMMA MoveKeeps ==
    ASSUME ReadingInv, NEW r \in Requests, move_message(r)
    PROVE  ReadingInv'
<1> DEFINE q == request[r]
<1>1. /\ q \in Request /\ q # NULL /\ q.at = "act" /\ q.move \in inbox
      /\ request' = [request EXCEPT ![r] = NULL] /\ inbox' = inbox \ {q.move}
      /\ contents' = [contents EXCEPT ![q.to] = Append(@, q.move)]
      /\ moved' = [moved EXCEPT ![q.move] = q.kind]
      /\ UNCHANGED <<files, saving, told, left, delimiter, folders, page, others>>
  BY DEF move_message, At, End, downloads, ReadingInv, TypeOK
<1>2. /\ q.move \in Messages /\ q.kind \in Range(Kinds) /\ q.to \in Listed
      /\ q.kind # NULL
  <2>1. RequestOK(q) /\ inbox \subseteq Messages
    BY <1>1 DEF ReadingInv, TypeOK, RequestsOK
  <2>2. q.kind \in Range(Kinds) /\ NULL \notin Range(Kinds)
    BY <1>1, RequestFields
  <2> HIDE DEF q
  <2> QED
    BY <1>1, <2>1, <2>2 DEF RequestOK
<1> HIDE DEF q
<1>3. /\ request' \in [Requests -> Request \union {NULL}] /\ request'[r] = NULL
      /\ \A k \in Requests : k # r => request'[k] = request[k]
  BY <1>1 DEF ReadingInv, TypeOK
<1>4. Listed' = Listed /\ DOMAIN contents = Listed
  BY <1>1 DEF Listed, ReadingInv, TypeOK
<1>5. /\ DOMAIN contents' = Listed
      /\ \A n \in Listed : n # q.to => contents'[n] = contents[n]
      /\ contents'[q.to] = Append(contents[q.to], q.move)
      /\ contents[q.to] \in Seq(Messages \union {GONE})
  BY <1>1, <1>2, <1>4 DEF ReadingInv, TypeOK
<1> DEFINE mails == contents[q.to]
           more == Append(mails, q.move)
<1>6. /\ more \in Seq(Messages \union {GONE})
      /\ \A uid \in DOMAIN mails : uid \in DOMAIN more /\ more[uid] = mails[uid]
      /\ Len(mails) + 1 \in DOMAIN more /\ more[Len(mails) + 1] = q.move
  <2>1. mails \in Seq(Messages \union {GONE}) /\ q.move \in Messages \union {GONE}
    BY <1>2, <1>5
  <2> HIDE DEF mails
  <2> QED
    BY <2>1
<1>7. \A n \in Listed : \A uid \in DOMAIN contents[n] :
          uid \in DOMAIN contents'[n] /\ contents'[n][uid] = contents[n][uid]
  BY <1>5, <1>6
<1>8. /\ Len(mails) + 1 \in DOMAIN contents'[q.to]
      /\ contents'[q.to][Len(mails) + 1] = q.move
  BY <1>5, <1>6
<1>9. \A n \in Listed : contents'[n] \in Seq(Messages \union {GONE})
  BY <1>5, <1>6 DEF ReadingInv, TypeOK
<1> HIDE DEF mails, more
<1>10. /\ moved' \in [Messages -> Range(Kinds) \union {NULL}] /\ moved'[q.move] = q.kind
       /\ \A m \in Messages : m # q.move => moved'[m] = moved[m]
  BY <1>1, <1>2 DEF ReadingInv, TypeOK
<1>11. TypeOK'
  BY <1>1, <1>3, <1>4, <1>5, <1>9, <1>10 DEF ReadingInv, TypeOK
<1>12. SavesApart' /\ NothingReplaced' /\ SavedAsAsked'
  BY <1>1 DEF ReadingInv, SavesApart, NothingReplaced, Writing, Busy, Saving, Path, SavedAsAsked
<1>13. RequestsOK'
  BY <1>1, <1>3, <1>4 DEF ReadingInv, RequestsOK, RequestOK
<1>14. AsFound'
  <2>1. \A k : Placed(k) => Placed(k)'
    BY <1>1, <1>4, <1>7 DEF Placed
  <2>2. \A k : RequestAsFound(k) => RequestAsFound(k)'
    BY <1>1, <1>4, <2>1 DEF RequestAsFound, Findable, new_folder_name
  <2> QED
    BY <1>1, <1>3, <2>1, <2>2 DEF ReadingInv, AsFound
<1>15. MovedInPlace'
  <2> SUFFICES ASSUME ~others, Findable, NEW m \in Messages, moved'[m] # NULL
               PROVE  InFolder(m)'
    BY <1>1 DEF MovedInPlace, Findable
  <2>1. CASE m = q.move
    <3>1. locate(folders, q.kind) = <<q.to>>
      BY <1>1 DEF ReadingInv, AsFound, RequestAsFound, q
    <3> QED
      BY <1>1, <1>2, <1>4, <1>8, <1>10, <2>1, <3>1 DEF InFolder
  <2>2. CASE m # q.move
    <3>1. InFolder(m) /\ moved'[m] = moved[m]
      BY <1>10, <2>2 DEF ReadingInv, MovedInPlace
    <3> QED
      BY <1>1, <1>4, <1>7, <3>1 DEF InFolder
  <2> QED
    BY <2>1, <2>2
<1> QED
  BY <1>11, <1>12, <1>13, <1>14, <1>15 DEF ReadingInv

\* A row is listed where its folder is.
LEMMA FetchKeeps ==
    ASSUME ReadingInv, NEW r \in Requests, fetch_folder(r)
    PROVE  ReadingInv'
<1> DEFINE q == request[r]
<1>1. PICK uid \in newest_matching(q.to) :
          page' = [kind |-> q.kind, uid |-> uid, message |-> contents[q.to][uid]]
  BY DEF fetch_folder
<1>2. /\ q \in Request /\ q # NULL /\ q.at = "act" /\ q.move = NULL /\ q.row = NULL
      /\ request' = [request EXCEPT ![r] = NULL]
      /\ UNCHANGED <<files, saving, told, left, delimiter, folders, contents, inbox, moved, others>>
  BY DEF fetch_folder, At, End, downloads, server, history, ReadingInv, TypeOK
<1>3. /\ q.kind \in Range(Kinds) /\ q.to \in Listed
      /\ contents[q.to] \in Seq(Messages \union {GONE})
      /\ uid \in DOMAIN contents[q.to] /\ contents[q.to][uid] # GONE
  BY <1>2, RequestFields DEF ReadingInv, TypeOK, RequestsOK, RequestOK, newest_matching
<1>4. uid \in Nat /\ contents[q.to][uid] \in Messages
  BY <1>3
<1> HIDE DEF q
<1>5. /\ page' \in Row /\ page'.kind = q.kind /\ page'.uid = uid
      /\ page'.message = contents[q.to][uid]
  BY <1>1, <1>3, <1>4 DEF Row
<1>6. /\ request' \in [Requests -> Request \union {NULL}] /\ request'[r] = NULL
      /\ \A k \in Requests : k # r => request'[k] = request[k]
  BY <1>2 DEF ReadingInv, TypeOK
<1>7. TypeOK'
  <2>1. Listed' = Listed /\ page' \in Row \union {NULL}
    BY <1>2, <1>5 DEF Listed
  <2> QED
    BY <1>2, <1>6, <2>1 DEF ReadingInv, TypeOK
<1>8. SavesApart' /\ NothingReplaced'
  BY <1>2 DEF ReadingInv, SavesApart, NothingReplaced, Writing, Busy, Saving, Path
<1>9. SavedAsAsked' /\ MovedInPlace'
  BY <1>2 DEF ReadingInv, SavedAsAsked, MovedInPlace, InFolder, Findable, Listed
<1>10. RequestsOK'
  BY <1>2, <1>6 DEF ReadingInv, RequestsOK, RequestOK, Listed
<1>11. AsFound'
  <2>1. \A k : RequestAsFound(k)' <=> RequestAsFound(k)
    BY <1>2 DEF RequestAsFound, Placed, Findable, Listed, new_folder_name
  <2>2. \A k : Placed(k)' <=> Placed(k)
    BY <1>2 DEF Placed, Listed
  <2>3. ASSUME ~others PROVE Placed(page')
    <3>1. locate(folders, q.kind) = <<q.to>>
      BY <1>2, <2>3 DEF ReadingInv, AsFound, RequestAsFound, q
    <3> QED
      BY <1>3, <1>5, <3>1 DEF Placed
  <2>4. ~others => Placed(page)'
    BY <1>2, <2>3 DEF Placed, Listed
  <2> QED
    BY <1>2, <1>6, <2>1, <2>4 DEF ReadingInv, AsFound
<1> QED
  BY <1>7, <1>8, <1>9, <1>10, <1>11 DEF ReadingInv

\* The attachment of the message that was listed, or none
LEMMA AttachmentKeeps ==
    ASSUME ReadingInv, NEW r \in Requests, fetch_folder_attachment(r)
    PROVE  ReadingInv'
<1> DEFINE q == request[r]
           row == q.row
           mails == contents[q.to]
<1>1. /\ q \in Request /\ q # NULL /\ q.at = "act" /\ row # NULL
      /\ request' = [request EXCEPT ![r] = NULL] /\ saving[r] = NULL
      /\ UNCHANGED <<files, told, left, delimiter, folders, contents, inbox, page, moved, others>>
  BY DEF fetch_folder_attachment, At, End, server, history, ReadingInv, TypeOK, RequestsOK
<1>2. /\ row \in Row /\ row.uid \in Nat /\ row.message \in Messages /\ q.to \in Listed
      /\ q.move = NULL /\ mails \in Seq(Messages \union {GONE})
  BY <1>1, RequestFields DEF ReadingInv, TypeOK, RequestsOK, RequestOK
<1>3. /\ row.uid \in DOMAIN mails /\ mails[row.uid] # GONE
      /\ StartSave(r, AttachmentName[mails[row.uid]], mails[row.uid], row.message)
  BY DEF fetch_folder_attachment, Mine
<1>4. mails[row.uid] \in Messages /\ AttachmentName[mails[row.uid]] \in Names
  <2>1. mails[row.uid] \in Messages
    <3>1. mails[row.uid] \in Messages \union {GONE}
      <4> HIDE DEF mails, row
      <4> QED
        BY <1>2, <1>3
    <3> QED
      BY <1>3, <3>1
  <2> QED
    BY <2>1, AttachmentsAssumption
<1> DEFINE data == mails[row.uid]
<1>5. ASSUME ~others PROVE data = row.message
  <2>1. locate(folders, q.kind) = <<q.to>> /\ row.kind = q.kind /\ Placed(row)
    BY <1>1, <1>2, <1>5 DEF ReadingInv, AsFound, RequestAsFound
  <2>2. PICK n \in Listed : /\ locate(folders, row.kind) = <<n>>
                            /\ contents[n][row.uid] \in {row.message, GONE}
    BY <2>1 DEF Placed
  <2>3. n = q.to
    BY <2>1, <2>2
  <2> QED
    BY <1>3, <2>2, <2>3
<1>6. DownloadsInv
  BY DEF ReadingInv, TypeOK, DownloadsInv, FilesTyped
<1>7. DownloadsInv'
  BY <1>1, <1>2, <1>3, <1>4, <1>6, StartKeeps
<1>8. /\ saving'[r].data = data /\ saving'[r].asked = row.message
      /\ \A k \in Requests : k # r => saving'[k] = saving[k]
  BY <1>3, <1>6 DEF StartSave, DownloadsInv, FilesTyped
<1> HIDE DEF q, row, mails, data
<1>9. /\ request' \in [Requests -> Request \union {NULL}] /\ request'[r] = NULL
      /\ \A k \in Requests : k # r => request'[k] = request[k]
  BY <1>1 DEF ReadingInv, TypeOK
<1>10. TypeOK' /\ SavesApart' /\ NothingReplaced'
  <2>1. Listed' = Listed
    BY <1>1 DEF Listed
  <2> QED
    BY <1>1, <1>7, <1>9, <2>1 DEF ReadingInv, TypeOK, DownloadsInv, FilesTyped
<1>11. SavedAsAsked'
  BY <1>1, <1>5, <1>8 DEF ReadingInv, SavedAsAsked
<1>12. MovedInPlace'
  BY <1>1 DEF ReadingInv, MovedInPlace, InFolder, Findable, Listed
<1>13. RequestsOK'
  BY <1>1, <1>8, <1>9 DEF ReadingInv, RequestsOK, RequestOK, Listed
<1>14. AsFound'
  <2>1. \A k : RequestAsFound(k)' <=> RequestAsFound(k)
    BY <1>1 DEF RequestAsFound, Placed, Findable, Listed, new_folder_name
  <2>2. \A k : Placed(k)' <=> Placed(k)
    BY <1>1 DEF Placed, Listed
  <2> QED
    BY <1>1, <1>9, <2>1, <2>2 DEF ReadingInv, AsFound
<1> QED
  BY <1>10, <1>11, <1>12, <1>13, <1>14 DEF ReadingInv

\* A folder that is added is one more, and empty.
LEMMA FolderAdded ==
    ASSUME TypeOK, NEW folder \in ServerFolder, folder.name \notin Listed, AddFolder(folder)
    PROVE  /\ folders' = Append(folders, folder) /\ folders' \in Seq(ServerFolder)
           /\ \A i, j \in DOMAIN folders' : folders'[i].name = folders'[j].name => i = j
           /\ Listed' = Listed \union {folder.name} /\ Listed = NamesIn(folders)
           /\ DOMAIN contents' = Listed' /\ \A n \in Listed : contents'[n] = contents[n]
           /\ \A n \in Listed' : contents'[n] \in Seq(Messages \union {GONE})
<1>1. folders' = Append(folders, folder) /\ folders \in Seq(ServerFolder)
  BY DEF AddFolder, TypeOK
<1>2. /\ folders' \in Seq(ServerFolder)
      /\ \A i \in DOMAIN folders' : \/ i \in DOMAIN folders /\ folders'[i] = folders[i]
                                    \/ i = Len(folders) + 1 /\ folders'[i] = folder
      /\ NamesIn(folders') = NamesIn(folders) \union {folder.name}
  BY <1>1, Appended
<1>3. Listed = NamesIn(folders) /\ Listed' = NamesIn(folders')
  BY DEF Listed, NamesIn
<1>4. \A i, j \in DOMAIN folders' : folders'[i].name = folders'[j].name => i = j
  BY <1>2 DEF TypeOK, Listed
<1>5. /\ DOMAIN contents' = Listed' /\ \A n \in Listed : contents'[n] = contents[n]
      /\ contents'[folder.name] = <<>>
  BY <1>2, <1>3 DEF AddFolder, TypeOK
<1>6. <<>> \in Seq(Messages \union {GONE})
  OBVIOUS
<1>7. \A n \in Listed' : contents'[n] \in Seq(Messages \union {GONE})
  BY <1>2, <1>3, <1>5, <1>6 DEF TypeOK
<1> QED
  BY <1>1, <1>2, <1>3, <1>4, <1>5, <1>7

\* The archive is made where none was found, and no other kind's place changes.
LEMMA CreateKeeps ==
    ASSUME ReadingInv, NEW r \in Requests, CreateArchive(r)
    PROVE  ReadingInv'
<1> DEFINE q == request[r]
           folder == [name |-> q.to, attr |-> ""]
<1>0. TypeOK
  BY DEF ReadingInv
<1>1. /\ q \in Request /\ q # NULL /\ q.at = "create" /\ q.to \notin Listed
      /\ AddFolder(folder) /\ request' = [request EXCEPT ![r] = [q EXCEPT !.at = "act"]]
      /\ UNCHANGED <<files, saving, told, left, delimiter, inbox, page, moved, others>>
  BY <1>0 DEF CreateArchive, At, downloads, history, TypeOK
<1>2. /\ q.to \in Seq(Parts) /\ q.move # NULL /\ q.kind = "Archive" /\ q.row = NULL
  BY <1>1, RequestFields DEF ReadingInv, RequestsOK, RequestOK
<1>a. PICK act \in Request :
          /\ act = [q EXCEPT !.at = "act"] /\ act.at = "act" /\ act.kind = q.kind
          /\ act.move = q.move /\ act.row = q.row /\ act.to = q.to /\ act # NULL
  BY <1>1, RequestFields
<1>3. folder \in ServerFolder /\ folder.name = q.to /\ folder.attr = ""
  BY <1>2 DEF ServerFolder
<1> HIDE DEF q, folder
<1>4. /\ folders' = Append(folders, folder) /\ folders' \in Seq(ServerFolder)
      /\ \A i, j \in DOMAIN folders' : folders'[i].name = folders'[j].name => i = j
      /\ Listed' = Listed \union {q.to}
      /\ DOMAIN contents' = Listed' /\ \A n \in Listed : contents'[n] = contents[n]
      /\ \A n \in Listed' : contents'[n] \in Seq(Messages \union {GONE})
      /\ folders \in Seq(ServerFolder)
  BY <1>0, <1>1, <1>3, FolderAdded DEF TypeOK
<1>5. /\ request' \in [Requests -> Request \union {NULL}] /\ request'[r] = act
      /\ \A k \in Requests : k # r => request'[k] = request[k]
  BY <1>0, <1>1, <1>a DEF TypeOK
<1>6. TypeOK'
  BY <1>0, <1>1, <1>4, <1>5 DEF TypeOK
<1>7. SavesApart' /\ NothingReplaced' /\ SavedAsAsked'
  BY <1>1 DEF ReadingInv, SavesApart, NothingReplaced, Writing, Busy, Saving, Path, SavedAsAsked
<1>8. RequestsOK'
  <2>1. \A k \in Requests : request[k] # NULL => saving[k] = NULL /\ RequestOK(request[k])
    BY DEF ReadingInv, RequestsOK
  <2>2. \A k : RequestOK(k) => RequestOK(k)'
    BY <1>4 DEF RequestOK
  <2>3. RequestOK(act)'
    BY <1>2, <1>a, <1>4 DEF RequestOK
  <2>4. saving'[r] = NULL
    BY <1>1, <2>1 DEF q
  <2> QED
    BY <1>1, <1>5, <2>1, <2>2, <2>3, <2>4 DEF RequestsOK
<1>9. ASSUME ~others
      PROVE  /\ locate(folders, "Archive") = <<>>
             /\ q.to = new_folder_name(folders, "Archive")
             /\ q.to \in {<<"Archive">>, <<"INBOX", delimiter, "Archive">>}
             /\ \A kind \in Range(Kinds) :
                    locate(folders, kind) # <<>> => locate(folders', kind) = locate(folders, kind)
             /\ Findable => locate(folders', "Archive") = <<q.to>>
  <2>1. /\ locate(folders, "Archive") = <<>> /\ q.to = new_folder_name(folders, "Archive")
    BY <1>1, <1>9 DEF ReadingInv, AsFound, RequestAsFound, q
  <2>2. q.to \in {<<"Archive">>, <<"INBOX", delimiter, "Archive">>}
    BY <2>1, NewNameIs
  <2>3. ASSUME NEW kind \in Range(Kinds), locate(folders, kind) # <<>>
        PROVE  locate(folders', kind) = locate(folders, kind)
    <3>1. kind # "Archive"
      BY <2>1, <2>3
    <3> QED
      BY <1>3, <1>4, <2>2, <3>1, LocatesTheSame
  <2>4. Findable => q.to \in {<<"Archive">>, <<"INBOX", ".", "Archive">>,
                              <<"INBOX", "/", "Archive">>}
    BY <2>2 DEF Findable
  <2>5. Findable => locate(folders', "Archive") = <<q.to>>
    BY <1>3, <1>4, <2>1, <2>4, LocatesTheNew
  <2> QED
    BY <2>1, <2>2, <2>3, <2>5
<1>10. \A x : <<x>> # <<>>
  OBVIOUS
<1>11. AsFound'
  <2> SUFFICES ASSUME ~others
               PROVE  /\ \A k \in Requests : (request[k] # NULL => RequestAsFound(request[k]))'
                      /\ page # NULL => Placed(page)'
    BY <1>1 DEF AsFound
  <2>1. ASSUME NEW row \in Row, Placed(row) PROVE Placed(row)'
    <3>1. PICK n \in Listed : /\ locate(folders, row.kind) = <<n>>
                              /\ row.uid \in DOMAIN contents[n]
                              /\ contents[n][row.uid] \in {row.message, GONE}
      BY <2>1 DEF Placed
    <3>2. row.kind \in Range(Kinds) /\ locate(folders, row.kind) # <<>>
      BY <1>10, <3>1, RequestFields
    <3>3. locate(folders', row.kind) = <<n>>
      BY <1>9, <3>1, <3>2
    <3> QED
      BY <1>4, <3>1, <3>3 DEF Placed
  <2>2. page # NULL => Placed(page)'
    <3>1. page' = page
      BY <1>1
    <3>2. page # NULL => page \in Row /\ Placed(page)
      BY <1>0 DEF TypeOK, ReadingInv, AsFound
    <3> QED
      BY <2>1, <3>1, <3>2
  <2>3. RequestAsFound(act)'
    <3>1. Findable' <=> Findable
      BY <1>1 DEF Findable
    <3> QED
      BY <1>2, <1>a, <1>9, <3>1 DEF RequestAsFound
  <2>4. ASSUME NEW k \in Request, RequestAsFound(k) PROVE RequestAsFound(k)'
    <3>1. k.kind \in Range(Kinds) /\ k.row \in Row \union {NULL}
      BY RequestFields
    <3>2. k.at = "create" => k.to \in Listed'
      BY <1>4, <1>9, <2>4 DEF RequestAsFound
    <3>3. k.at = "act" /\ (k.move = NULL \/ Findable') => locate(folders', k.kind) = <<k.to>>
      BY <1>1, <1>9, <1>10, <2>4, <3>1 DEF RequestAsFound, Findable
    <3>4. k.row # NULL => k.row.kind = k.kind /\ Placed(k.row)'
      BY <2>1, <2>4, <3>1 DEF RequestAsFound
    <3> QED
      BY <3>2, <3>3, <3>4 DEF RequestAsFound
  <2>5. ASSUME NEW k \in Requests, (request[k] # NULL)' PROVE RequestAsFound(request[k])'
    <3>1. CASE k = r
      BY <1>5, <2>3, <3>1
    <3>2. CASE k # r
      <4>1. PICK c : c = request[k]
        OBVIOUS
      <4>2. request'[k] = c /\ c \in Request /\ RequestAsFound(c)
        BY <1>0, <1>5, <2>5, <3>2, <4>1 DEF TypeOK, ReadingInv, AsFound
      <4> QED
        BY <2>4, <4>2
    <3> QED
      BY <3>1, <3>2
  <2> QED
    BY <2>2, <2>5
<1>12. MovedInPlace'
  <2> SUFFICES ASSUME ~others, Findable, NEW m \in Messages, moved[m] # NULL
               PROVE  InFolder(m)'
    BY <1>1 DEF MovedInPlace, Findable
  <2>1. PICK n \in Listed : /\ locate(folders, moved[m]) = <<n>>
                            /\ \E uid \in DOMAIN contents[n] : contents[n][uid] = m
    BY DEF ReadingInv, MovedInPlace, InFolder
  <2>2. moved[m] \in Range(Kinds) /\ locate(folders, moved[m]) # <<>>
    BY <1>0, <1>10, <2>1 DEF TypeOK
  <2>3. locate(folders', moved[m]) = <<n>>
    BY <1>9, <2>1, <2>2
  <2> QED
    BY <1>1, <1>4, <2>1, <2>3 DEF InFolder
<1> QED
  BY <1>6, <1>7, <1>8, <1>11, <1>12 DEF ReadingInv

\* What others make is theirs to be found from then on.
LEMMA OthersCreateKeeps ==
    ASSUME ReadingInv, OthersCreate
    PROVE  ReadingInv'
<1>0. TypeOK
  BY DEF ReadingInv
<1>1. PICK folder \in OtherFolders : folder.name \notin Listed /\ AddFolder(folder)
  BY DEF OthersCreate
<1>2. others' = TRUE
      /\ UNCHANGED <<files, saving, told, left, delimiter, inbox, request, page, moved>>
  BY DEF OthersCreate, downloads
<1>3. /\ folders' \in Seq(ServerFolder)
      /\ \A i, j \in DOMAIN folders' : folders'[i].name = folders'[j].name => i = j
      /\ Listed' = Listed \union {folder.name}
      /\ DOMAIN contents' = Listed'
      /\ \A n \in Listed' : contents'[n] \in Seq(Messages \union {GONE})
  BY <1>0, <1>1, FolderAdded, OthersAssumption
<1>4. TypeOK'
  BY <1>0, <1>2, <1>3 DEF TypeOK
<1>5. SavesApart' /\ NothingReplaced'
  BY <1>2 DEF ReadingInv, SavesApart, NothingReplaced, Writing, Busy, Saving, Path
<1>6. RequestsOK'
  BY <1>2, <1>3 DEF ReadingInv, RequestsOK, RequestOK
<1>7. AsFound' /\ SavedAsAsked' /\ MovedInPlace'
  BY <1>2 DEF AsFound, SavedAsAsked, MovedInPlace
<1> QED
  BY <1>4, <1>5, <1>6, <1>7 DEF ReadingInv

\* A message that is removed leaves its place to no other.
LEMMA OthersDeleteKeeps ==
    ASSUME ReadingInv, NEW m \in Messages, OthersDelete(m)
    PROVE  ReadingInv'
<1>0. TypeOK
  BY DEF ReadingInv
<1>a. PICK name \in DOMAIN contents : \E uid \in DOMAIN contents[name] :
          /\ contents[name][uid] = m
          /\ contents' = [contents EXCEPT ![name] = [contents[name] EXCEPT ![uid] = GONE]]
  BY DEF OthersDelete
<1>1. PICK uid \in DOMAIN contents[name] :
          /\ contents[name][uid] = m
          /\ contents' = [contents EXCEPT ![name] = [contents[name] EXCEPT ![uid] = GONE]]
  BY <1>a
<1>2. /\ moved' = [moved EXCEPT ![m] = NULL]
      /\ UNCHANGED <<files, saving, told, left, delimiter, folders, inbox, request, page, others>>
  BY DEF OthersDelete, downloads
<1>3. /\ Listed' = Listed /\ DOMAIN contents = Listed /\ name \in Listed
      /\ contents[name] \in Seq(Messages \union {GONE})
  BY <1>0, <1>1, <1>2 DEF TypeOK, Listed
<1> DEFINE less == [contents[name] EXCEPT ![uid] = GONE]
<1>4. /\ less \in Seq(Messages \union {GONE}) /\ DOMAIN less = DOMAIN contents[name]
      /\ less[uid] = GONE
      /\ \A u \in DOMAIN contents[name] : u # uid => less[u] = contents[name][u]
  BY <1>1, <1>3
<1>5. /\ DOMAIN contents' = Listed /\ contents'[name] = less
      /\ \A n \in Listed : n # name => contents'[n] = contents[n]
  BY <1>1, <1>3
<1> HIDE DEF less
<1>6. \A n \in Listed : contents'[n] \in Seq(Messages \union {GONE})
  BY <1>0, <1>4, <1>5 DEF TypeOK
<1>7. \A n \in Listed :
          /\ DOMAIN contents'[n] = DOMAIN contents[n]
          /\ \A u \in DOMAIN contents[n] :
                 \/ contents'[n][u] = contents[n][u]
                 \/ contents[n][u] = m /\ contents'[n][u] = GONE
  BY <1>1, <1>4, <1>5
<1>8. /\ moved' \in [Messages -> Range(Kinds) \union {NULL}] /\ moved'[m] = NULL
      /\ \A k \in Messages : k # m => moved'[k] = moved[k]
  BY <1>0, <1>2 DEF TypeOK
<1>9. TypeOK'
  BY <1>0, <1>2, <1>3, <1>5, <1>6, <1>8 DEF TypeOK
<1>10. SavesApart' /\ NothingReplaced' /\ SavedAsAsked'
  BY <1>2 DEF ReadingInv, SavesApart, NothingReplaced, Writing, Busy, Saving, Path, SavedAsAsked
<1>11. RequestsOK'
  BY <1>2, <1>3 DEF ReadingInv, RequestsOK, RequestOK
<1>12. AsFound'
  <2>1. \A k : Placed(k) => Placed(k)'
    BY <1>2, <1>3, <1>7 DEF Placed
  <2>2. \A k : RequestAsFound(k) => RequestAsFound(k)'
    BY <1>2, <1>3, <2>1 DEF RequestAsFound, Findable, new_folder_name
  <2> QED
    BY <1>2, <2>1, <2>2 DEF ReadingInv, AsFound
<1>13. MovedInPlace'
  <2> SUFFICES ASSUME ~others, Findable, NEW k \in Messages, moved'[k] # NULL
               PROVE  InFolder(k)'
    BY <1>2 DEF MovedInPlace, Findable
  <2>1. k # m /\ moved'[k] = moved[k]
    BY <1>8
  <2>2. InFolder(k)
    BY <2>1 DEF ReadingInv, MovedInPlace
  <2> QED
    BY <1>2, <1>3, <1>7, <2>1, <2>2 DEF InFolder
<1> QED
  BY <1>9, <1>10, <1>11, <1>12, <1>13 DEF ReadingInv

\* A save goes on with the attachment it began with.
LEMMA SaveGoesOn ==
    ASSUME FilesTyped, NEW r \in Requests, SaveNew(r)
    PROVE  /\ saving[r] # NULL /\ \A q \in Requests : q # r => saving'[q] = saving[q]
           /\ saving'[r] # NULL => /\ saving'[r].data = saving[r].data
                                   /\ saving'[r].asked = saving[r].asked
           /\ \A t \in told' : \/ t \in told
                               \/ t.data = saving[r].data /\ t.asked = saving[r].asked
<1>1. saving[r] # NULL
  BY DEF SaveNew, CreateNew, NextName, SaveFails, WriteAll, WriteFails, RemoveHalf, Saving
<1>2. saving[r] \in Save(Messages) /\ saving \in [Requests -> Save(Messages) \union {NULL}]
  BY <1>1 DEF FilesTyped
<1>3. CASE CreateNew(r) \/ NextName(r) \/ WriteFails(r)
  <2>1. PICK save : /\ saving' = [saving EXCEPT ![r] = save]
                    /\ save.data = saving[r].data /\ save.asked = saving[r].asked
    BY <1>2, <1>3 DEF CreateNew, NextName, WriteFails, Save
  <2>2. told' = told
    BY <1>3 DEF CreateNew, NextName, WriteFails
  <2> QED
    BY <1>1, <1>2, <2>1, <2>2
<1>4. CASE SaveFails(r) \/ RemoveHalf(r)
  <2>1. saving' = [saving EXCEPT ![r] = NULL] /\ told' = told
    BY <1>4 DEF SaveFails, RemoveHalf, Done
  <2> QED
    BY <1>1, <1>2, <2>1
<1>5. CASE WriteAll(r)
  <2>1. /\ saving' = [saving EXCEPT ![r] = NULL]
        /\ told' = told \union {[path |-> Path(r), data |-> saving[r].data,
                                 asked |-> saving[r].asked]}
    BY <1>5 DEF WriteAll, Done
  <2> QED
    BY <1>1, <1>2, <2>1
<1> QED
  BY <1>3, <1>4, <1>5 DEF SaveNew

LEMMA DiskKeeps ==
    ASSUME ReadingInv, Disk
    PROVE  ReadingInv'
<1>1. UNCHANGED <<delimiter, folders, contents, inbox, request, page, moved, others>>
  BY DEF Disk, server, history
<1>2. DownloadsInv /\ FilesTyped
  BY DEF ReadingInv, TypeOK, DownloadsInv, FilesTyped
<1>3. /\ DownloadsInv'
      /\ \A q \in Requests : saving[q] = NULL => saving'[q] = NULL
      /\ \A q \in Requests : saving'[q] # NULL => /\ saving'[q].data = saving[q].data
                                                  /\ saving'[q].asked = saving[q].asked
      /\ \A t \in told' : \/ t \in told \/ t.data = t.asked
                          \/ \E q \in Requests : /\ saving[q] # NULL /\ t.data = saving[q].data
                                                 /\ t.asked = saving[q].asked
  <2>1. CASE \E r \in Requests : SaveNew(r)
    <3>1. PICK r \in Requests : SaveNew(r)
      BY <2>1
    <3>2. DownloadsInv'
      BY <1>2, <3>1, SaveKeeps
    <3>3. /\ saving[r] # NULL /\ \A q \in Requests : q # r => saving'[q] = saving[q]
          /\ saving'[r] # NULL => /\ saving'[r].data = saving[r].data
                                  /\ saving'[r].asked = saving[r].asked
          /\ \A t \in told' : \/ t \in told
                              \/ t.data = saving[r].data /\ t.asked = saving[r].asked
      BY <1>2, <3>1, SaveGoesOn
    <3> QED
      BY <3>2, <3>3
  <2>2. CASE \E path \in Foreigns : ForeignWrites(path) \/ ForeignDeletes(path)
    <3>1. PICK path \in Foreigns : ForeignWrites(path) \/ ForeignDeletes(path)
      BY <2>2
    <3>2. DownloadsInv' /\ saving' = saving
      BY <1>2, <3>1, ForeignKeeps DEF ForeignWrites, ForeignDeletes
    <3>3. \A t \in told' : t \in told \/ t.data = t.asked
      BY <3>1 DEF ForeignWrites, ForeignDeletes
    <3> QED
      BY <3>2, <3>3
  <2> QED
    BY <2>1, <2>2 DEF Disk
<1>4. TypeOK' /\ SavesApart' /\ NothingReplaced'
  <2>1. Listed' = Listed
    BY <1>1 DEF Listed
  <2> QED
    BY <1>1, <1>3, <2>1 DEF ReadingInv, TypeOK, DownloadsInv, FilesTyped
<1>5. SavedAsAsked'
  BY <1>1, <1>3 DEF ReadingInv, SavedAsAsked
<1>6. MovedInPlace'
  BY <1>1 DEF ReadingInv, MovedInPlace, InFolder, Findable, Listed
<1>7. RequestsOK'
  BY <1>1, <1>3 DEF ReadingInv, RequestsOK, RequestOK, Listed
<1>8. AsFound'
  <2>1. \A k : RequestAsFound(k)' <=> RequestAsFound(k)
    BY <1>1 DEF RequestAsFound, Placed, Findable, Listed, new_folder_name
  <2>2. \A k : Placed(k)' <=> Placed(k)
    BY <1>1 DEF Placed, Listed
  <2> QED
    BY <1>1, <2>1, <2>2 DEF ReadingInv, AsFound
<1> QED
  BY <1>4, <1>5, <1>6, <1>7, <1>8 DEF ReadingInv

\* What is found is one of the folders that are there.
LEMMA FoundIsListed ==
    ASSUME TypeOK, NEW kind \in Range(Kinds), locate(folders, kind) # <<>>
    PROVE  /\ locate(folders, kind)[1] \in Listed /\ locate(folders, kind)[1] \in Seq(Parts)
           /\ locate(folders, kind) = <<locate(folders, kind)[1]>>
<1>1. folders \in Seq(ServerFolder)
  BY DEF TypeOK
<1>2. PICK n \in NamesIn(folders) : locate(folders, kind) = <<n>>
  BY <1>1, LocatesFolder
<1>3. locate(folders, kind)[1] = n
  BY <1>2
<1>4. PICK i \in DOMAIN folders : n = folders[i].name
  BY <1>2 DEF NamesIn
<1>5. folders[i] \in ServerFolder
  BY <1>1, <1>4
<1>6. n \in Seq(Parts)
  BY <1>4, <1>5 DEF ServerFolder
<1> QED
  BY <1>2, <1>3, <1>6 DEF Listed, NamesIn

LEMMA FolderForKeeps ==
    ASSUME ReadingInv, NEW r \in Requests, NEW kind \in Range(Kinds), NEW m \in Messages,
           folder_for(r, kind, m)
    PROVE  ReadingInv'
<1>0. TypeOK /\ m \in Messages \union {NULL} /\ NULL \in Row \union {NULL} /\ m # NULL
      /\ "create" \in {"create", "act"} /\ "act" \in {"create", "act"}
  BY RequestFields DEF ReadingInv
<1> DEFINE found == locate(folders, kind)
           new == new_folder_name(folders, "Archive")
<1>1. CASE found # <<>> /\ Begin(r, kind, m, NULL, "act", found[1])
  <2>1. found[1] \in Listed /\ found[1] \in Seq(Parts) /\ found = <<found[1]>>
    BY <1>0, <1>1, FoundIsListed
  <2> HIDE DEF found
  <2> QED
    BY <1>0, <1>1, <2>1, BeginKeeps DEF found
<1>2. CASE found = <<>> /\ kind = "Archive" /\ Begin(r, kind, m, NULL, "create", new)
  <2>1. new \in {<<"Archive">>, <<"INBOX", delimiter, "Archive">>}
    BY NewNameIs
  <2>2. "Archive" \in Parts /\ "INBOX" \in Parts /\ delimiter \in Parts
    BY <1>0, PartsAssumption DEF TypeOK
  <2>3. <<"Archive">> \in Seq(Parts) /\ <<"INBOX", delimiter, "Archive">> \in Seq(Parts)
    BY <2>2, Pairs
  <2>4. new \in Seq(Parts)
    BY <2>1, <2>3
  <2> HIDE DEF new
  <2> QED
    BY <1>0, <1>2, <2>4, BeginKeeps DEF new
<1> QED
  BY <1>1, <1>2 DEF folder_for

LEMMA LookKeeps ==
    ASSUME ReadingInv, NEW r \in Requests, NEW kind \in Range(Kinds),
           NEW row \in Row \union {NULL}, Look(r, kind, row),
           row # NULL => row = page /\ row.kind = kind
    PROVE  ReadingInv'
<1>0. TypeOK /\ NULL \in Messages \union {NULL} /\ "act" \in {"create", "act"}
  BY DEF ReadingInv
<1> DEFINE found == locate(folders, kind)
<1>1. found # <<>> /\ Begin(r, kind, NULL, row, "act", found[1])
  BY DEF Look, existing_folder
<1>2. found[1] \in Listed /\ found[1] \in Seq(Parts) /\ found = <<found[1]>>
  BY <1>0, <1>1, FoundIsListed
<1> HIDE DEF found
<1> QED
  BY <1>0, <1>1, <1>2, BeginKeeps DEF found

LEMMA ReadingStep == ReadingInv /\ [Next]_vars => ReadingInv'
<1> SUFFICES ASSUME ReadingInv, [Next]_vars PROVE ReadingInv'
  OBVIOUS
<1>1. ASSUME NEW r \in Requests, NEW kind \in Range(Kinds), NEW m \in Messages,
             folder_for(r, kind, m)
      PROVE  ReadingInv'
  BY <1>1, FolderForKeeps
<1>2. ASSUME NEW r \in Requests, NEW kind \in Range(Kinds), Look(r, kind, NULL)
      PROVE  ReadingInv'
  <2>1. NULL \in Row \union {NULL}
    OBVIOUS
  <2> QED
    BY <1>2, <2>1, LookKeeps
<1>3. ASSUME NEW r \in Requests, page # NULL, Look(r, page.kind, page)
      PROVE  ReadingInv'
  <2>1. page \in Row /\ page \in Row \union {NULL} /\ page.kind \in Range(Kinds)
    BY <1>3, RequestFields DEF ReadingInv, TypeOK
  <2> QED
    BY <1>3, <2>1, LookKeeps
<1>4. ASSUME NEW r \in Requests,
             \/ RequestFails(r) \/ CreateArchive(r) \/ move_message(r)
             \/ fetch_folder(r) \/ fetch_folder_attachment(r)
      PROVE  ReadingInv'
  BY <1>4, EndKeeps, CreateKeeps, MoveKeeps, FetchKeeps, AttachmentKeeps
<1>5. CASE OthersCreate \/ (\E m \in Messages : OthersDelete(m)) \/ Disk
  BY <1>5, OthersCreateKeeps, OthersDeleteKeeps, DiskKeeps
<1>6. CASE UNCHANGED vars
  <2>1. UNCHANGED <<files, saving, told, left, delimiter, folders, contents, inbox, request, page,
                    moved, others>>
    BY <1>6 DEF vars, downloads, server, history
  <2>2. TypeOK' /\ SavesApart' /\ NothingReplaced'
    BY <2>1 DEF ReadingInv, TypeOK, Listed, SavesApart, NothingReplaced, Writing, Busy, Saving, Path
  <2>3. RequestsOK' /\ SavedAsAsked' /\ MovedInPlace'
    BY <2>1 DEF ReadingInv, RequestsOK, RequestOK, Listed, SavedAsAsked, MovedInPlace,
                InFolder, Findable
  <2>4. AsFound'
    <3>1. \A k : RequestAsFound(k)' <=> RequestAsFound(k)
      BY <2>1 DEF RequestAsFound, Placed, Findable, Listed, new_folder_name
    <3>2. \A k : Placed(k)' <=> Placed(k)
      BY <2>1 DEF Placed, Listed
    <3> QED
      BY <2>1, <3>1, <3>2 DEF ReadingInv, AsFound
  <2> QED
    BY <2>2, <2>3, <2>4 DEF ReadingInv
<1> QED
  BY <1>1, <1>2, <1>3, <1>4, <1>5, <1>6 DEF Next

-----------------------------------------------------------------------------
(* What is listed *)

\* Each folder there is is listed as the first kind it is found for.
LEMMA ListedOnce ==
    ASSUME NEW known, NEW kind \in Range(Kinds), locate(known, kind) # <<>>
    PROVE  \E k \in list_folders(known) : locate(known, k) = locate(known, kind)
<1> DEFINE same == {i \in DOMAIN Kinds : locate(known, Kinds[i]) = locate(known, kind)}
<1>1. /\ DOMAIN Kinds = 1..5 /\ \A i \in 1..5 : i \in Nat
      /\ \E i \in 1..5 : Kinds[i] = kind
      /\ \A i \in 1..5 : Kinds[i] \in Range(Kinds)
      /\ \A i, j \in 1..5 : Kinds[i] = Kinds[j] => i = j
  <2>1. DOMAIN Kinds = 1..5 /\ \A i \in 1..5 : i \in Nat
    BY KindsAre
  <2>2. (\E i \in 1..5 : Kinds[i] = kind) /\ \A i \in 1..5 : Kinds[i] \in Range(Kinds)
    BY <2>1 DEF Range
  <2>3. \A i \in 1..5 : i = 1 \/ i = 2 \/ i = 3 \/ i = 4 \/ i = 5
    OBVIOUS
  <2>4. \A i, j \in 1..5 : Kinds[i] = Kinds[j] => i = j
    BY <2>3, KindsAre
  <2> QED
    BY <2>1, <2>2, <2>4
<1>2. same \in SUBSET Nat /\ same # {}
  BY <1>1
<1>3. Min(same) \in same /\ \A j \in same : Min(same) <= j
  BY <1>2, MinIsFirst
<1>4. PICK i \in same : \A j \in same : i <= j
  BY <1>3
<1>5. i \in 1..5 /\ locate(known, Kinds[i]) = locate(known, kind)
  BY <1>1, <1>4
<1>6. \A j \in 1..5 : j < i => locate(known, Kinds[j]) # locate(known, kind)
  BY <1>1, <1>4, <1>5
<1> HIDE DEF same
<1>7. Kinds[i] \in list_folders(known)
  BY <1>1, <1>5, <1>6 DEF list_folders
<1> QED
  BY <1>5, <1>7

Newer(S, n) == {k \in S : k > n}
Place(S, n) == Cardinality(Newer(S, n))

\* The newest of a finite set of numbers are as many as asked for, or all.
LEMMA NewestFill ==
    ASSUME NEW S \in SUBSET Nat, IsFiniteSet(S), NEW limit \in Nat, NEW u \in S,
           ~(Place(S, u) < limit)
    PROVE  Cardinality({n \in S : Place(S, n) < limit}) = limit
<1> DEFINE C == Cardinality(S)
           newest == {n \in S : Place(S, n) < limit}
<1>0. \A n \in S : n \in Nat
  OBVIOUS
<1>1. C \in Nat
  BY FS_CardinalityType
<1>2. ASSUME NEW n \in S
      PROVE  Place(S, n) \in 0..(C - 1) /\ IsFiniteSet(Newer(S, n))
  <2>1. IsFiniteSet(S \ {n}) /\ Cardinality(S \ {n}) = C - 1
    BY FS_RemoveElement
  <2>2. Newer(S, n) \in SUBSET (S \ {n})
    BY <1>0 DEF Newer
  <2>3. IsFiniteSet(Newer(S, n)) /\ Place(S, n) <= C - 1
    BY <2>1, <2>2, FS_Subset DEF Place
  <2> QED
    BY <2>3, <1>1, FS_CardinalityType DEF Place
<1>3. ASSUME NEW m \in S, NEW n \in S, m < n
      PROVE  Place(S, n) # Place(S, m)
  <2>1. (\A k \in S : k > n => k > m) /\ n > m /\ ~(n > n)
    BY <1>0, <1>3
  <2>2. Newer(S, n) \in SUBSET Newer(S, m) /\ n \in Newer(S, m) /\ n \notin Newer(S, n)
    BY <2>1 DEF Newer
  <2> QED
    BY <1>2, <2>2, FS_Subset DEF Place
<1>4. \A m, n \in S : Place(S, m) = Place(S, n) => m = n
  <2>1. \A m, n \in S : m < n \/ n < m \/ m = n
    BY <1>0
  <2> QED
    BY <1>3, <2>1
<1>5. \A i \in 0..(C - 1) : \E n \in S : Place(S, n) = i
  <2> DEFINE f == [n \in S |-> Place(S, n) + 1]
  <2>1. f \in [S -> 1..C]
    BY <1>1, <1>2
  <2>2. \A m, n \in S : f[m] = f[n] => m = n
    BY <1>2, <1>4
  <2>3. f \in Injection(S, 1..C)
    BY <2>1, <2>2 DEF Injection, IsInjective
  <2>4. IsFiniteSet(1..C) /\ Cardinality(1..C) = C
    BY <1>1, FS_Interval
  <2>5. f \in Surjection(S, 1..C)
    BY <2>3, <2>4, FS_Injection
  <2>6. \A i \in 1..C : \E n \in S : f[n] = i
    BY <2>5 DEF Surjection
  <2> SUFFICES ASSUME NEW i \in 0..(C - 1) PROVE \E n \in S : Place(S, n) = i
    OBVIOUS
  <2>7. i + 1 \in 1..C /\ i \in Nat
    BY <1>1
  <2>8. PICK n \in S : f[n] = i + 1
    BY <2>6, <2>7
  <2>9. Place(S, n) + 1 = i + 1 /\ Place(S, n) \in Nat
    BY <1>1, <1>2, <2>8
  <2> QED
    BY <2>7, <2>9
<1> DEFINE g == [n \in newest |-> Place(S, n) + 1]
<1>6. g \in [newest -> 1..limit]
  <2>1. \A n \in newest : Place(S, n) \in Nat /\ Place(S, n) < limit
    BY <1>1, <1>2
  <2>2. \A n \in newest : Place(S, n) + 1 \in 1..limit
    BY <2>1
  <2> QED
    BY <2>2
<1>7. \A m, n \in newest : g[m] = g[n] => m = n
  BY <1>2, <1>4
<1>8. \A i \in 1..limit : \E n \in newest : g[n] = i
  <2> SUFFICES ASSUME NEW i \in 1..limit PROVE \E n \in newest : g[n] = i
    OBVIOUS
  <2>1. i - 1 \in 0..(C - 1) /\ i - 1 < limit
    BY <1>1, <1>2
  <2>2. PICK n \in S : Place(S, n) = i - 1
    BY <1>5, <2>1
  <2> QED
    BY <2>1, <2>2
<1>9. g \in Injection(newest, 1..limit) /\ g \in Surjection(newest, 1..limit)
  BY <1>6, <1>7, <1>8 DEF Injection, IsInjective, Surjection
<1>10. IsFiniteSet(1..limit) /\ Cardinality(1..limit) = limit
  BY FS_Interval
<1> HIDE DEF newest, g
<1>11. Cardinality(newest) = limit
  BY <1>9, <1>10, FS_Injection
<1> QED
  BY <1>11 DEF newest

\* A message in a folder is among the newest, or they fill the view.
LEMMA InTheView ==
    ASSUME TypeOK, NEW n \in Listed, NEW uid \in DOMAIN contents[n],
           contents[n][uid] # GONE
    PROVE  uid \in newest_matching(n) \/ Cardinality(newest_matching(n)) = FOLDER_VIEW_LIMIT
<1> DEFINE mails == contents[n]
           there == {u \in DOMAIN mails : mails[u] # GONE}
<1>1. mails \in Seq(Messages \union {GONE})
  BY DEF TypeOK
<1>2. Len(mails) \in Nat /\ DOMAIN mails = 1..Len(mails)
  BY <1>1
<1>3. IsFiniteSet(there) /\ there \in SUBSET Nat /\ uid \in there
  <2>1. IsFiniteSet(1..Len(mails))
    BY <1>2, FS_Interval
  <2> QED
    BY <1>2, <2>1, FS_Subset
<1>4. \A u \in there : Newer(there, u) = {k \in DOMAIN mails : k > u /\ mails[k] # GONE}
  BY DEF Newer
<1>5. newest_matching(n) = {u \in there : Place(there, u) < FOLDER_VIEW_LIMIT}
  BY <1>4 DEF newest_matching, Place
<1> HIDE DEF there
<1> QED
  BY <1>3, <1>5, NewestFill, LimitAssumption

LEMMA MovedAreListed == ReadingInv /\ Findable => MovedIsListed
<1> SUFFICES ASSUME ReadingInv, Findable, NEW m \in Messages, ~others, moved[m] # NULL
             PROVE  LET found == existing_folder(folders, moved[m])
                    IN  /\ found # <<>>
                        /\ \E kind \in list_folders(folders) : locate(folders, kind) = found
                        /\ \/ \E uid \in newest_matching(found[1]) : contents[found[1]][uid] = m
                           \/ Cardinality(newest_matching(found[1])) = FOLDER_VIEW_LIMIT
  BY DEF MovedIsListed
<1>1. TypeOK /\ moved[m] \in Range(Kinds)
  BY DEF ReadingInv, TypeOK
<1>2. PICK n \in Listed : /\ locate(folders, moved[m]) = <<n>>
                          /\ \E uid \in DOMAIN contents[n] : contents[n][uid] = m
  BY DEF ReadingInv, MovedInPlace, InFolder
<1>3. existing_folder(folders, moved[m]) = <<n>> /\ <<n>> # <<>> /\ <<n>>[1] = n
  BY <1>2 DEF existing_folder
<1>4. \E kind \in list_folders(folders) : locate(folders, kind) = <<n>>
  BY <1>1, <1>2, <1>3, ListedOnce
<1>5. PICK uid \in DOMAIN contents[n] : contents[n][uid] = m
  BY <1>2
<1>6. m # GONE
  BY RequestFields
<1>7. uid \in newest_matching(n) \/ Cardinality(newest_matching(n)) = FOLDER_VIEW_LIMIT
  BY <1>1, <1>5, <1>6, InTheView
<1> QED
  BY <1>3, <1>4, <1>5, <1>7

-----------------------------------------------------------------------------
(* Theorems *)

\* The invariant holds in every state of every behaviour.
THEOREM ReadingInvariant == Spec => []ReadingInv
<1>1. Init => ReadingInv
  BY ReadingStarts
<1>2. ReadingInv /\ [Next]_vars => ReadingInv'
  BY ReadingStep
<1> QED
  BY <1>1, <1>2, PTL DEF Spec

\* Every variable keeps its type: a folder's contents are a sequence of the
\* messages and of what is gone, and no two folders share a name.
THEOREM ReadingWellTyped == Spec => []TypeOK
<1>1. ReadingInv => TypeOK
  BY DEF ReadingInv
<1> QED
  BY <1>1, ReadingInvariant, PTL

\* Every file a save answered with is there and whole, and holds the attachment
\* of the message that was listed, whatever other requests, other programs and
\* failing writes do meanwhile (downloads.rs, save_folder_attachment), as long
\* as no other mail program makes folders.
THEOREM SavedFromTheListed == Spec => []SavedAsListed
<1>1. ReadingInv => SavedAsListed
  BY DEF ReadingInv, SavedAsAsked, SavedAsListed
<1> QED
  BY <1>1, ReadingInvariant, PTL

\* What was moved to Trash or the archive is offered and listed there by every
\* later request, until another mail program makes a folder (folder_for,
\* existing_folder, list_folders, fetch_folder).  A created archive is found
\* again by the names FOLDER_NAMES has, which know two delimiters: where a
\* server has another one, this does not hold.
THEOREM MovedToTheListed ==
    ASSUME \A layout \in Layouts : layout.delimiter \in {".", "/"}
    PROVE  Spec => []MovedIsListed
<1>1. Init => Findable
  BY DEF Init, Findable
<1>2. Findable /\ [Next]_vars => Findable'
  BY DEF Findable, Next, vars, server, folder_for, Look, Begin, RequestFails, CreateArchive,
         move_message, fetch_folder, fetch_folder_attachment, OthersCreate, OthersDelete, Disk
<1>3. Spec => []Findable
  BY <1>1, <1>2, PTL DEF Spec
<1>4. ReadingInv /\ Findable => MovedIsListed
  BY MovedAreListed
<1> QED
  BY <1>3, <1>4, ReadingInvariant, PTL
=============================================================================
