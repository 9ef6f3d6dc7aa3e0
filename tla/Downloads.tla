----------------------------- MODULE Downloads -----------------------------
(***************************************************************************)
(* Saving attachments into the Downloads folder of the desktop app         *)
(* (desktop/src/downloads.rs): the first free of the names "a.txt",        *)
(* "a (1).txt", ..., beside other saves and other programs.  A name is     *)
(* its text before and after the numbers that were added to it; characters *)
(* no file name may have are what safe_filename takes out of it.           *)
(***************************************************************************)
EXTENDS Null, Naturals, FiniteSets, SequencesExt

CONSTANTS
    Requests,       \* the saves under way at a time
    Texts,          \* of names
    MAX_COPIES,
    Foreign,        \* what other programs write
    MaxForeign,     \* bound: how many files of theirs there are
    MaxLeft         \* bound: half-written files that could not be removed

ASSUME CopiesAssumption == MAX_COPIES \in Nat \ {0}

VARIABLES
    files,          \* the folder: by path, what is written and whether all of it
    saving,         \* per request, the save it is at
    told,           \* history: the files somebody was told are there
    left            \* history: half-written files that could not be removed

downloads == <<files, saving, told, left>>

Names == [text: Texts, unsafe: BOOLEAN, copies: Seq(1..MAX_COPIES)]
\* What a request saves: the attachment it was asked for is history.
Save(Data) == [at: {"open", "write", "remove"}, name: Names, copy: 0 .. MAX_COPIES - 1,
               data: Data, asked: Data]
Put(path, data) == [p \in DOMAIN files \union {path} |->
                       IF p = path THEN data ELSE files[p]]
Without(path) == [p \in DOMAIN files \ {path} |-> files[p]]
Half == [data |-> NULL, whole |-> FALSE]

safe_filename(name) == [name EXCEPT !.unsafe = FALSE]

candidate(name, copy) ==
    IF copy = 0 THEN name ELSE [name EXCEPT !.copies = Append(@, copy)]

DownloadsInit ==
    files = <<>> /\ saving = [r \in Requests |-> NULL] /\ told = {} /\ left = {}

Saving(r, step) == saving[r] # NULL /\ saving[r].at = step
Path(r) == candidate(saving[r].name, saving[r].copy)
Done(r) == saving' = [saving EXCEPT ![r] = NULL]

StartSave(r, name, data, asked) ==
    saving' = [saving EXCEPT ![r] = [at |-> "open", name |-> safe_filename(name),
                                     copy |-> 0, data |-> data, asked |-> asked]]

CreateNew(r) ==
    /\ Saving(r, "open") /\ Path(r) \notin DOMAIN files
    /\ files' = Put(Path(r), Half)
    /\ saving' = [saving EXCEPT ![r].at = "write"]
    /\ UNCHANGED <<told, left>>

\* Mutant of More: one name too many is tried.
OneMore(copy) == copy < MAX_COPIES

More(copy) == copy + 1 < MAX_COPIES

NextName(r) ==
    /\ Saving(r, "open") /\ Path(r) \in DOMAIN files /\ More(saving[r].copy)
    /\ saving' = [saving EXCEPT ![r].copy = @ + 1]
    /\ UNCHANGED <<files, told, left>>

\* Too many files of the name, or the folder cannot be written to
SaveFails(r) == Saving(r, "open") /\ Done(r) /\ UNCHANGED <<files, told, left>>

\* Written and flushed: the answer is the path.
WriteAll(r) ==
    /\ Saving(r, "write")
    /\ files' = Put(Path(r), [data |-> saving[r].data, whole |-> TRUE])
    /\ told' = told \union {[path |-> Path(r), data |-> saving[r].data,
                             asked |-> saving[r].asked]}
    /\ Done(r)
    /\ UNCHANGED left

WriteFails(r) ==
    /\ Saving(r, "write")
    /\ saving' = [saving EXCEPT ![r].at = "remove"]
    /\ UNCHANGED <<files, told, left>>

\* That it cannot be removed is ignored.
RemoveHalf(r) ==
    /\ Saving(r, "remove")
    /\ \/ files' = Without(Path(r)) /\ UNCHANGED left
       \/ /\ Cardinality(left) < MaxLeft
          /\ left' = left \union {Path(r)} /\ UNCHANGED files
    /\ Done(r)
    /\ UNCHANGED told

\* Other programs leave alone what is being written.
ForeignWrites(path) ==
    /\ path \notin DOMAIN files
    /\ Cardinality({t \in told : t.data = Foreign}) < MaxForeign
    /\ files' = Put(path, [data |-> Foreign, whole |-> TRUE])
    /\ told' = told \union {[path |-> path, data |-> Foreign, asked |-> Foreign]}
    /\ UNCHANGED <<saving, left>>

ForeignDeletes(path) ==
    /\ path \in left \/ \E t \in told : t.path = path
    /\ files' = Without(path)
    /\ told' = {t \in told : t.path # path}
    /\ left' = left \ {path}
    /\ UNCHANGED saving

SaveNew(r) ==
    \/ CreateNew(r) \/ NextName(r) \/ SaveFails(r)
    \/ WriteAll(r) \/ WriteFails(r) \/ RemoveHalf(r)

-----------------------------------------------------------------------------
Writing(path) ==
    \E r \in Requests : (Saving(r, "write") \/ Saving(r, "remove")) /\ Path(r) = path

\* Whatever was said to be in the folder is there and whole, a foreign file
\* included; and what is there besides is being written, or could not be
\* removed when writing it failed.
NothingReplaced ==
    /\ \A t \in told : t.path \in DOMAIN files
                       /\ files[t.path] = [data |-> t.data, whole |-> TRUE]
    /\ \A path \in DOMAIN files :
           (\E t \in told : t.path = path) \/ Writing(path) \/ path \in left

-----------------------------------------------------------------------------
(* A claim of the repository that the code does not keep *)

\* What is not whole is being written ("No half-written file left behind under
\* the name", downloads.rs): whether it could be removed is not looked at.
NothingHalfWritten == \A path \in DOMAIN files : files[path].whole \/ Writing(path)
=============================================================================
