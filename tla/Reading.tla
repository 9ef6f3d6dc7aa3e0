------------------------------ MODULE Reading ------------------------------
(***************************************************************************)
(* The folders a mail server has besides the inbox, as the app finds them  *)
(* (crates/core/src/imap_client.rs: locate, folder_for, new_folder_name):  *)
(* moving mail into one, creating the archive where there is none, and     *)
(* reading what is in one, down to an attachment saved in Downloads.       *)
(* Every request asks for the list of folders anew, so those of several    *)
(* devices and other mail programs come in between.                        *)
(*                                                                         *)
(* A folder's name is the sequence of its parts and delimiters.            *)
(***************************************************************************)
EXTENDS Downloads

CONSTANTS
    Messages, AttachmentName,    \* the name of the file attached to each
    Parts,                \* of folders' names, the delimiters included
    Layouts,              \* servers: their delimiter and folders, in LIST order
    FOLDER_VIEW_LIMIT,
    Foreigns,             \* the files others write or delete
    OtherFolders, MaxFolders    \* the folders others create; a bound

VARIABLES
    delimiter, folders, contents,    \* the server; contents by name, UIDs are places
    inbox,
    request,
    page,         \* a row some page lists
    moved,        \* history: the kind of folder a message was moved to
    others        \* history: others have changed the folders

server == <<delimiter, folders, contents, inbox>>
history == <<moved, others>>
vars == <<downloads, server, request, page, history>>

GONE == "gone"
INBOX == <<"INBOX">>
Kinds == <<"Sent", "Drafts", "Archive", "Trash", "Junk">>    \* Folder::ALL
accepts_moves(kind) == kind \in {"Trash", "Archive"}
Row == [kind: Range(Kinds), uid: Nat, message: Messages]
Request == [at: {"create", "act"}, kind: Range(Kinds), move: Messages \union {NULL},
            row: Row \union {NULL}, to: Seq(Parts)]
Listed == {folders[i].name : i \in DOMAIN folders}

ServerFolder == [name: Seq(Parts), attr: Range(Kinds) \union {"All", ""}]
ASSUME PartsAssumption == {"INBOX", "Archive"} \subseteq Parts
ASSUME LayoutsAssumption ==
    \A layout \in Layouts :
        /\ layout.delimiter \in Parts /\ layout.folders \in Seq(ServerFolder)
        /\ \A i, j \in DOMAIN layout.folders :
               layout.folders[i].name = layout.folders[j].name => i = j
ASSUME OthersAssumption == OtherFolders \subseteq ServerFolder /\ Foreigns \subseteq Names
ASSUME AttachmentsAssumption == AttachmentName \in [Messages -> Names]
ASSUME LimitAssumption == FOLDER_VIEW_LIMIT \in Nat
ASSUME ApartAssumption ==
    /\ GONE \notin Messages
    /\ NULL \notin Messages \union Row \union Request \union Save(Messages)
           \union Range(Kinds)

-----------------------------------------------------------------------------
(* Which folder is meant *)

FOLDER_NAMES(kind) ==
    LET gmail(leaf) == <<"[Gmail]", "/", leaf>>
    IN  CASE kind = "Archive" -> <<<<"Archive">>, <<"INBOX", ".", "Archive">>,
                                   <<"INBOX", "/", "Archive">>, gmail("All Mail")>>
          [] kind = "Junk" -> <<<<"Junk">>, <<"Spam">>, <<"INBOX", ".", "Junk">>, gmail("Spam")>>
          [] kind = "Sent" -> <<<<"Sent">>, <<"INBOX", ".", "Sent">>>>
          [] OTHER -> <<<<kind>>, <<"INBOX", ".", kind>>, gmail(kind)>>

NamesIn(known) == {known[i].name : i \in DOMAIN known}

\* The folder marked as one, else the first of the names there is: at most one
find_folder(known, special, names) ==
    LET marked == {i \in DOMAIN known : known[i].attr = special}
        named == {i \in DOMAIN names : names[i] \in NamesIn(known)}
    IN  IF marked # {} THEN <<known[Min(marked)].name>>
        ELSE IF named # {} THEN <<names[Min(named)]>> ELSE <<>>

\* A folder for archiving before all mail.
locate(known, kind) ==
    LET found == find_folder(known, kind, FOLDER_NAMES(kind))
    IN  IF found = <<>> /\ kind = "Archive" THEN find_folder(known, "All", <<>>) ELSE found

\* Under INBOX where every folder is
new_folder_name(known, leaf) ==
    LET rest == NamesIn(known) \ {INBOX}
        under(name) == Len(name) > 1 /\ SubSeq(name, 1, 2) = <<"INBOX", delimiter>>
    IN  IF rest # {} /\ \A name \in rest : under(name)
        THEN <<"INBOX", delimiter, leaf>> ELSE <<leaf>>

\* Mutant of existing_folder: only by mark.
MarkedOnly(known, kind) == find_folder(known, kind, <<>>)

existing_folder(known, kind) == locate(known, kind)

\* Each folder once, as the first kind it is found for
list_folders(known) ==
    {kind \in Range(Kinds) : locate(known, kind) # <<>> /\
        \A i, j \in DOMAIN Kinds :
            Kinds[j] = kind /\ i < j => locate(known, Kinds[i]) # locate(known, kind)}

\* The newest that are not gone, at most so many
newest_matching(name) ==
    {uid \in DOMAIN contents[name] :
        /\ contents[name][uid] # GONE
        /\ Cardinality({u \in DOMAIN contents[name] : u > uid /\ contents[name][u] # GONE})
               < FOLDER_VIEW_LIMIT}

-----------------------------------------------------------------------------
Init ==
    /\ DownloadsInit
    /\ \E layout \in Layouts :
           /\ delimiter = layout.delimiter /\ folders = layout.folders
           /\ contents = [name \in {f.name : f \in Range(layout.folders)} |-> <<>>]
    /\ inbox = Messages
    /\ request = [r \in Requests |-> NULL]
    /\ page = NULL
    /\ moved = [m \in Messages |-> NULL] /\ others = FALSE

At(r, step) == request[r] # NULL /\ request[r].at = step
End(r) == request' = [request EXCEPT ![r] = NULL]
Begin(r, kind, m, row, step, name) ==
    /\ request[r] = NULL /\ saving[r] = NULL
    /\ request' = [request EXCEPT ![r] =
           [at |-> step, kind |-> kind, move |-> m, row |-> row, to |-> name]]
    /\ UNCHANGED <<downloads, server, page, history>>

\* LIST, and where there is no archive the name for one
folder_for(r, kind, m) ==
    /\ accepts_moves(kind)
    /\ LET found == locate(folders, kind)
       IN  \/ found # <<>> /\ Begin(r, kind, m, NULL, "act", found[1])
           \/ /\ found = <<>> /\ kind = "Archive"
              /\ Begin(r, kind, m, NULL, "create", new_folder_name(folders, "Archive"))

\* LIST, before folder_emails or save_folder_attachment go on
Look(r, kind, row) ==
    LET found == existing_folder(folders, kind)
    IN  found # <<>> /\ Begin(r, kind, NULL, row, "act", found[1])

\* The connection, a command or the deadline fails.
RequestFails(r) ==
    request[r] # NULL /\ End(r) /\ UNCHANGED <<downloads, server, page, history>>

AddFolder(folder) ==
    /\ folders' = Append(folders, folder)
    /\ contents' = [n \in DOMAIN contents \union {folder.name} |->
                       IF n = folder.name THEN <<>> ELSE contents[n]]

\* The server refuses a name it has; a subscription changes nothing here.
CreateArchive(r) ==
    /\ At(r, "create") /\ request[r].to \notin Listed /\ Len(folders) < MaxFolders
    /\ AddFolder([name |-> request[r].to, attr |-> ""])
    /\ request' = [request EXCEPT ![r].at = "act"]
    /\ UNCHANGED <<downloads, delimiter, inbox, page, history>>

\* A message that is no longer in the inbox is not found (move_message).
move_message(r) ==
    /\ At(r, "act") /\ request[r].move \in inbox
    /\ inbox' = inbox \ {request[r].move}
    /\ contents' = [contents EXCEPT ![request[r].to] = Append(@, request[r].move)]
    /\ moved' = [moved EXCEPT ![request[r].move] = request[r].kind]
    /\ End(r)
    /\ UNCHANGED <<downloads, delimiter, folders, page, others>>

\* The page keeps one row of the answer.
fetch_folder(r) ==
    /\ At(r, "act") /\ request[r].move = NULL /\ request[r].row = NULL
    /\ \E uid \in newest_matching(request[r].to) :
           page' = [kind |-> request[r].kind, uid |-> uid,
                    message |-> contents[request[r].to][uid]]
    /\ End(r)
    /\ UNCHANGED <<downloads, server, history>>

\* Mutant of Mine: the first answer is taken, whatever message it is about.
FirstAnswer(answers, uid) == answers

\* Of the FETCH answers, those for other messages included
Mine(answers, uid) == answers \intersect {uid}

fetch_folder_attachment(r) ==
    LET row == request[r].row
    IN  /\ At(r, "act") /\ row # NULL
        /\ LET mails == contents[request[r].to]
               there == {uid \in DOMAIN mails : mails[uid] # GONE}
           IN  \E answers \in SUBSET there :
                  /\ row.uid \in there => row.uid \in answers
                  /\ \E uid \in Mine(answers, row.uid) :
                         StartSave(r, AttachmentName[mails[uid]], mails[uid], row.message)
        /\ End(r)
        /\ UNCHANGED <<files, told, left, server, page, history>>

-----------------------------------------------------------------------------
(* Other mail programs *)

OthersCreate ==
    /\ Len(folders) < MaxFolders
    /\ \E folder \in OtherFolders :
           /\ folder.name \notin Listed
           /\ AddFolder(folder)
    /\ others' = TRUE
    /\ UNCHANGED <<downloads, delimiter, inbox, request, page, moved>>

OthersDelete(m) ==
    /\ \E name \in DOMAIN contents : \E uid \in DOMAIN contents[name] :
           /\ contents[name][uid] = m
           /\ contents' = [contents EXCEPT ![name][uid] = GONE]
    /\ moved' = [moved EXCEPT ![m] = NULL]
    /\ UNCHANGED <<downloads, delimiter, folders, inbox, request, page, others>>

Disk ==
    /\ \/ \E r \in Requests : SaveNew(r)
       \/ \E path \in Foreigns : ForeignWrites(path) \/ ForeignDeletes(path)
    /\ UNCHANGED <<server, request, page, history>>

Next ==
    \/ \E r \in Requests :
           \/ \E kind \in Range(Kinds), m \in Messages : folder_for(r, kind, m)
           \/ \E kind \in Range(Kinds) : Look(r, kind, NULL)
           \/ page # NULL /\ Look(r, page.kind, page)
           \/ RequestFails(r) \/ CreateArchive(r) \/ move_message(r)
           \/ fetch_folder(r) \/ fetch_folder_attachment(r)
    \/ OthersCreate \/ \E m \in Messages : OthersDelete(m)
    \/ Disk

Spec == Init /\ [][Next]_vars

TypeOK ==
    /\ DOMAIN files \subseteq Names
    /\ saving \in [Requests -> Save(Messages) \union {NULL}]
    /\ delimiter \in Parts /\ folders \in Seq(ServerFolder)
    /\ \A i, j \in DOMAIN folders : folders[i].name = folders[j].name => i = j
    /\ DOMAIN contents = Listed
    /\ \A name \in Listed : contents[name] \in Seq(Messages \union {GONE})
    /\ inbox \subseteq Messages
    /\ request \in [Requests -> Request \union {NULL}] /\ page \in Row \union {NULL}
    /\ moved \in [Messages -> Range(Kinds) \union {NULL}] /\ others \in BOOLEAN

-----------------------------------------------------------------------------
(* Properties *)

\* What was moved to Trash or the archive, which the app may have created for
\* it, is offered and listed there by every later request, unless another mail
\* program made a folder since or newer mail fills the view.
MovedIsListed ==
    \A m \in Messages : ~others /\ moved[m] # NULL =>
        LET found == existing_folder(folders, moved[m])
        IN  /\ found # <<>>
            /\ \E kind \in list_folders(folders) : locate(folders, kind) = found
            /\ \/ \E uid \in newest_matching(found[1]) : contents[found[1]][uid] = m
               \/ Cardinality(newest_matching(found[1])) = FOLDER_VIEW_LIMIT

\* Every file a save answered with holds the attachment of the message that
\* was listed, whole, and no file was replaced, nor one left half written that
\* could be removed, though each request looks for the folder and for a free
\* name anew.
SavedAsListed ==
    /\ NothingReplaced
    /\ ~others => \A t \in told : t.data = t.asked
=============================================================================
