------------------------------ MODULE MCReading ------------------------------
(* An instance of Reading for TLC. *)
EXTENDS Reading

CONSTANTS m1, m2, r1, r2

\* Two names that differ in what no file name may have
MCAttachmentName ==
    [m \in Messages |-> [text |-> "notes", unsafe |-> (m = m1), copies |-> <<>>]]

MCParts == STRING

Plain(name) == [name |-> name, attr |-> ""]
Marked(name, kind) == [name |-> name, attr |-> kind]
Inbox == Plain(INBOX)

\* A new server, one that keeps all under INBOX,
\* Gmail, and one with an archive beside its virtual folder of all mail
MCLayouts ==
    {[delimiter |-> "/", folders |-> <<Inbox>>],
     [delimiter |-> ".", folders |-> <<Inbox, Plain(<<"INBOX", ".", "Trash">>)>>],
     [delimiter |-> "/", folders |->
         <<Inbox, Marked(<<"[Gmail]", "/", "All Mail">>, "All"),
           Marked(<<"[Gmail]", "/", "Bin">>, "Trash")>>],
     [delimiter |-> "/", folders |->
         <<Inbox, Marked(<<"All">>, "All"), Plain(<<"Archive">>)>>]}

MCOtherFolders == {Marked(<<"Kept">>, "Archive")}

MCForeigns == {[text |-> "notes", unsafe |-> FALSE, copies |-> <<>>]}

MCSymmetry == Permutations(Requests)
=============================================================================
