------------------------------ MODULE Compose ------------------------------
(***************************************************************************)
(* Writing a message: the compose dialog and its autosaved draft           *)
(* (client/src/components/ComposeDialog.jsx), the draft's row              *)
(* (crates/core/src/drafts.rs) and sending (crates/core/src/mailbox.rs).   *)
(* One dialog, from opening to what its requests still do after it closed; *)
(* one action per event handler up to its next await, and per step of the  *)
(* server.  A request may fail before or after it was carried out.         *)
(*                                                                         *)
(* Abstractions.  What the form holds is one of a few texts, to which it   *)
(* may return; content() and signature are that text.  Recipients, an      *)
(* empty subject and a draft's size pass their checks; a refused save is   *)
(* one that fails.  "edits" counts the changes for the bound; "drifted"    *)
(* and "discarded" are history, which no guard reads.                      *)
(***************************************************************************)
EXTENDS Null, Naturals, Sequences

CONSTANTS
    LastText,   \* the form holds one of the texts 0..LastText
    MaxEdits,   \* bound: changes to the form
    MaxSaves,   \* bound: saves waiting their turn
    MaxSends,   \* bound: messages sent
    Impatient   \* whether Send may be pressed while Discard is under way

ASSUME BoundsAssumption ==
    /\ {LastText, MaxEdits, MaxSaves, MaxSends} \subseteq Nat
    /\ Impatient \in BOOLEAN
ASSUME NullAssumption == NULL \notin Nat

\* 0 is what the dialog opened with.
Texts == 0..LastText

VARIABLES
    dialog,     \* "open", or why it went
    text,       \* what the form holds
    edits,      \* the changes so far
    saved,      \* savedSignature
    hasDraft,
    sending,    \* "no more saves"
    busy,
    draftError,
    timer,      \* whether an autosave is due
    confirming, \* whether the discard question is open
    saving,     \* the saves, one after another
    discard,    \* the discard under way: where it is, the saves ahead of it
    submission, \* the sending under way, likewise
    store,      \* the row of the draft
    sent,       \* messages the mail server took
    discarded,  \* whether Discard was ever confirmed
    drifted     \* whether the save that ended last stored another text than
                \* the one it counts as saved

written == <<text, edits>>
form == <<dialog, written, timer>>
refs == <<saved, hasDraft, draftError, drifted>>
flags == <<sending, busy, confirming, discarded>>
server == <<store, sent>>
composeVars == <<form, refs, flags, saving, discard, submission, server>>

Save == [signature: Texts, content: Texts \union {NULL},
         at: {"queued", "asked", "stored"}, closes: BOOLEAN]
Discarding == [at: {"no", "waiting", "deleting", "deleted"}, ahead: 0..MaxSaves]
Submission == [at: {"no", "waiting", "mailing", "removing", "answering"}, ahead: 0..MaxSaves]

ComposeTypeOK ==
    /\ dialog \in {"open", "closed", "discarded", "sent", "dropped"}
    /\ text \in Texts /\ saved \in Texts /\ edits \in 0..MaxEdits
    /\ store \in Texts \union {NULL}
    /\ {hasDraft, sending, busy, draftError, timer, confirming, discarded, drifted}
           \subseteq BOOLEAN
    /\ saving \in Seq(Save) /\ Len(saving) <= MaxSaves
    /\ discard \in Discarding
    /\ submission \in Submission
    /\ sent \in 0..MaxSends

\* A new message, or a saved draft that is opened again
ComposeInit ==
    /\ dialog = "open" /\ text = 0 /\ edits = 0 /\ saved = 0
    /\ store \in {NULL, 0}
    /\ hasDraft = (store # NULL)
    /\ sending = FALSE /\ busy = FALSE /\ draftError = FALSE
    /\ timer = FALSE /\ confirming = FALSE /\ discarded = FALSE /\ drifted = FALSE
    /\ saving = <<>>
    /\ discard = [at |-> "no", ahead |-> 0]
    /\ submission = [at |-> "no", ahead |-> 0]
    /\ sent = 0

unsaved == text # saved

\* onClose, or the dialog is taken away; its timer goes with it.
Close(why) ==
    /\ dialog' = IF dialog = "open" THEN why ELSE dialog
    /\ timer' = FALSE

-----------------------------------------------------------------------------
(* Writing and saving *)

\* A change; the effect sets the timer anew, or drops it: a user who goes back
\* to what was saved has nothing unsaved.
Type ==
    /\ dialog = "open" /\ edits < MaxEdits
    /\ edits' = edits + 1
    /\ text' \in Texts \ {text}
    /\ timer' = (~busy /\ text' # saved)
    /\ UNCHANGED <<dialog, refs, flags, saving, discard, submission, server>>

SaveDraft(closes) ==
    IF sending THEN UNCHANGED saving
    ELSE /\ Len(saving) < MaxSaves
         /\ saving' = Append(saving, [signature |-> text, content |-> NULL,
                                      at |-> "queued", closes |-> closes])

Autosave ==
    /\ timer
    /\ timer' = FALSE
    /\ SaveDraft(FALSE)
    /\ UNCHANGED <<dialog, written, refs, flags, discard, submission, server>>

\* The page is about to be left, and the user stays.
Warn ==
    /\ dialog = "open" /\ unsaved
    /\ SaveDraft(FALSE)
    /\ UNCHANGED <<form, refs, flags, discard, submission, server>>

\* A save's turn comes, at once or when the one before it ends: it sends what
\* the form holds by now.
StartSave ==
    /\ saving # <<>> /\ Head(saving).at = "queued"
    /\ saving' = [saving EXCEPT ![1] = [@ EXCEPT !.at = "asked", !.content = text]]
    /\ UNCHANGED <<form, refs, flags, discard, submission, server>>

\* drafts::save
StoreDraft ==
    /\ saving # <<>> /\ Head(saving).at = "asked"
    /\ store' = Head(saving).content
    /\ saving' = [saving EXCEPT ![1] = [@ EXCEPT !.at = "stored"]]
    /\ UNCHANGED <<form, refs, flags, discard, submission, sent>>

\* Mutant of Fewer: a save that was not waited for is counted too.
FewerYet(wait) == [wait EXCEPT !.ahead = wait.ahead - 1]

Fewer(wait) == IF wait.ahead = 0 THEN wait ELSE [wait EXCEPT !.ahead = wait.ahead - 1]
NextSave ==
    /\ saving' = Tail(saving)
    /\ discard' = Fewer(discard)
    /\ submission' = Fewer(submission)

\* The dialog closes if the save was asked for that.  If not, the effect runs
\* again when "unsaved" has changed: the form may be what was saved by now, or
\* no longer, if the user went back to an earlier text meanwhile.
Saved ==
    /\ drifted' = (Head(saving).content # Head(saving).signature)
    /\ hasDraft' = TRUE /\ draftError' = FALSE
    /\ IF Head(saving).closes THEN Close("closed")
       ELSE /\ dialog' = dialog
            /\ timer' = IF (text # saved') = unsaved THEN timer
                        ELSE dialog = "open" /\ text # saved' /\ ~busy
    /\ NextSave
    /\ UNCHANGED <<written, flags, server>>

\* Mutant of SaveEnds: what the form holds now counts as saved.
SaveEndsNow ==
    /\ saving # <<>> /\ Head(saving).at = "stored"
    /\ saved' = text
    /\ Saved

\* What the save was called for counts as saved.
SaveEnds ==
    /\ saving # <<>> /\ Head(saving).at = "stored"
    /\ saved' = Head(saving).signature
    /\ Saved

SaveFails ==
    /\ saving # <<>> /\ Head(saving).at # "queued"
    /\ draftError' = TRUE
    /\ NextSave
    /\ UNCHANGED <<form, saved, hasDraft, drifted, flags, server>>

-----------------------------------------------------------------------------
(* Closing and discarding *)

\* Mutant of RequestClose: the dialog does not wait for the save.
CloseAtOnce ==
    /\ dialog = "open" /\ ~busy
    /\ IF unsaved THEN SaveDraft(FALSE) ELSE UNCHANGED saving
    /\ Close("closed")
    /\ UNCHANGED <<written, refs, flags, discard, submission, server>>

RequestClose ==
    /\ dialog = "open" /\ ~busy
    /\ IF unsaved THEN SaveDraft(TRUE) /\ UNCHANGED <<dialog, timer>>
       ELSE Close("closed") /\ UNCHANGED saving
    /\ UNCHANGED <<written, refs, flags, discard, submission, server>>

RequestDiscard ==
    /\ dialog = "open" /\ ~busy /\ ~confirming
    /\ IF text # 0 \/ hasDraft
       THEN confirming' = TRUE /\ UNCHANGED <<dialog, timer>>
       ELSE Close("closed") /\ UNCHANGED confirming
    /\ UNCHANGED <<written, refs, sending, busy, discarded, saving, discard, submission,
                   server>>

KeepEditing ==
    /\ dialog = "open" /\ confirming
    /\ confirming' = FALSE
    /\ UNCHANGED <<form, refs, sending, busy, discarded, saving, discard, submission,
                   server>>

\* One at a time (bound): another click would only delete again.
Discard ==
    /\ dialog = "open" /\ confirming /\ discard.at = "no"
    /\ sending' = TRUE
    /\ discarded' = TRUE
    /\ discard' = [at |-> "waiting", ahead |-> Len(saving)]
    /\ UNCHANGED <<form, refs, busy, confirming, saving, submission, server>>

\* The saves before it are done.
GoOnDiscarding ==
    /\ discard.at = "waiting" /\ discard.ahead = 0
    /\ IF hasDraft
       THEN discard' = [discard EXCEPT !.at = "deleting"] /\ UNCHANGED <<dialog, timer>>
       ELSE discard' = [discard EXCEPT !.at = "no"] /\ Close("discarded")
    /\ UNCHANGED <<written, refs, flags, saving, submission, server>>

\* drafts::delete
DeleteDraft ==
    /\ discard.at = "deleting"
    /\ store' = NULL
    /\ discard' = [discard EXCEPT !.at = "deleted"]
    /\ UNCHANGED <<form, refs, flags, saving, submission, sent>>

DiscardEnds ==
    /\ discard.at = "deleted"
    /\ discard' = [discard EXCEPT !.at = "no"]
    /\ Close("discarded")
    /\ UNCHANGED <<written, refs, flags, saving, submission, server>>

DiscardFails ==
    /\ discard.at \in {"deleting", "deleted"}
    /\ discard' = [discard EXCEPT !.at = "no"]
    /\ sending' = FALSE
    /\ confirming' = FALSE
    /\ UNCHANGED <<form, refs, busy, discarded, saving, submission, server>>

-----------------------------------------------------------------------------
(* Sending *)

RequestSend ==
    /\ dialog = "open" /\ ~busy
    /\ submission.at = "no" /\ sent < MaxSends
    /\ Impatient \/ discard.at = "no"
    /\ busy' = TRUE /\ sending' = TRUE
    /\ confirming' = FALSE
    /\ timer' = FALSE
    /\ submission' = [at |-> "waiting", ahead |-> Len(saving)]
    /\ UNCHANGED <<dialog, written, refs, discarded, saving, discard, server>>

\* Mutant of Submit: the message goes at once.
SubmitNow ==
    /\ submission.at = "waiting"
    /\ submission' = [submission EXCEPT !.at = "mailing"]
    /\ UNCHANGED <<form, refs, flags, saving, discard, server>>

\* The saves before it are done.
Submit ==
    /\ submission.at = "waiting" /\ submission.ahead = 0
    /\ submission' = [submission EXCEPT !.at = "mailing"]
    /\ UNCHANGED <<form, refs, flags, saving, discard, server>>

Mail ==
    /\ submission.at = "mailing"
    /\ sent' = sent + 1
    /\ submission' = [submission EXCEPT !.at = "removing"]
    /\ UNCHANGED <<form, refs, flags, saving, discard, store>>

\* Sent is sent: a draft that cannot be removed stays.
RemoveSentDraft ==
    /\ submission.at = "removing"
    /\ store' \in {NULL, store}
    /\ submission' = [submission EXCEPT !.at = "answering"]
    /\ UNCHANGED <<form, refs, flags, saving, discard, sent>>

SendEnds ==
    /\ submission.at = "answering"
    /\ submission' = [submission EXCEPT !.at = "no"]
    /\ Close("sent")
    /\ UNCHANGED <<written, refs, flags, saving, discard, server>>

\* Mutant of SendFails: the flag that stops the saves is not taken back.
SendFailsForGood ==
    /\ submission.at \in {"mailing", "removing", "answering"}
    /\ submission' = [submission EXCEPT !.at = "no"]
    /\ busy' = FALSE
    /\ timer' = (dialog = "open" /\ unsaved)
    /\ UNCHANGED <<dialog, written, refs, sending, confirming, discarded, saving, discard,
                   server>>

\* No longer busy, so the effect sets the timer again.
SendFails ==
    /\ submission.at \in {"mailing", "removing", "answering"}
    /\ submission' = [submission EXCEPT !.at = "no"]
    /\ sending' = FALSE /\ busy' = FALSE
    /\ timer' = (dialog = "open" /\ unsaved)
    /\ UNCHANGED <<dialog, written, refs, confirming, discarded, saving, discard, server>>

\* A listing finds the mailbox locked, and the page closes the dialog.
ConnectionEnds ==
    /\ dialog = "open"
    /\ Close("dropped")
    /\ UNCHANGED <<written, refs, flags, saving, discard, submission, server>>

-----------------------------------------------------------------------------
\* What follows a promise that is settled comes before any other event.
Due ==
    \/ saving # <<>> /\ Head(saving).at = "queued"
    \/ \E wait \in {discard, submission} : wait.at = "waiting" /\ wait.ahead = 0
GoOn == StartSave \/ GoOnDiscarding \/ Submit

SaveAnswers == StoreDraft \/ SaveEnds \/ SaveFails

Event ==
    \/ Type \/ Autosave \/ Warn \/ SaveAnswers
    \/ RequestClose \/ RequestDiscard \/ KeepEditing
    \/ Discard \/ DeleteDraft \/ DiscardEnds \/ DiscardFails
    \/ RequestSend \/ Mail \/ RemoveSentDraft \/ SendEnds \/ SendFails
    \/ ConnectionEnds

ComposeNext == GoOn \/ (~Due /\ Event)

ComposeSpec == ComposeInit /\ [][ComposeNext]_composeVars

\* Timers fire, and requests end one way or the other.
ComposeFairSpec ==
    /\ ComposeSpec
    /\ WF_composeVars(GoOn)
    /\ WF_composeVars(~Due /\ Autosave)
    /\ WF_composeVars(~Due /\ SaveAnswers)
-----------------------------------------------------------------------------
(* Properties that hold *)

\* "Draft saved" is true: with nothing unsaved, no save under way and no
\* failure shown, the draft is what the form holds, unless the message was
\* sent or discarded.  Excepted is the time after a save that stored a later
\* text than it counts as saved (see DraftSavedIsTrue).
NothingOnItsWay == saving = <<>> /\ ~draftError /\ sent = 0 /\ ~discarded
SavedIsStored ==
    dialog = "open" /\ hasDraft /\ ~unsaved /\ NothingOnItsWay /\ ~drifted
        => store = text

\* A dialog that closes leaves a draft of what was written: what the form
\* held when the save began that closing waits for, or, where nothing was
\* unsaved, on its way or failed, what it holds (excepted as above).
CloseKeeps ==
    dialog = "open" /\ dialog' = "closed" /\ text # 0 /\ sent = 0 /\ ~discarded =>
        /\ store # NULL
        /\ saving # saving' =>
               saving # <<>> /\ Head(saving).closes /\ store = Head(saving).content
        /\ NothingOnItsWay /\ ~drifted => store = text
ClosingKeepsWriting == [][CloseKeeps]_composeVars

\* The draft of a message that was sent or discarded is not brought back by
\* a save (the comments in send and discard).
StaysGone ==
    dialog \in {"sent", "discarded"} /\ store = NULL => store' = NULL
GoneStaysGone == [][StaysGone]_composeVars

\* What is written is saved or the failure shown, a message being sent or
\* discarded aside.
WritingIsSaved ==
    (dialog = "open" /\ unsaved)
        ~> (dialog # "open" \/ ~unsaved \/ draftError \/ busy \/ discarded)

-----------------------------------------------------------------------------
(* Claims of the repository that the code does not keep *)

\* As SavedIsStored, with no exception: what "Draft saved" says, and what
\* requestClose relies on.  A save that waits for another one counts the text
\* of its call as saved and sends what the form holds when its turn comes; a
\* user who goes back to the former is told that it is saved.
DraftSavedIsTrue ==
    dialog = "open" /\ hasDraft /\ ~unsaved /\ NothingOnItsWay => store = text

\* A dialog that goes other than by Send or Discard leaves its text in the
\* draft ("closing a message never loses it", drafts.rs; "is in its draft",
\* InboxPage.jsx).  It may be taken away, closed while its save is awaited
\* and the user types on, or closed at once on a text that was saved before
\* and is not what the save on its way or the last one stores.
ClosedIsDrafted ==
    dialog \in {"closed", "dropped"} /\ text # 0 /\ saving = <<>>
            /\ sent = 0 /\ ~discarded
        => store = text
=============================================================================
