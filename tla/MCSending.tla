----------------------------- MODULE MCSending -----------------------------
(* Instances of Sending for TLC. *)
EXTENDS Sending

CONSTANTS ann, bob, robot, me, Ann, Spoof

MCMails == {<<[email |-> ann, name |-> Ann]>>,
            <<[email |-> robot, name |-> NULL], [email |-> ann, name |-> Spoof],
              [email |-> bob, name |-> NULL]>>}
MCEntered == {[email |-> ann, name |-> n] : n \in {Ann, NULL}}

To(email, name) == [email |-> email, name |-> name]
Plain == [to |-> <<To(ann, NULL)>>, cc |-> <<>>, bcc |-> <<>>, subject |-> 1,
          body |-> 1, uploads |-> <<>>, indexes |-> <<>>, draft |-> TRUE]
\* A message answered and forwarded: its sender's name comes with it.
Forward == [Plain EXCEPT !.to = <<To(ann, Spoof)>>, !.bcc = <<To(bob, NULL)>>,
                         !.uploads = <<1>>, !.indexes = <<2, 1, 2>>]
\* The files of the third are too large, as soon as the second has arrived.  The
\* last five are one past a limit each: they are refused before anything is done.
MCRequests ==
    {Plain, Forward, [Forward EXCEPT !.uploads = <<2>>],
     [Plain EXCEPT !.to = <<>>], [Plain EXCEPT !.cc = <<To(robot, NULL)>>],
     [Plain EXCEPT !.indexes = <<3>>]} \union
    {[Plain EXCEPT !.cc = <<To(bob, NULL)>>, !.bcc = <<To(me, NULL)>>],
     [Plain EXCEPT !.subject = 2], [Plain EXCEPT !.body = 2],
     [Plain EXCEPT !.uploads = <<2, 2>>], [Plain EXCEPT !.indexes = <<1, 2, 3>>]}
MCOriginal == <<1, 1>>
=============================================================================
