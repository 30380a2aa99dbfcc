------------------------------ MODULE Composer ------------------------------
(* The composer of one chat: MessageInput with the send mutation of         *)
(* ChatWindow, the upload of a picked file, and the answers of the server,  *)
(* which may be lost after the message is stored. The input and the buttons *)
(* are disabled while a send or an upload is under way, but a file dialog   *)
(* that was opened before a send stays open.                                *)
EXTENDS Naturals

CONSTANTS Texts,      \* what the user may write, without surrounding blanks
          Files,      \* files the user may pick; an upload is the file's id
          Blank, NoFile

VARIABLES text, attachment,   \* the state of MessageInput
          dialog,             \* the file dialog is open
          uploading,          \* the file of the pending upload mutation
          sending,            \* what the pending send captured, and its fate
          linked,             \* uploads the server has linked to a message
          owed,               \* what the user entered last and no message holds
          unheard             \* a message was stored whose answer was lost

vars == <<text, attachment, dialog, uploading, sending, linked, owed, unheard>>

Idle == [fate |-> "none", text |-> Blank, attachment |-> NoFile]
Busy == sending.fate # "none" \/ uploading # NoFile

Init ==
  /\ text = Blank /\ attachment = NoFile
  /\ dialog = FALSE /\ uploading = NoFile
  /\ sending = Idle
  /\ linked = {}
  /\ owed = [text |-> Blank, attachment |-> NoFile]
  /\ unheard = FALSE

Type(t) ==
  /\ ~Busy /\ ~dialog
  /\ t # text
  /\ text' = t
  /\ owed' = [owed EXCEPT !.text = t]
  /\ unheard' = (unheard /\ owed.attachment # attachment)
  /\ UNCHANGED <<attachment, dialog, uploading, sending, linked>>

OpenDialog ==
  /\ ~Busy /\ ~dialog
  /\ dialog' = TRUE
  /\ UNCHANGED <<text, attachment, uploading, sending, linked, owed, unheard>>

\* handleFileChange: nothing picked or a file the checks refuse; or the upload
\* begins, whatever else is pending by now.
Pick ==
  /\ dialog
  /\ dialog' = FALSE
  /\ \/ UNCHANGED uploading
     \/ \E f \in Files \ (linked \cup {attachment, sending.attachment}): uploading' = f
  /\ UNCHANGED <<text, attachment, sending, linked, owed, unheard>>

UploadEnds ==
  /\ uploading # NoFile
  /\ uploading' = NoFile
  /\ \/ UNCHANGED <<attachment, owed>>
     \/ /\ attachment' = uploading
        /\ owed' = [owed EXCEPT !.attachment = uploading]
  /\ UNCHANGED <<text, dialog, sending, linked, unheard>>

RemoveAttachment ==
  /\ ~Busy /\ ~dialog
  /\ attachment # NoFile
  /\ attachment' = NoFile
  /\ owed' = [owed EXCEPT !.attachment = NoFile]
  /\ unheard' = (unheard /\ owed.text # text)
  /\ UNCHANGED <<text, dialog, uploading, sending, linked>>

\* The button, and handleSend's own check for the Enter key.
CanSend == ~Busy /\ (text # Blank \/ attachment # NoFile)

\* handleSend up to its await: the values it captures.
Send ==
  /\ CanSend
  /\ sending' = [fate |-> "asked", text |-> text, attachment |-> attachment]
  /\ UNCHANGED <<text, attachment, dialog, uploading, linked, owed, unheard>>

\* The server stores the message, unless its upload is linked already or
\* something else refuses it.
Decide ==
  /\ sending.fate = "asked"
  /\ \/ /\ sending.attachment \notin linked
        /\ sending' = [sending EXCEPT !.fate = "stored"]
        /\ linked' = linked \cup ({sending.attachment} \ {NoFile})
        /\ owed' = [text |-> IF owed.text = sending.text THEN Blank ELSE owed.text,
                    attachment |-> IF owed.attachment = sending.attachment THEN NoFile ELSE owed.attachment]
     \/ /\ sending' = [sending EXCEPT !.fate = "refused"]
        /\ UNCHANGED <<linked, owed>>
  /\ UNCHANGED <<text, attachment, dialog, uploading, unheard>>

\* Mutant: the composer clears itself whatever the answer says.
Cleared_Always(heard) ==
  /\ text' = IF text = sending.text THEN Blank ELSE text
  /\ attachment' = IF attachment = sending.attachment THEN NoFile ELSE attachment

\* handleSend after its await: what was sent is cleared, what is newer stays.
Cleared(heard) ==
  /\ text' = IF heard /\ text = sending.text THEN Blank ELSE text
  /\ attachment' = IF heard /\ attachment = sending.attachment THEN NoFile ELSE attachment

Answered ==
  /\ sending.fate \in {"stored", "refused"}
  /\ Cleared(sending.fate = "stored")
  /\ sending' = Idle
  /\ UNCHANGED <<dialog, uploading, linked, owed, unheard>>

\* The request times out or its answer is lost, stored or not.
AnswerLost ==
  /\ sending.fate # "none"
  /\ Cleared(FALSE)
  /\ unheard' = (unheard \/ sending.fate = "stored")
  /\ sending' = Idle
  /\ UNCHANGED <<dialog, uploading, linked, owed>>

Next ==
  \/ \E t \in Texts \cup {Blank}: Type(t)
  \/ OpenDialog \/ Pick \/ UploadEnds \/ RemoveAttachment
  \/ Send \/ Decide \/ Answered \/ AnswerLost

Spec == Init /\ [][Next]_vars

-----------------------------------------------------------------------------
\* The composer holds exactly what the user still wants to send. Nothing
\* entered is lost before a message holds it, not even a file that finishes
\* its upload while a send is pending; and nothing stored is left to be sent
\* twice, unless the answer is on its way or was lost.
DraftIsOwed ==
  /\ owed.text # Blank => text = owed.text
  /\ owed.attachment # NoFile => attachment = owed.attachment
  /\ text # owed.text \/ attachment # owed.attachment => sending.fate = "stored" \/ unheard
=============================================================================
