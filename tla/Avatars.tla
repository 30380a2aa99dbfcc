------------------------------ MODULE Avatars ------------------------------
(* The picture of one profile: UsersService.setAvatar, removeAvatar and     *)
(* updateProfile, called from several open tabs. The address of the picture *)
(* is a column of the users row, the picture a row of attachments, and each *)
(* step of a handler is one awaited statement. Repository.save first reads  *)
(* the row and then writes the columns in which the entity, loaded when the *)
(* request began, differs from it.                                          *)
EXTENDS Naturals

CONSTANTS Tabs,     \* tabs with the profile form, one request at a time each
          Pictures, \* ids of attachment rows that uploads may create
          NoPicture

VARIABLES avatar,   \* users.avatar_url in the database
          rows,     \* the attachments of the profile that exist
          call,     \* the request of each tab
          mishap    \* the column holds what its last writer did not choose: an
                    \* old address written back, or a save taken for failed

vars == <<avatar, rows, call, mishap>>

Resting == [pc |-> "rest", kind |-> "edit", mine |-> NoPicture, old |-> NoPicture, seen |-> NoPicture]

Taken == rows \cup {call[t].mine : t \in Tabs} \cup {call[t].old : t \in Tabs} \cup {avatar}

Init ==
  /\ avatar = NoPicture
  /\ rows = {}
  /\ call = [t \in Tabs |-> Resting]
  /\ mishap = FALSE

\* The form, whose buttons wait for the request of this tab, and the guard,
\* which loads the entity: its address is the previous one.
Begin(t, kind) ==
  /\ call[t].pc = "rest"
  /\ call' = [call EXCEPT ![t] =
       [pc   |-> IF kind = "upload" THEN "store" ELSE "select",
        kind |-> kind,
        mine |-> IF kind = "remove" THEN NoPicture ELSE avatar,
        old  |-> IF kind = "edit" THEN NoPicture ELSE avatar,
        seen |-> NoPicture]]
  /\ UNCHANGED <<avatar, rows, mishap>>

\* FilesService.uploadImage inserts the attachment, or refuses the file.
Store(t) ==
  /\ call[t].pc = "store"
  /\ \/ \E p \in Pictures \ Taken:
          /\ rows' = rows \cup {p}
          /\ call' = [call EXCEPT ![t].pc = "select", ![t].mine = p]
     \/ /\ call' = [call EXCEPT ![t] = Resting]
        /\ UNCHANGED rows
  /\ UNCHANGED <<avatar, mishap>>

\* What follows a save, in each of the three handlers.
AfterSave(t) == IF call[t].old # NoPicture
                THEN [call[t] EXCEPT !.pc = "clean"] ELSE Resting
AfterError(t) == IF call[t].kind = "upload"
                 THEN [call[t] EXCEPT !.pc = "undo"] ELSE Resting

SaveSelect(t) ==
  /\ call[t].pc = "select"
  /\ call' = [call EXCEPT ![t].pc = "update", ![t].seen = avatar]
  /\ UNCHANGED <<avatar, rows, mishap>>

Saved(t) == IF call[t].mine # call[t].seen THEN call[t].mine ELSE avatar

\* The UPDATE commits. A profile edit writes the address only when another
\* request has changed it since the edit began, and then writes the old one.
SaveUpdate(t) ==
  /\ call[t].pc = "update"
  /\ avatar' = Saved(t)
  /\ mishap' = IF call[t].mine = call[t].seen THEN mishap ELSE call[t].kind = "edit"
  /\ call' = [call EXCEPT ![t] = AfterSave(t)]
  /\ UNCHANGED rows

\* A statement of the save fails; or the UPDATE commits and its answer is lost.
SaveFails(t) ==
  /\ call[t].pc \in {"select", "update"}
  /\ \/ UNCHANGED <<avatar, mishap>>
     \/ /\ call[t].pc = "update"
        /\ call[t].mine # call[t].seen
        /\ avatar' = call[t].mine
        /\ mishap' = TRUE
  /\ call' = [call EXCEPT ![t] = AfterError(t)]
  /\ UNCHANGED rows

\* tryDeleteAttachmentForUrl: the row goes, or the failure is only logged.
Delete(p) == rows' \in {rows, rows \ {p}}

CleanUp(t) ==
  /\ call[t].pc = "clean"
  /\ Delete(call[t].old)
  /\ call' = [call EXCEPT ![t] = Resting]
  /\ UNCHANGED <<avatar, mishap>>

\* Mutant: the cleanup after a failed save deletes the previous picture.
Undo_Previous(t) ==
  /\ call[t].pc = "undo"
  /\ Delete(call[t].old)
  /\ call' = [call EXCEPT ![t] = Resting]
  /\ UNCHANGED <<avatar, mishap>>

Undo(t) ==
  /\ call[t].pc = "undo"
  /\ Delete(call[t].mine)
  /\ call' = [call EXCEPT ![t] = Resting]
  /\ UNCHANGED <<avatar, mishap>>

Next ==
  \E t \in Tabs:
    \/ \E kind \in {"upload", "remove", "edit"}: Begin(t, kind)
    \/ Store(t)
    \/ SaveSelect(t)
    \/ SaveUpdate(t)
    \/ SaveFails(t)
    \/ CleanUp(t)
    \/ Undo(t)

Spec == Init /\ [][Next]_vars

-----------------------------------------------------------------------------
(* AttachmentsController.getAttachment answers an unlinked attachment that  *)
(* exists to every signed-in user, and 404 otherwise.                       *)
Served(p) == p \in rows

\* However uploads, removals and edits of several tabs overlap and fail, the
\* profile never shows a picture that no longer exists, unless the address is
\* one that an edit wrote back or that a save wrote without its answer.
AvatarIsServed == avatar # NoPicture /\ ~mishap => Served(avatar)
=============================================================================
