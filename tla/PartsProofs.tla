----------------------------- MODULE PartsProofs -----------------------------
(* What the components of Parts keep, for every value of the constants: one *)
(* inductive invariant per component, and the properties that follow.       *)
EXTENDS Parts, Integers, TLAPS, FiniteSetTheorems, WellFoundedInduction

\* A behaviour belongs to one part, and its steps are those of that part.
LEMMA OnePart ==
  ASSUME [Next]_vars
  PROVE  /\ part' = part
         /\ part = "composer" => [Compose!Next]_composeVars
         /\ part = "viewer"   => [Viewer!Next]_viewerVars
         /\ part = "avatars"  => [Profile!Next]_avatarVars
         /\ part = "requests" => [Http!Next]_requestVars
         /\ part = "list"     => [Overview!Next]_listVars
         /\ part = "contacts" => [Contact!Next]_contactVars
         /\ part = "socket"   => [Socket!Next]_socketVars
         /\ part = "search"   => [Finder!Next]_searchVars
<1>1. CASE UNCHANGED vars
  BY <1>1 DEF vars
<1>2. CASE Next
  BY <1>2 DEF Next, Idle
<1>3. QED
  BY <1>1, <1>2

-----------------------------------------------------------------------------
(* The composer. *)

\* What is being sent is what the input holds, except that a file may have been
\* attached since; once it is stored, the user does not owe it any more.
DraftInv ==
  /\ owed \in [text : Texts \cup {Blank}, attachment : Files \cup {NoFile}]
  /\ sending \in [fate : {"none", "asked", "stored", "refused"}, text : Texts \cup {Blank}, attachment : Files \cup {NoFile}]
  /\ uploading \in Files \cup {NoFile} /\ text \in Texts \cup {Blank} /\ attachment \in Files \cup {NoFile}
  /\ unheard \in BOOLEAN
  /\ sending.fate # "none" =>
       /\ text = sending.text
       /\ uploading # NoFile => uploading # sending.attachment
       /\ attachment # sending.attachment => attachment = owed.attachment
  /\ sending.fate = "stored" =>
       owed.text = Blank /\ (attachment = sending.attachment => owed.attachment = NoFile)
  /\ Compose!DraftIsOwed

\* An empty composer owes nothing.
LEMMA DraftInit == ASSUME Compose!Init PROVE DraftInv
BY DEF Compose!Init, Compose!Idle, DraftInv, Compose!DraftIsOwed

\* Every step of the composer keeps its invariant.
LEMMA DraftStep == ASSUME DraftInv, [Compose!Next]_composeVars PROVE DraftInv'
<1> USE DEF DraftInv, Compose!DraftIsOwed
<1>1. ASSUME NEW t \in Texts \cup {Blank}, Compose!Type(t) PROVE DraftInv'
  BY <1>1 DEF Compose!Type, Compose!Busy
<1>2. CASE Compose!OpenDialog
  BY <1>2 DEF Compose!OpenDialog
<1>3. CASE Compose!Pick
  BY <1>3 DEF Compose!Pick
<1>4. CASE Compose!UploadEnds
  BY <1>4 DEF Compose!UploadEnds
<1>5. CASE Compose!RemoveAttachment
  BY <1>5 DEF Compose!RemoveAttachment, Compose!Busy
<1>6. CASE Compose!Send
  BY <1>6 DEF Compose!Send, Compose!CanSend, Compose!Busy
<1>7. CASE Compose!Decide
  BY <1>7 DEF Compose!Decide
<1>8. CASE Compose!Answered
  BY <1>8 DEF Compose!Answered, Compose!Cleared, Compose!Idle
<1>9. CASE Compose!AnswerLost
  BY <1>9 DEF Compose!AnswerLost, Compose!Cleared, Compose!Idle
<1>10. CASE UNCHANGED composeVars
  BY <1>10 DEF composeVars
<1>11. QED
  BY <1>1, <1>2, <1>3, <1>4, <1>5, <1>6, <1>7, <1>8, <1>9, <1>10 DEF Compose!Next

\* Nothing the user entered is lost before a message holds it, and nothing
\* stored is left to be sent twice unless its answer is on its way or lost
\* (MessageInput.tsx, handleSend).
THEOREM Drafts == Spec => []DraftIsOwed
<1>1. Init => (part = "composer" => DraftInv)
  BY DraftInit DEF Init
<1>2. (part = "composer" => DraftInv) /\ [Next]_vars => (part = "composer" => DraftInv)'
  BY DraftStep, OnePart
<1>3. (part = "composer" => DraftInv) => DraftIsOwed
  BY DEF DraftInv, DraftIsOwed
<1>4. QED
  BY <1>1, <1>2, <1>3, PTL DEF Spec

-----------------------------------------------------------------------------
(* The media viewer. *)

\* Only the fetch of the medium the viewer is at is not cancelled.
ViewerInv ==
  /\ stage \in [src : {stage.src}, loading : BOOLEAN, failed : BOOLEAN] /\ overtaken \in BOOLEAN
  /\ fetches \subseteq {at}
  /\ Viewer!ShownIsCurrent

\* A viewer that shows nothing is current.
LEMMA ViewerInit == ASSUME Viewer!Init PROVE ViewerInv
BY DEF Viewer!Init, ViewerInv, Viewer!ShownIsCurrent

\* Every step of the viewer keeps its invariant.
LEMMA ViewerStep == ASSUME ViewerInv, [Viewer!Next]_viewerVars PROVE ViewerInv'
<1> USE DEF ViewerInv, Viewer!ShownIsCurrent
<1>1. ASSUME NEW m, Viewer!Resolve(m) PROVE ViewerInv'
  <2>1. CASE m \in cached
    <3>1. /\ stage' = [src |-> m, loading |-> FALSE, failed |-> FALSE]
          /\ at' = m /\ fetches' = {} /\ overtaken' = FALSE
      BY <1>1, <2>1 DEF Viewer!Resolve, Viewer!Cancelled
    <3>2. stage'.src = m
      BY <3>1
    <3>3. stage' \in [src : {stage'.src}, loading : BOOLEAN, failed : BOOLEAN]
      BY ONLY <3>1, <3>2
    <3>4. QED
      BY ONLY <3>1, <3>2, <3>3
  <2>2. CASE m \notin cached
    <3>1. stage' = [src |-> stage.src, loading |-> TRUE, failed |-> FALSE]
      BY <1>1, <2>2 DEF Viewer!Resolve
    <3>2. QED
      BY <1>1, <2>2, <3>1 DEF Viewer!Resolve, Viewer!Cancelled
  <2>3. QED
    BY <2>1, <2>2
<1>2. ASSUME NEW m, NEW ok \in BOOLEAN, Viewer!FetchEnds(m, ok) PROVE ViewerInv'
  BY <1>2 DEF Viewer!FetchEnds, Viewer!Shows
<1>3. ASSUME NEW m, NEW ok \in BOOLEAN, Viewer!RetryEnds(m, ok) PROVE ViewerInv'
  BY <1>3 DEF Viewer!RetryEnds, Viewer!Shows
<1>4. CASE Viewer!Close
  BY <1>4 DEF Viewer!Close, Viewer!Cancelled
<1>5. CASE Viewer!Retry
  BY <1>5 DEF Viewer!Retry
<1>6. CASE Viewer!HistoryGrows
  BY <1>6 DEF Viewer!HistoryGrows
<1>7. ASSUME NEW m, Viewer!Evicted(m) PROVE ViewerInv'
  BY <1>7 DEF Viewer!Evicted
<1>8. CASE UNCHANGED viewerVars
  BY <1>8 DEF viewerVars
<1>9. QED
  BY <1>1, <1>2, <1>3, <1>4, <1>5, <1>6, <1>7, <1>8
  DEF Viewer!Next, Viewer!Open, Viewer!Prev, Viewer!Following

\* However fast the user moves and however late fetches answer, the medium on
\* the stage is the one the viewer is at (MediaViewer.tsx, the fetch effect).
THEOREM StageIsCurrent == Spec => []ShownIsCurrent
<1>1. Init => (part = "viewer" => ViewerInv)
  BY ViewerInit DEF Init
<1>2. (part = "viewer" => ViewerInv) /\ [Next]_vars => (part = "viewer" => ViewerInv)'
  BY ViewerStep, OnePart
<1>3. (part = "viewer" => ViewerInv) => ShownIsCurrent
  BY DEF ViewerInv, ShownIsCurrent
<1>4. QED
  BY <1>1, <1>2, <1>3, PTL DEF Spec

-----------------------------------------------------------------------------
(* Profile pictures. *)

\* A stored upload whose save is still to come.
Pending(t) == call[t].kind = "upload" /\ call[t].pc \in {"select", "update"}

CallRecords ==
  [pc   : {"rest", "store", "select", "update", "clean", "undo"},
   kind : {"upload", "remove", "edit"},
   mine : Pictures \cup {NoPicture},
   old  : Pictures \cup {NoPicture},
   seen : Pictures \cup {NoPicture}]

CallsTyped == call \in [Tabs -> CallRecords]

\* A picture whose save is still to come exists, is not shown, and is known to
\* nobody else.
PendingIsOwn ==
  \A t \in Tabs : Pending(t) =>
    /\ call[t].mine \in rows /\ call[t].mine # avatar
    /\ call[t].pc = "update" => call[t].mine # call[t].seen
    /\ \A s \in Tabs : call[s].old # call[t].mine /\ (s # t => call[s].mine # call[t].mine)

\* What a handler is going to delete is not shown. A removal that found the
\* column empty writes nothing and still deletes what it loaded.
DoomedIsHidden ==
  \A t \in Tabs :
    /\ call[t].pc = "clean" => call[t].old # NoPicture /\ (mishap \/ call[t].old # avatar)
    /\ call[t].pc = "update" /\ call[t].kind = "remove" /\ call[t].seen = NoPicture /\ call[t].old # NoPicture =>
         mishap \/ call[t].old # avatar
    /\ call[t].pc = "undo" => call[t].kind = "upload" /\ call[t].mine # NoPicture /\ (mishap \/ call[t].mine # avatar)

KindsDiffer ==
  \A t \in Tabs :
    /\ call[t].kind = "remove" => call[t].mine = NoPicture
    /\ call[t].kind = "edit" => call[t].old = NoPicture
    /\ call[t].pc = "store" => call[t].kind = "upload"

AvatarInv ==
  /\ CallsTyped /\ rows \subseteq Pictures /\ avatar \in Pictures \cup {NoPicture} /\ mishap \in BOOLEAN
  /\ PendingIsOwn /\ DoomedIsHidden /\ KindsDiffer
  /\ Profile!AvatarIsServed

\* The invariant holds before any tab saves.
LEMMA AvatarInit == ASSUME Profile!Init PROVE AvatarInv
BY DEF Profile!Init, Profile!Resting, AvatarInv, CallsTyped, CallRecords, PendingIsOwn, Pending, DoomedIsHidden, KindsDiffer,
       Profile!AvatarIsServed

\* Every statement of every tab keeps the invariant.
LEMMA AvatarStep == ASSUME AvatarInv, [Profile!Next]_avatarVars PROVE AvatarInv'
<1> USE NoPictureAssumption
    DEF AvatarInv, CallsTyped, CallRecords, PendingIsOwn, Pending, DoomedIsHidden, KindsDiffer, Profile!AvatarIsServed, Profile!Served
<1>1. ASSUME NEW t \in Tabs, NEW kind \in {"upload", "remove", "edit"}, Profile!Begin(t, kind) PROVE AvatarInv'
  BY <1>1 DEF Profile!Begin
<1>2. ASSUME NEW t \in Tabs, Profile!Store(t) PROVE AvatarInv'
  <2>1. CallsTyped' /\ rows' \subseteq Pictures /\ avatar' \in Pictures \cup {NoPicture} /\ mishap' \in BOOLEAN
    BY <1>2 DEF Profile!Store, Profile!Taken, Profile!Resting
  <2>2. PendingIsOwn'
    BY <1>2 DEF Profile!Store, Profile!Taken, Profile!Resting
  <2>3. DoomedIsHidden'
    BY <1>2 DEF Profile!Store, Profile!Taken, Profile!Resting
  <2>4. KindsDiffer'
    BY <1>2 DEF Profile!Store, Profile!Taken, Profile!Resting
  <2>5. Profile!AvatarIsServed'
    BY <1>2 DEF Profile!Store, Profile!Taken, Profile!Resting
  <2>6. QED
    BY <2>1, <2>2, <2>3, <2>4, <2>5
<1>3. ASSUME NEW t \in Tabs, Profile!SaveSelect(t) PROVE AvatarInv'
  <2>1. CallsTyped' /\ rows' \subseteq Pictures /\ avatar' \in Pictures \cup {NoPicture} /\ mishap' \in BOOLEAN
    <3>1. call[t] \in CallRecords
      OBVIOUS
    <3>2. [call[t] EXCEPT !.pc = "update", !.seen = avatar] \in CallRecords
      BY <3>1
    <3>3. QED
      BY <1>3, <3>2 DEF Profile!SaveSelect
  <2>2. PendingIsOwn'
    BY <1>3 DEF Profile!SaveSelect
  <2>3. DoomedIsHidden'
    BY <1>3 DEF Profile!SaveSelect
  <2>4. KindsDiffer'
    BY <1>3 DEF Profile!SaveSelect
  <2>5. Profile!AvatarIsServed'
    BY <1>3 DEF Profile!SaveSelect
  <2>6. QED
    BY <2>1, <2>2, <2>3, <2>4, <2>5
<1>4. ASSUME NEW t \in Tabs, Profile!SaveUpdate(t) PROVE AvatarInv'
  <2>1. CallsTyped' /\ rows' \subseteq Pictures /\ avatar' \in Pictures \cup {NoPicture} /\ mishap' \in BOOLEAN
    <3>1. call[t] \in CallRecords
      OBVIOUS
    <3>2. Profile!AfterSave(t) \in CallRecords
      BY <3>1 DEF Profile!AfterSave, Profile!Resting
    <3>3. Profile!Saved(t) \in Pictures \cup {NoPicture}
      BY <3>1 DEF Profile!Saved
    <3>4. QED
      BY <1>4, <3>2, <3>3 DEF Profile!SaveUpdate
  <2>2. PendingIsOwn'
    BY <1>4 DEF Profile!SaveUpdate, Profile!Saved, Profile!AfterSave, Profile!Resting
  <2>3. DoomedIsHidden'
    BY <1>4, ZenonT(40) DEF Profile!SaveUpdate, Profile!Saved, Profile!AfterSave, Profile!Resting
  <2>4. KindsDiffer'
    BY <1>4 DEF Profile!SaveUpdate, Profile!Saved, Profile!AfterSave, Profile!Resting
  <2>5. Profile!AvatarIsServed'
    BY <1>4 DEF Profile!SaveUpdate, Profile!Saved, Profile!AfterSave, Profile!Resting
  <2>6. QED
    BY <2>1, <2>2, <2>3, <2>4, <2>5
<1>5. ASSUME NEW t \in Tabs, Profile!SaveFails(t) PROVE AvatarInv'
  <2>1. CallsTyped' /\ rows' \subseteq Pictures /\ avatar' \in Pictures \cup {NoPicture} /\ mishap' \in BOOLEAN
    <3>1. call[t] \in CallRecords
      OBVIOUS
    <3>2. Profile!AfterError(t) \in CallRecords
      BY <3>1 DEF Profile!AfterError, Profile!Resting
    <3>3. QED
      BY <1>5, <3>1, <3>2 DEF Profile!SaveFails
  <2>2. PendingIsOwn'
    BY <1>5 DEF Profile!SaveFails, Profile!AfterError, Profile!Resting
  <2>3. DoomedIsHidden'
    BY <1>5 DEF Profile!SaveFails, Profile!AfterError, Profile!Resting
  <2>4. KindsDiffer'
    BY <1>5 DEF Profile!SaveFails, Profile!AfterError, Profile!Resting
  <2>5. Profile!AvatarIsServed'
    BY <1>5 DEF Profile!SaveFails, Profile!AfterError, Profile!Resting
  <2>6. QED
    BY <2>1, <2>2, <2>3, <2>4, <2>5
<1>6. ASSUME NEW t \in Tabs, Profile!CleanUp(t) PROVE AvatarInv'
  BY <1>6 DEF Profile!CleanUp, Profile!Delete, Profile!Resting
<1>7. ASSUME NEW t \in Tabs, Profile!Undo(t) PROVE AvatarInv'
  BY <1>7 DEF Profile!Undo, Profile!Delete, Profile!Resting
<1>8. CASE UNCHANGED avatarVars
  BY <1>8 DEF avatarVars
<1>9. QED
  BY <1>1, <1>2, <1>3, <1>4, <1>5, <1>6, <1>7, <1>8, SMTT(40) DEF Profile!Next

\* However uploads, removals and edits overlap and fail, the profile shows no
\* picture that is gone, unless an edit wrote its address back or a save did
\* without an answer (users.service.ts, setAvatar and removeAvatar).
THEOREM PictureIsServed == Spec => []AvatarIsServed
<1>1. Init => (part = "avatars" => AvatarInv)
  BY AvatarInit DEF Init
<1>2. (part = "avatars" => AvatarInv) /\ [Next]_vars => (part = "avatars" => AvatarInv)'
  BY AvatarStep, OnePart
<1>3. (part = "avatars" => AvatarInv) => AvatarIsServed
  BY DEF AvatarInv, AvatarIsServed
<1>4. QED
  BY <1>1, <1>2, <1>3, PTL DEF Spec

-----------------------------------------------------------------------------
(* The contacts page. *)

\* Rows that agree with every answer this tab was told of.
Agrees(k, rs) ==
  \A p \in Contact!Peers : settled[p] # "none" =>
    IF k = "incoming" THEN p \notin rs ELSE settled[p] = "accepted" => p \in rs

AcceptedAreOpen ==
  \A q \in Contact!R!Pairs : status[q] = "accepted" => Contact!R!ChatKey(q) \in chats

SettledHolds ==
  \A p \in Contact!Peers : settled[p] # "none" => status[Contact!FromPeer(p)] = settled[p]

ListsAgree ==
  \A k \in Contact!Keys :
    /\ lists[k].state = "fresh" => Agrees(k, lists[k].rows)
    /\ loads[k].stage = "answered" /\ ~loads[k].old => Agrees(k, loads[k].rows)

\* What an invalidation left behind on the page is being fetched.
InvalidIsFetched ==
  \A k \in Contact!Mounted(page, lists) : lists[k].state = "invalid" => loads[k].stage # "idle"

ListRecords == [state : {"unknown", "fresh", "old", "invalid", "failed"}, rows : SUBSET Contact!Peers]
LoadRecords == [stage : {"idle", "asked", "answered"}, old : BOOLEAN, rows : SUBSET Contact!Peers]

ContactTypes ==
  /\ status \in [Contact!R!Pairs -> Contact!R!Statuses]
  /\ lists \in [Contact!Keys -> ListRecords]
  /\ loads \in [Contact!Keys -> LoadRecords]
  /\ settled \in [Contact!Peers -> Contact!Answers \cup {"none"}]

RespondTyped ==
  respond \in [Contact!Peers -> [stage : {"idle", "sent", "done", "refused"}, answer : Contact!Answers \cup {"none"}]]

ContactInv == ContactTypes /\ AcceptedAreOpen /\ SettledHolds /\ ListsAgree /\ InvalidIsFetched

\* The request of a peer is a pair of the abstract specification.
LEMMA PeersAsk == ASSUME NEW p \in Contact!Peers PROVE Contact!FromPeer(p) \in Contact!R!Pairs
BY SelfAssumption DEF Contact!Peers, Contact!FromPeer, Contact!R!Pairs

\* Mounting starts fetches and changes no other.
LEMMA Mounting ==
  ASSUME NEW l \in [Contact!Keys -> ListRecords], NEW ld \in [Contact!Keys -> LoadRecords],
         NEW new, NEW after \in Contact!Fetched(new, l, ld)
  PROVE  /\ after \in [Contact!Keys -> LoadRecords]
         /\ \A k \in Contact!Keys : after[k] = ld[k] \/ after[k] = Contact!Asked
         /\ \A k \in Contact!Keys : k \in new /\ l[k].state = "invalid" => after[k].stage # "idle"
<1>1. Contact!Asked \in LoadRecords /\ Contact!Asked.stage = "asked"
  BY DEF Contact!Asked, Contact!NoLoad, LoadRecords
<1>2. PICK expired \in BOOLEAN :
        after = [k \in Contact!Keys |->
          IF k \in new /\ ld[k].stage = "idle" /\ (k = "chats" /\ l[k].state \in {"fresh", "old"} => expired)
          THEN Contact!Asked ELSE ld[k]]
  BY DEF Contact!Fetched
<1>3. QED
  BY <1>1, <1>2

\* A page that was never opened agrees with the tables.
LEMMA ContactInit == ASSUME Contact!Init PROVE ContactInv
<1>1. lists \in [Contact!Keys -> ListRecords] /\ [k \in Contact!Keys |-> Contact!NoLoad] \in [Contact!Keys -> LoadRecords]
  BY DEF Contact!Init, Contact!NoList, Contact!NoLoad, ListRecords, LoadRecords
<1>2. /\ loads \in [Contact!Keys -> LoadRecords]
      /\ \A k \in Contact!Keys : loads[k] \in {Contact!NoLoad, Contact!Asked}
  BY <1>1, Mounting DEF Contact!Init
<1>3. \A k \in Contact!Keys : loads[k].stage # "answered"
  BY <1>2 DEF Contact!NoLoad, Contact!Asked
<1>4. \A k \in Contact!Keys : lists[k].state = "unknown"
  BY DEF Contact!Init, Contact!NoList
<1>5. ContactTypes
  BY <1>1, <1>2 DEF Contact!Init, ContactTypes, Contact!R!Statuses
<1>6. ListsAgree /\ InvalidIsFetched
  BY <1>3, <1>4 DEF ListsAgree, InvalidIsFetched, Contact!Mounted
<1>7. AcceptedAreOpen /\ SettledHolds
  BY PeersAsk DEF Contact!Init, AcceptedAreOpen, SettledHolds
<1>8. QED
  BY <1>5, <1>6, <1>7 DEF ContactInv

\* The three answers, one by one.
LEMMA AnswerOf ==
  /\ Contact!Answer["incoming"] = Contact!GetIncomingRequests
  /\ Contact!Answer["contacts"] = Contact!GetContacts
  /\ Contact!Answer["chats"] = Contact!FindUserConversations
BY DEF Contact!Answer

\* Less told, less to agree with.
LEMMA LessTold ==
  ASSUME ContactInv, UNCHANGED <<lists, loads, page>>,
         \A p \in Contact!Peers : settled'[p] \in {settled[p], "none"}
  PROVE  ListsAgree' /\ InvalidIsFetched'
BY DEF ContactInv, ListsAgree, InvalidIsFetched, Agrees

\* A step of the tables keeps what this tab was told of, unless it changes it.
LEMMA TablesStep ==
  ASSUME ContactInv, NEW q \in Contact!R!Pairs, Contact!R!RelStep(q)
  PROVE  /\ status' \in [Contact!R!Pairs -> Contact!R!Statuses]
         /\ \A r \in Contact!R!Pairs \ {q} : status'[r] = status[r]
         /\ AcceptedAreOpen'
<1>1. PICK s \in Contact!R!Statuses :
        /\ status' = [status EXCEPT ![q] = s]
        /\ chats \subseteq chats' /\ (s = "accepted" => Contact!R!ChatKey(q) \in chats')
  BY DEF Contact!R!RelStep, Contact!R!Request, Contact!R!Accept, Contact!R!Decline, Contact!R!Reopen,
         Contact!R!LateAccept, Contact!R!LateDecline, Contact!R!SetStatus, Contact!R!Statuses
<1>2. QED
  BY <1>1 DEF ContactInv, ContactTypes, AcceptedAreOpen

\* The tab's answers keep their types.
LEMMA RespondStep == ASSUME RespondTyped, [Contact!Next]_contactVars PROVE RespondTyped'
<1> USE DEF RespondTyped, Contact!NoCall
<1>1. ASSUME NEW p \in Contact!Peers, Contact!RespondToRequest(p) PROVE RespondTyped'
  BY <1>1 DEF Contact!RespondToRequest
<1>2. ASSUME NEW p \in Contact!Peers, Contact!Heard(p) \/ Contact!NotHeard(p) PROVE RespondTyped'
  BY <1>2 DEF Contact!Heard, Contact!NotHeard
<1>3. ASSUME NEW p \in Contact!Peers, NEW a \in Contact!Answers, Contact!Press(p, a) PROVE RespondTyped'
  BY <1>3 DEF Contact!Press
<1>4. CASE UNCHANGED respond
  BY <1>4
<1>5. QED
  BY <1>1, <1>2, <1>3, <1>4
  DEF Contact!Next, Contact!Elsewhere, Contact!Poll, Contact!Serve, Contact!Deliver, Contact!FailFetch, Contact!Retry,
      Contact!Go, contactVars

\* Every step of page, peers and other tabs keeps the invariant.
LEMMA ContactStep == ASSUME ContactInv, RespondTyped, [Contact!Next]_contactVars PROVE ContactInv'
<1>1. CASE Contact!Elsewhere
  <2>1. PICK q \in Contact!R!Pairs : Contact!R!RelStep(q)
    BY <1>1, PeersAsk, SelfAssumption DEF Contact!Elsewhere, Contact!Peers, Contact!R!Pairs
  <2>2. status' \in [Contact!R!Pairs -> Contact!R!Statuses] /\ AcceptedAreOpen'
    BY <2>1, TablesStep
  <2>3. /\ settled' = [p \in Contact!Peers |-> IF status'[Contact!FromPeer(p)] = settled[p] THEN settled[p] ELSE "none"]
        /\ UNCHANGED <<page, lists, loads>>
    BY <1>1 DEF Contact!Elsewhere
  <2>4. SettledHolds'
    BY <2>3 DEF SettledHolds, Contact!FromPeer
  <2>5. ContactTypes'
    BY <2>2, <2>3 DEF ContactInv, ContactTypes
  <2>6. ListsAgree' /\ InvalidIsFetched'
    BY <2>3, LessTold
  <2>7. QED
    BY <2>2, <2>4, <2>5, <2>6 DEF ContactInv
<1>2. ASSUME NEW p \in Contact!Peers, Contact!RespondToRequest(p) PROVE ContactInv'
  <2>1. UNCHANGED <<page, lists, loads, settled>>
    BY <1>2 DEF Contact!RespondToRequest
  <2>2. CASE UNCHANGED <<status, chats>>
    BY <2>1, <2>2, LessTold
    DEF ContactInv, ContactTypes, AcceptedAreOpen, SettledHolds, Contact!FromPeer
  <2>3. CASE Contact!R!Accept(Contact!FromPeer(p)) \/ Contact!R!Decline(Contact!FromPeer(p))
    <3>1. /\ status' \in [Contact!R!Pairs -> Contact!R!Statuses] /\ AcceptedAreOpen'
          /\ \A r \in Contact!R!Pairs \ {Contact!FromPeer(p)} : status'[r] = status[r]
      BY <2>3, PeersAsk, TablesStep DEF Contact!R!RelStep
    <3>2. status[Contact!FromPeer(p)] = "pending"
      BY <2>3 DEF Contact!R!Accept, Contact!R!Decline
    <3>3. settled[p] = "none"
      BY <3>2 DEF ContactInv, ContactTypes, SettledHolds, Contact!Answers
    <3>4. SettledHolds'
      <4>1. SUFFICES ASSUME NEW r \in Contact!Peers, settled'[r] # "none"
                     PROVE  status'[Contact!FromPeer(r)] = settled'[r]
        BY DEF SettledHolds, Contact!FromPeer
      <4>2. r # p /\ Contact!FromPeer(r) # Contact!FromPeer(p)
        BY <2>1, <3>3, <4>1 DEF Contact!FromPeer
      <4>3. QED
        BY <2>1, <3>1, <4>1, <4>2, PeersAsk DEF ContactInv, SettledHolds
    <3>5. QED
      BY <2>1, <3>1, <3>4, LessTold DEF ContactInv, ContactTypes
  <2>4. QED
    BY <1>2, <2>2, <2>3 DEF Contact!RespondToRequest
<1>3. ASSUME NEW k \in Contact!Keys, Contact!Serve(k) PROVE ContactInv'
  <2>1. /\ loads' = [loads EXCEPT ![k].stage = "answered", ![k].rows = Contact!Answer[k]]
        /\ UNCHANGED <<status, chats, page, lists, settled>>
    BY <1>3 DEF Contact!Serve
  <2>2. Contact!Answer[k] \in SUBSET Contact!Peers
    BY AnswerOf DEF Contact!Keys, Contact!GetIncomingRequests, Contact!GetContacts, Contact!FindUserConversations
  <2>3. ContactTypes'
    <3>1. [loads[k] EXCEPT !.stage = "answered", !.rows = Contact!Answer[k]] \in LoadRecords
      BY <2>2 DEF ContactInv, ContactTypes, LoadRecords
    <3>2. loads' = [loads EXCEPT ![k] = [loads[k] EXCEPT !.stage = "answered", !.rows = Contact!Answer[k]]]
      BY <2>1
    <3>3. QED
      BY <2>1, <3>1, <3>2 DEF ContactInv, ContactTypes
  <2>4. Agrees(k, Contact!Answer[k])
    <3>1. SUFFICES ASSUME NEW p \in Contact!Peers, settled[p] # "none"
                   PROVE  IF k = "incoming" THEN p \notin Contact!Answer[k] ELSE settled[p] = "accepted" => p \in Contact!Answer[k]
      BY DEF Agrees
    <3>2. status[Contact!FromPeer(p)] = settled[p] /\ settled[p] # "pending"
      BY <3>1 DEF ContactInv, ContactTypes, SettledHolds, Contact!Answers
    <3>3. settled[p] = "accepted" => Contact!R!ChatKey(Contact!FromPeer(p)) \in chats
      BY <3>2, PeersAsk DEF ContactInv, AcceptedAreOpen
    <3>4. QED
      BY <3>1, <3>2, <3>3, AnswerOf DEF Contact!Keys, Contact!GetIncomingRequests, Contact!GetContacts,
                                        Contact!FindUserConversations
  <2>5. /\ loads'[k].rows = Contact!Answer[k] /\ loads'[k].stage = "answered"
        /\ \A j \in Contact!Keys \ {k} : loads'[j] = loads[j]
    BY <2>1 DEF ContactInv, ContactTypes, LoadRecords
  <2>6. ListsAgree' /\ InvalidIsFetched'
    BY <2>1, <2>4, <2>5 DEF ContactInv, ListsAgree, InvalidIsFetched, Agrees, Contact!Mounted
  <2>7. AcceptedAreOpen' /\ SettledHolds'
    BY <2>1 DEF ContactInv, AcceptedAreOpen, SettledHolds, Contact!FromPeer
  <2>8. QED
    BY <2>3, <2>6, <2>7 DEF ContactInv
<1>4. ASSUME NEW k \in Contact!Keys, Contact!Deliver(k) PROVE ContactInv'
  <2> DEFINE known == [state |-> IF loads[k].old THEN "old" ELSE "fresh", rows |-> loads[k].rows]
             rest  == [loads EXCEPT ![k] = Contact!NoLoad]
             new   == Contact!Mounted(page, lists') \ Contact!Mounted(page, lists)
  <2>1. /\ loads[k].stage = "answered" /\ lists' = [lists EXCEPT ![k] = known]
        /\ loads' \in Contact!Fetched(new, lists', rest)
        /\ UNCHANGED <<status, chats, page, settled>>
    BY <1>4 DEF Contact!Deliver
  <2>2. loads[k] \in LoadRecords /\ lists \in [Contact!Keys -> ListRecords] /\ loads \in [Contact!Keys -> LoadRecords]
    BY DEF ContactInv, ContactTypes
  <2>3. known \in ListRecords /\ Contact!NoLoad \in LoadRecords /\ Contact!NoLoad.stage = "idle"
    BY <2>2 DEF ListRecords, LoadRecords, Contact!NoLoad
  <2>4. lists' \in [Contact!Keys -> ListRecords] /\ rest \in [Contact!Keys -> LoadRecords]
    BY <2>1, <2>2, <2>3
  <2>5. /\ loads' \in [Contact!Keys -> LoadRecords]
        /\ \A j \in Contact!Keys : loads'[j] = rest[j] \/ loads'[j] = Contact!Asked
        /\ \A j \in Contact!Keys : j \in new /\ lists'[j].state = "invalid" => loads'[j].stage # "idle"
    <3>1. ASSUME NEW l \in [Contact!Keys -> ListRecords], NEW ld \in [Contact!Keys -> LoadRecords], NEW fresh,
                 loads' \in Contact!Fetched(fresh, l, ld)
          PROVE  /\ loads' \in [Contact!Keys -> LoadRecords]
                 /\ \A j \in Contact!Keys : loads'[j] = ld[j] \/ loads'[j] = Contact!Asked
                 /\ \A j \in Contact!Keys : j \in fresh /\ l[j].state = "invalid" => loads'[j].stage # "idle"
      BY <3>1, Mounting
    <3> HIDE DEF new, rest
    <3>2. QED
      BY <2>1, <2>4, <3>1
  <2>6. Contact!Asked.stage = "asked"
    BY DEF Contact!Asked, Contact!NoLoad
  <2>7. \A j \in Contact!Keys : lists'[j] = IF j = k THEN known ELSE lists[j]
    BY <2>1, <2>2
  <2>8. \A j \in Contact!Keys : rest[j] = IF j = k THEN Contact!NoLoad ELSE loads[j]
    BY <2>2
  <2>9. ListsAgree'
    <3>1. SUFFICES ASSUME NEW j \in Contact!Keys
                   PROVE  /\ lists'[j].state = "fresh" => Agrees(j, lists'[j].rows)
                          /\ loads'[j].stage = "answered" /\ ~loads'[j].old => Agrees(j, loads'[j].rows)
      BY <2>1 DEF ListsAgree, Agrees
    <3>2. known.state = "fresh" => Agrees(k, known.rows)
      BY <2>1, <2>2 DEF ContactInv, ListsAgree, LoadRecords
    <3>3. loads'[j].stage = "answered" => loads'[j] = loads[j]
      BY <2>3, <2>5, <2>6, <2>8
    <3>4. QED
      BY <2>7, <3>2, <3>3 DEF ContactInv, ListsAgree
  <2>10. InvalidIsFetched'
    <3>1. SUFFICES ASSUME NEW j \in Contact!Keys, j \in Contact!Mounted(page, lists'), lists'[j].state = "invalid"
                   PROVE  loads'[j].stage # "idle"
      BY <2>1 DEF InvalidIsFetched, Contact!Mounted
    <3>2. j # k
      BY <2>7, <3>1
    <3>3. CASE j \in new
      BY <2>5, <3>1, <3>3
    <3>4. CASE j \in Contact!Mounted(page, lists)
      BY <2>5, <2>6, <2>7, <2>8, <3>1, <3>2, <3>4 DEF ContactInv, InvalidIsFetched
    <3>5. QED
      BY <3>1, <3>3, <3>4
  <2>11. QED
    BY <2>1, <2>4, <2>5, <2>9, <2>10 DEF ContactInv, ContactTypes, AcceptedAreOpen, SettledHolds, Contact!FromPeer
<1>5. ASSUME NEW k \in Contact!Keys, Contact!FailFetch(k) PROVE ContactInv'
  <2> DEFINE failed == [lists[k] EXCEPT !.state = IF @ = "unknown" THEN @ ELSE "failed"]
  <2>1. /\ lists' = [lists EXCEPT ![k] = failed] /\ loads' = [loads EXCEPT ![k] = Contact!NoLoad]
        /\ UNCHANGED <<status, chats, page, settled>>
    BY <1>5 DEF Contact!FailFetch
  <2>2. lists[k] \in ListRecords /\ lists \in [Contact!Keys -> ListRecords] /\ loads \in [Contact!Keys -> LoadRecords]
    BY DEF ContactInv, ContactTypes
  <2>3. /\ failed \in ListRecords /\ failed.state \in {"unknown", "failed"}
        /\ Contact!NoLoad \in LoadRecords /\ Contact!NoLoad.stage = "idle"
    BY <2>2 DEF ListRecords, LoadRecords, Contact!NoLoad
  <2>4. /\ \A j \in Contact!Keys : lists'[j] = IF j = k THEN failed ELSE lists[j]
        /\ \A j \in Contact!Keys : loads'[j] = IF j = k THEN Contact!NoLoad ELSE loads[j]
    BY <2>1, <2>2
  <2>5. ListsAgree'
    BY <2>1, <2>3, <2>4 DEF ContactInv, ListsAgree, Agrees
  <2>6. Contact!Mounted(page, lists') \subseteq Contact!Mounted(page, lists)
    BY <2>3, <2>4 DEF Contact!Mounted, Contact!Listed, Contact!Keys
  <2>7. InvalidIsFetched'
    <3>1. SUFFICES ASSUME NEW j \in Contact!Keys, j \in Contact!Mounted(page, lists'), lists'[j].state = "invalid"
                   PROVE  loads'[j].stage # "idle"
      BY <2>1 DEF InvalidIsFetched, Contact!Mounted
    <3>2. j # k
      BY <2>3, <2>4, <3>1
    <3>3. QED
      BY <2>4, <2>6, <3>1, <3>2 DEF ContactInv, InvalidIsFetched
  <2>8. QED
    BY <2>1, <2>2, <2>3, <2>5, <2>7 DEF ContactInv, ContactTypes, AcceptedAreOpen, SettledHolds, Contact!FromPeer
<1>6. ASSUME NEW k \in Contact!Keys, loads' = [loads EXCEPT ![k] = Contact!Asked],
             UNCHANGED <<status, chats, page, lists, settled>>
      PROVE  ContactInv'
  <2>1. Contact!Asked \in LoadRecords /\ Contact!Asked.stage = "asked"
    BY DEF Contact!Asked, Contact!NoLoad, LoadRecords
  <2>2. \A j \in Contact!Keys : loads'[j] = IF j = k THEN Contact!Asked ELSE loads[j]
    BY <1>6 DEF ContactInv, ContactTypes
  <2>3. ListsAgree' /\ InvalidIsFetched'
    BY <1>6, <2>1, <2>2 DEF ContactInv, ListsAgree, InvalidIsFetched, Agrees, Contact!Mounted
  <2>4. QED
    BY <1>6, <2>1, <2>3 DEF ContactInv, ContactTypes, AcceptedAreOpen, SettledHolds, Contact!FromPeer
<1>7. ASSUME NEW on, Contact!Go(on) PROVE ContactInv'
  <2>1. /\ page' = on /\ loads' \in Contact!Fetched(Contact!Mounted(on, lists), lists, loads)
        /\ UNCHANGED <<status, chats, lists, settled>>
    BY <1>7 DEF Contact!Go
  <2>2. /\ loads' \in [Contact!Keys -> LoadRecords]
        /\ \A k \in Contact!Keys : loads'[k] = loads[k] \/ loads'[k] = Contact!Asked
        /\ \A k \in Contact!Keys : k \in Contact!Mounted(on, lists) /\ lists[k].state = "invalid" => loads'[k].stage # "idle"
    BY <2>1, Mounting DEF ContactInv, ContactTypes
  <2>3. Contact!Asked.stage = "asked"
    BY DEF Contact!Asked, Contact!NoLoad
  <2>4. ListsAgree'
    BY <2>1, <2>2, <2>3 DEF ContactInv, ListsAgree, Agrees
  <2>5. InvalidIsFetched'
    BY <2>1, <2>2 DEF InvalidIsFetched, Contact!Mounted
  <2>6. QED
    BY <2>1, <2>2, <2>4, <2>5 DEF ContactInv, ContactTypes, AcceptedAreOpen, SettledHolds, Contact!FromPeer
<1>8. ASSUME NEW p \in Contact!Peers, Contact!Heard(p) PROVE ContactInv'
  <2>1. /\ Contact!Invalidate /\ UNCHANGED <<status, chats, page>>
        /\ settled' = [settled EXCEPT ![p] = IF status[Contact!FromPeer(p)] = respond[p].answer THEN respond[p].answer ELSE "none"]
    BY <1>8 DEF Contact!Heard
  <2>2. \A q \in Contact!Peers : settled'[q] # "none" => settled'[q] = status[Contact!FromPeer(q)]
    BY <2>1 DEF ContactInv, ContactTypes, SettledHolds, Contact!FromPeer
  <2>3. settled' \in [Contact!Peers -> Contact!Answers \cup {"none"}]
    BY <1>8, <2>1 DEF ContactInv, ContactTypes, RespondTyped
  <2>4. \A k \in Contact!Keys :
          /\ lists'[k] = lists[k] \/ lists'[k] = [lists[k] EXCEPT !.state = "invalid"]
          /\ lists'[k] \in ListRecords /\ lists'[k].state # "fresh"
          /\ lists'[k].state = "unknown" <=> lists[k].state = "unknown"
          /\ lists'[k].rows = lists[k].rows /\ (Contact!Listed(lists'[k]) <=> Contact!Listed(lists[k]))
    BY <2>1 DEF Contact!Invalidate, Contact!Invalidated, Contact!Listed, ContactInv, ContactTypes, ListRecords
  <2>5. \A k \in Contact!Keys :
          /\ loads'[k] \in LoadRecords
          /\ loads'[k].stage = "answered" => loads'[k].old
          /\ Contact!Refetched(k) => loads'[k].stage = "asked"
          /\ ~Contact!Refetched(k) => loads'[k].stage = loads[k].stage
    BY <2>1 DEF Contact!Invalidate, Contact!Invalidated, Contact!Asked, Contact!NoLoad, ContactInv, ContactTypes, LoadRecords
  <2>6. ContactTypes'
    <3>1. lists' = [k \in Contact!Keys |-> lists'[k]] /\ loads' = [k \in Contact!Keys |-> loads'[k]]
      BY <2>1 DEF Contact!Invalidate
    <3>2. QED
      BY <2>1, <2>3, <2>4, <2>5, <3>1 DEF ContactInv, ContactTypes
  <2>7. InvalidIsFetched'
    <3>1. SUFFICES ASSUME NEW k \in Contact!Keys, k \in Contact!Mounted(page, lists'), lists'[k].state = "invalid"
                   PROVE  loads'[k].stage # "idle"
      BY <2>1 DEF InvalidIsFetched, Contact!Mounted
    <3>2. k \in Contact!Mounted(page, lists) /\ lists[k].state # "unknown"
      BY <2>4, <3>1 DEF Contact!Mounted, Contact!Keys
    <3>3. QED
      BY <2>5, <3>2 DEF Contact!Refetched
  <2>8. QED
    BY <2>1, <2>2, <2>4, <2>5, <2>6, <2>7
    DEF ContactInv, AcceptedAreOpen, SettledHolds, ListsAgree, Contact!FromPeer
<1>9. CASE UNCHANGED <<status, chats, page, lists, loads, settled>>
  BY <1>9 DEF ContactInv, ContactTypes, AcceptedAreOpen, SettledHolds, ListsAgree, Agrees, InvalidIsFetched,
              Contact!Mounted, Contact!FromPeer
<1>10. QED
  <2>1. ASSUME NEW k \in Contact!Keys, Contact!Retry(k) PROVE ContactInv'
    BY <1>6, <2>1 DEF Contact!Retry
  <2>2. CASE Contact!Poll
    BY <1>6, <2>2 DEF Contact!Poll, Contact!Keys
  <2>3. ASSUME NEW p \in Contact!Peers, Contact!NotHeard(p) PROVE ContactInv'
    BY <1>9, <2>3 DEF Contact!NotHeard
  <2>4. ASSUME NEW p \in Contact!Peers, NEW reply \in Contact!Answers, Contact!Press(p, reply) PROVE ContactInv'
    BY <1>9, <2>4 DEF Contact!Press
  <2>5. CASE UNCHANGED contactVars
    BY <1>9, <2>5 DEF contactVars
  <2>6. QED
    BY <1>1, <1>2, <1>3, <1>4, <1>5, <1>7, <1>8, <2>1, <2>2, <2>3, <2>4, <2>5 DEF Contact!Next

\* Once this tab was told of its answer, no list at rest offers the request
\* again, and the new contact is listed with its chat
\* (use-contact-mutations.ts, onSuccess).
THEOREM AnswersSettle == Spec => []AnsweredIsSettled
<1>1. Init => (part = "contacts" => ContactInv /\ RespondTyped)
  BY ContactInit DEF Init, Contact!Init, Contact!NoCall, RespondTyped
<1>2. (part = "contacts" => ContactInv /\ RespondTyped) /\ [Next]_vars => (part = "contacts" => ContactInv /\ RespondTyped)'
  BY ContactStep, RespondStep, OnePart
<1>3. (part = "contacts" => ContactInv /\ RespondTyped) => AnsweredIsSettled
  <2>1. SUFFICES ASSUME ContactInv PROVE Contact!AnsweredIsSettled
    BY DEF AnsweredIsSettled
  <2>2. ASSUME NEW k \in Contact!Keys, Contact!AtRest(k) PROVE Agrees(k, lists[k].rows)
    BY <2>1, <2>2 DEF Contact!AtRest, ContactInv, ContactTypes, ListRecords, ListsAgree, InvalidIsFetched
  <2>3. QED
    BY <2>2 DEF Contact!AnsweredIsSettled, Agrees, Contact!Keys
<1>4. QED
  BY <1>1, <1>2, <1>3, PTL DEF Spec

-----------------------------------------------------------------------------
(* Requests. *)

\* What a request of a route may have met.
Causes(r) == {Http!TooManyRequests, Http!NotSignedIn, Http!Nothing} \cup Http!HandlerFails(r)

\* A user's counter counts the user's own requests.
RequestInv ==
  /\ spent \in [Http!Routes -> [Http!Trackers -> Nat]]
  /\ granted \in [Http!Routes -> [Users -> Nat]]
  /\ \A r \in Http!Routes, u \in Users : granted[r][u] = spent[r][u] /\ spent[r][u] <= Limit[r]
  /\ answer.route \in Http!Routes /\ answer.cause \in Causes(answer.route)

\* Header and cookie, read twice by guards that know nothing of each other,
\* name one user.
LEMMA TrackerIsPrincipal ==
  ASSUME NEW bearer \in Http!Credentials, NEW cookie \in Http!Credentials
  PROVE  /\ Http!Tracker(bearer, cookie) \in Http!Trackers
         /\ Http!Principal(bearer, cookie) \in Users \cup {Nobody}
         /\ \A u \in Users : Http!Tracker(bearer, cookie) = u <=> Http!Principal(bearer, cookie) = u
BY NobodyAssumption
DEF Http!Credentials, Http!Broken, Http!Trackers, Http!TheAddress, Http!Tracker, Http!ResolveUserId, Http!Extracted,
    Http!Principal

\* An answer is that of its request.
LEMMA AnsweredFields ==
  ASSUME NEW r, NEW u, NEW e
  PROVE  Http!Answered(r, u, e).route = r /\ Http!Answered(r, u, e).user = u /\ Http!Answered(r, u, e).cause = e
BY DEF Http!Answered

\* Nothing but the rate limit answers what the rate limit answers.
LEMMA LimitAnswersAlone ==
  ASSUME NEW r \in Http!Routes
  PROVE  /\ \A e \in Http!HandlerFails(r) : e # Http!TooManyRequests
         /\ Http!NotSignedIn # Http!TooManyRequests /\ Http!Nothing # Http!TooManyRequests
<1>1. Http!TooManyRequests.shape = "string" /\ Http!TooManyRequests.status = 429
  BY DEF Http!TooManyRequests, Http!Thrown
<1>2. \A e \in Http!HandlerFails(r) : e.shape # "string"
  BY DEF Http!HandlerFails, Http!Coded, Http!Invalid, Http!Unexpected, Http!Unreachable, Http!MailNotSent,
         Http!FileTooLarge, Http!Thrown
<1>3. Http!NotSignedIn.shape = "record"
  BY DEF Http!NotSignedIn, Http!Thrown
<1>4. Http!Nothing # Http!TooManyRequests
  BY DEF Http!Nothing, Http!TooManyRequests, Http!Thrown
<1>5. QED
  BY <1>1, <1>2, <1>3, <1>4

\* No request has been counted yet.
LEMMA RequestInit == ASSUME Http!Init PROVE RequestInv
<1>1. Http!Unreachable \in Http!HandlerFails("open") /\ "open" \in Http!Routes
  BY DEF Http!HandlerFails, Http!Routes
<1>2. answer.route = "open" /\ answer.cause = Http!Unreachable
  BY AnsweredFields DEF Http!Init
<1>3. \A r \in Http!Routes : Limit[r] \in Nat
  BY LimitIsNatural DEF Http!Routes
<1>4. QED
  BY <1>1, <1>2, <1>3 DEF Http!Init, RequestInv, Causes, Http!Trackers

\* A request spends the budget of its user and its envelope names its cause.
LEMMA RequestStep ==
  ASSUME RequestInv, [Http!Next]_requestVars
  PROVE  RequestInv' /\ Http!SpendsOwnBudget
<1> USE DEF RequestInv
<1>0. \A r \in Http!Routes : Limit[r] \in Nat
  BY LimitIsNatural DEF Http!Routes
<1>1. CASE Http!Fail
  <2>1. PICK e \in Http!HandlerFails(answer.route) : answer' = Http!Answered(answer.route, answer.user, e)
    BY <1>1 DEF Http!Fail
  <2>2. answer'.route = answer.route /\ answer'.cause = e
    BY <2>1, AnsweredFields
  <2>3. e # Http!TooManyRequests
    BY LimitAnswersAlone
  <2>4. UNCHANGED <<spent, granted>>
    BY <1>1 DEF Http!Fail
  <2>5. \A r \in Http!Routes, u \in Users : answer' # Http!Answered(r, u, Http!TooManyRequests)
    BY <2>2, <2>3, AnsweredFields
  <2>6. QED
    BY <1>0, <2>2, <2>4, <2>5 DEF Causes, Http!SpendsOwnBudget
<1>2. ASSUME NEW r \in Http!Routes, NEW bearer \in Http!Credentials, NEW cookie \in Http!Credentials,
             Http!Call(r, bearer, cookie)
      PROVE  RequestInv' /\ Http!SpendsOwnBudget
  <2> DEFINE user == Http!Principal(bearer, cookie)
             key  == Http!Tracker(bearer, cookie)
  <2>1. /\ key \in Http!Trackers /\ user \in Users \cup {Nobody}
        /\ \A u \in Users : key = u <=> user = u
    BY TrackerIsPrincipal
  <2>2. Http!Refused(r, user, key) \/ Http!Passed(r, user, key)
    BY <1>2 DEF Http!Call
  <2> HIDE DEF user, key
  <2>3. CASE Http!Refused(r, user, key)
    <3>1. /\ UNCHANGED <<spent, granted>> /\ spent[r][key] = Limit[r]
          /\ answer' = Http!Answered(r, user, Http!TooManyRequests)
      BY <2>3 DEF Http!Refused
    <3>2. answer'.route = r /\ answer'.user = user /\ answer'.cause = Http!TooManyRequests
      BY <3>1, AnsweredFields
    <3>3. \A q \in Http!Routes, u \in Users :
            answer' = Http!Answered(q, u, Http!TooManyRequests) => granted[q][u] = Limit[q]
      BY <2>1, <3>1, <3>2, AnsweredFields
    <3>4. QED
      BY <1>0, <3>1, <3>2, <3>3 DEF Causes, Http!SpendsOwnBudget
  <2>4. CASE Http!Passed(r, user, key)
    <3>1. /\ spent[r][key] < Limit[r] /\ spent' = [spent EXCEPT ![r][key] = @ + 1]
          /\ granted' = IF user = Nobody THEN granted ELSE [granted EXCEPT ![r][user] = @ + 1]
          /\ \E e \in {Http!NotSignedIn, Http!Nothing} : answer' = Http!Answered(r, user, e)
      BY <2>4 DEF Http!Passed
    <3>2. answer'.route = r /\ answer'.cause \in {Http!NotSignedIn, Http!Nothing}
      BY <3>1, AnsweredFields
    <3>3. \A q \in Http!Routes, u \in Users : answer' # Http!Answered(q, u, Http!TooManyRequests)
      BY <3>2, AnsweredFields, LimitAnswersAlone
    <3>4. spent' \in [Http!Routes -> [Http!Trackers -> Nat]] /\ granted' \in [Http!Routes -> [Users -> Nat]]
      BY <2>1, <3>1, NobodyAssumption
    <3>5. \A q \in Http!Routes, u \in Users : granted'[q][u] = spent'[q][u] /\ spent'[q][u] <= Limit[q]
      <4>1. SUFFICES ASSUME NEW q \in Http!Routes, NEW u \in Users
                     PROVE  granted'[q][u] = spent'[q][u] /\ spent'[q][u] <= Limit[q]
        OBVIOUS
      <4>2. u \in Http!Trackers /\ u # Nobody
        BY NobodyAssumption DEF Http!Trackers
      <4>3. CASE q = r /\ u = key
        BY <1>0, <2>1, <3>1, <4>2, <4>3
      <4>4. CASE ~(q = r /\ u = key)
        BY <1>0, <2>1, <3>1, <4>2, <4>4
      <4>5. QED
        BY <4>3, <4>4
    <3>6. QED
      BY <1>0, <3>2, <3>3, <3>4, <3>5 DEF Causes, Http!SpendsOwnBudget
  <2>5. QED
    BY <2>2, <2>3, <2>4
<1>3. ASSUME NEW u \in Users, Http!Close(u) PROVE RequestInv' /\ Http!SpendsOwnBudget
  BY <1>0, <1>3 DEF Http!Close, Http!SpendsOwnBudget, Causes
<1>4. ASSUME NEW r \in Http!Routes, NEW k \in Http!Trackers, Http!WindowEnds(r, k)
      PROVE  RequestInv' /\ Http!SpendsOwnBudget
  <2>1. /\ spent' = [spent EXCEPT ![r][k] = 0] /\ UNCHANGED answer
        /\ granted' = IF k \in Users THEN [granted EXCEPT ![r][k] = 0] ELSE granted
    BY <1>4 DEF Http!WindowEnds
  <2>2. \A q \in Http!Routes, u \in Users : granted'[q][u] = spent'[q][u] /\ spent'[q][u] <= Limit[q]
    BY <1>0, <2>1 DEF Http!Trackers
  <2>3. spent' \in [Http!Routes -> [Http!Trackers -> Nat]] /\ granted' \in [Http!Routes -> [Users -> Nat]]
    BY <2>1
  <2>4. QED
    BY <1>0, <2>1, <2>2, <2>3 DEF Http!SpendsOwnBudget, Causes
<1>5. CASE UNCHANGED requestVars
  BY <1>0, <1>5 DEF requestVars, Causes, Http!SpendsOwnBudget
<1>6. QED
  BY <1>1, <1>2, <1>3, <1>4, <1>5 DEF Http!Next

\* The budget of a signed-in user is the user's own, whichever of header and
\* cookie carries the session (app-throttler.guard.ts, getTracker).
THEOREM OwnBudget == Spec => BudgetIsPersonal
<1>1. Init => (part = "requests" => RequestInv)
  BY RequestInit DEF Init
<1>2. (part = "requests" => RequestInv) /\ [Next]_vars => (part = "requests" => RequestInv)'
  BY RequestStep, OnePart
<1>3. (part = "requests" => RequestInv) /\ [Next]_vars => [part = "requests" => Http!SpendsOwnBudget]_vars
  BY RequestStep, OnePart
<1>4. QED
  BY <1>1, <1>2, <1>3, PTL DEF Spec, BudgetIsPersonal

\* Whatever is thrown, the filters put its code into the envelope.
LEMMA CodesAreTheirs ==
  ASSUME NEW r \in Http!Routes, NEW e \in Causes(r), e # Http!Nothing, e # Http!Unreachable
  PROVE  IF e = Http!MailNotSent THEN Http!Filtered(e).message = "EMAIL_SEND_FAILED"
         ELSE Http!Filtered(e).code = Http!Key(e)
<1> USE NoCodeAssumption DEF Http!Thrown
<1> DEFINE Right(x) == IF x = Http!MailNotSent THEN Http!Filtered(x).message = "EMAIL_SEND_FAILED"
                       ELSE Http!Filtered(x).code = Http!Key(x)
<1>0. /\ Http!MailNotSent.kind = "http" /\ Http!MailNotSent.message = "EMAIL_SEND_FAILED"
      /\ Http!MailNotSent \notin {Http!TooManyRequests, Http!NotSignedIn, Http!Invalid, Http!FileTooLarge, Http!Unexpected}
      /\ Http!TooManyRequests \notin {Http!NotSignedIn, Http!Invalid, Http!FileTooLarge, Http!Unexpected}
      /\ Http!NotSignedIn \notin {Http!Invalid, Http!FileTooLarge, Http!Unexpected}
      /\ Http!Invalid \notin {Http!FileTooLarge, Http!Unexpected} /\ Http!FileTooLarge # Http!Unexpected
  <2>1. /\ Http!MailNotSent.status = 500 /\ Http!MailNotSent.kind = "http" /\ Http!TooManyRequests.status = 429
        /\ Http!NotSignedIn.status = 401 /\ Http!Invalid.status = 400 /\ Http!FileTooLarge.status = 413
        /\ Http!Unexpected.status = 500 /\ Http!Unexpected.kind = "error" /\ Http!MailNotSent.message = "EMAIL_SEND_FAILED"
    BY DEF Http!MailNotSent, Http!TooManyRequests, Http!NotSignedIn, Http!Invalid, Http!FileTooLarge, Http!Unexpected
  <2>2. QED
    BY <2>1
<1>1. Right(Http!MailNotSent)
  BY <1>0 DEF Http!Filtered, Http!ToError, Http!Envelope
<1>2. Right(Http!TooManyRequests)
  <2>1. Http!TooManyRequests.kind = "http" /\ Http!TooManyRequests.shape = "string" /\ Http!TooManyRequests.code = NoCode /\ Http!TooManyRequests.status = 429
    BY DEF Http!TooManyRequests
  <2>2. Http!Filtered(Http!TooManyRequests).code = "RATE_LIMIT_EXCEEDED"
    BY <2>1 DEF Http!Filtered, Http!ToError, Http!Envelope, Http!CodeForStatus
  <2>3. Http!Key(Http!TooManyRequests) = "RATE_LIMIT_EXCEEDED"
    BY <2>1, <1>0 DEF Http!Key
  <2>4. QED
    BY <2>2, <2>3, <1>0
<1>3. Right(Http!NotSignedIn)
  <2>1. Http!NotSignedIn.kind = "http" /\ Http!NotSignedIn.code = NoCode /\ Http!NotSignedIn.status = 401
    BY DEF Http!NotSignedIn
  <2>2. Http!Filtered(Http!NotSignedIn).code = "UNAUTHORIZED"
    BY <2>1 DEF Http!Filtered, Http!ToError, Http!Envelope, Http!CodeForStatus
  <2>3. Http!Key(Http!NotSignedIn) = "UNAUTHORIZED"
    BY <2>1, <1>0 DEF Http!Key
  <2>4. QED
    BY <2>2, <2>3, <1>0
<1>4. Right(Http!Invalid)
  <2>1. Http!Invalid.kind = "http" /\ Http!Invalid.code = NoCode /\ Http!Invalid.status = 400
    BY DEF Http!Invalid
  <2>2. Http!Filtered(Http!Invalid).code = "VALIDATION_ERROR"
    BY <2>1 DEF Http!Filtered, Http!ToError, Http!Envelope, Http!CodeForStatus
  <2>3. Http!Key(Http!Invalid) = "VALIDATION_ERROR"
    BY <2>1, <1>0 DEF Http!Key
  <2>4. QED
    BY <2>2, <2>3, <1>0
<1>5. Right(Http!FileTooLarge)
  <2>1. Http!FileTooLarge.kind = "multer" /\ Http!FileTooLarge.code = NoCode
    BY DEF Http!FileTooLarge
  <2>2. Http!Filtered(Http!FileTooLarge).code = "FILE_SIZE_EXCEEDED"
    BY <2>1 DEF Http!Filtered, Http!ToError, Http!Envelope, Http!CodeForStatus
  <2>3. Http!Key(Http!FileTooLarge) = "FILE_SIZE_EXCEEDED"
    BY <2>1, <1>0 DEF Http!Key
  <2>4. QED
    BY <2>2, <2>3, <1>0
<1>6. Right(Http!Unexpected)
  <2>1. Http!Unexpected.kind = "error" /\ Http!Unexpected.code = NoCode
    BY DEF Http!Unexpected
  <2>2. Http!Filtered(Http!Unexpected).code = "INTERNAL_ERROR"
    BY <2>1 DEF Http!Filtered, Http!ToError, Http!Envelope, Http!CodeForStatus
  <2>3. Http!Key(Http!Unexpected) = "INTERNAL_ERROR"
    BY <2>1, <1>0 DEF Http!Key
  <2>4. QED
    BY <2>2, <2>3, <1>0
<1>7. ASSUME NEW c \in Http!SpecificCodes, NEW s, e = Http!Thrown(s, "record", c, "text") PROVE Right(e)
  <2>1. c # NoCode
    OBVIOUS
  <2>2. e.kind = "http" /\ e.shape = "record" /\ e.code = c /\ e.message = "text"
    BY <1>7
  <2>3. e # Http!MailNotSent
    BY <2>2 DEF Http!MailNotSent
  <2>4. Http!Filtered(e).code = c
    BY <2>1, <2>2 DEF Http!Filtered, Http!ToError, Http!Envelope
  <2>5. e \notin {Http!TooManyRequests, Http!NotSignedIn, Http!Invalid, Http!FileTooLarge}
    BY <2>1, <2>2 DEF Http!TooManyRequests, Http!NotSignedIn, Http!Invalid, Http!FileTooLarge
  <2>6. Http!Key(e) = c
    BY <2>1, <2>2, <2>3, <2>5 DEF Http!Key
  <2>7. QED
    BY <2>3, <2>4, <2>6
<1>8. \/ e \in {Http!MailNotSent, Http!TooManyRequests, Http!NotSignedIn, Http!Invalid, Http!FileTooLarge, Http!Unexpected}
      \/ \E c \in Http!SpecificCodes : \E s : e = Http!Thrown(s, "record", c, "text")
  <2>1. Http!AuthCodes \subseteq Http!SpecificCodes
    BY DEF Http!AuthCodes, Http!SpecificCodes
  <2>2. ASSUME NEW codes \in SUBSET Http!SpecificCodes, e \in Http!Coded(codes)
        PROVE  \E c \in Http!SpecificCodes : \E s : e = Http!Thrown(s, "record", c, "text")
    <3>1. PICK c \in codes : e \in {Http!Thrown(s, "record", c, "text") : s \in Http!StatusesOf(c)}
      BY <2>2, Zenon DEF Http!Coded
    <3>2. QED
      BY <3>1
  <2>3. /\ Http!AuthCodes \in SUBSET Http!SpecificCodes
        /\ Http!SpecificCodes \ (Http!NeverThrown \cup Http!AuthCodes) \in SUBSET Http!SpecificCodes
    BY <2>1
  <2>4. \/ e \in {Http!MailNotSent, Http!TooManyRequests, Http!NotSignedIn, Http!Invalid, Http!FileTooLarge, Http!Unexpected}
        \/ e \in Http!Coded(Http!AuthCodes)
        \/ e \in Http!Coded(Http!SpecificCodes \ (Http!NeverThrown \cup Http!AuthCodes))
    BY DEF Causes, Http!HandlerFails
  <2>5. QED
    BY <2>2, <2>3, <2>4
<1>9. QED
  BY <1>1, <1>2, <1>3, <1>4, <1>5, <1>6, <1>7, <1>8

\* The envelope carries the code of the cause, and of a mail that was not sent
\* the message that tells it apart (http-exception.filter.ts).
THEOREM EnvelopeNames == Spec => []EnvelopeNamesCause
<1>1. Init => (part = "requests" => RequestInv)
  BY RequestInit DEF Init
<1>2. (part = "requests" => RequestInv) /\ [Next]_vars => (part = "requests" => RequestInv)'
  BY RequestStep, OnePart
<1>3. (part = "requests" => RequestInv) => EnvelopeNamesCause
  BY CodesAreTheirs DEF EnvelopeNamesCause, Http!EnvelopeNamesCause, RequestInv
<1>4. QED
  BY <1>1, <1>2, <1>3, PTL DEF Spec

-----------------------------------------------------------------------------
(* The conversation list. *)

MessageRows == [chat : Chats, mine : BOOLEAN, read : BOOLEAN]
Numbers == [Chats -> Nat]

\* The previews of an answer under way are of messages that are stored.
ListInv ==
  /\ messages \in Seq(MessageRows) /\ told \subseteq DOMAIN messages
  /\ list \in [known : BOOLEAN, last : Numbers, unread : Numbers]
  /\ fetch \in [stage : {"idle", "asked", "latest", "answered"}, last : Numbers, unread : Numbers]
  /\ fetch.stage \in {"latest", "answered"} => \A c \in Chats : fetch.last[c] <= Len(messages)
  /\ Overview!BadgeCoversPreview

\* A set of message numbers that is not empty has a newest one.
LEMMA NewestExists ==
  ASSUME NEW n \in Nat, NEW S \in SUBSET (1..n), S # {}
  PROVE  \E m \in S : \A k \in S : k <= m
<1> DEFINE Above(m) == (m+1)..n
           Tops == {Above(m) : m \in S}
           N == 1..n
<1>1. IsFiniteSet(N)
  BY FS_Interval
<1>2. Tops \subseteq FiniteSubsetsOf(N) /\ Tops # {}
  <2>1. \A m \in S : Above(m) \in SUBSET N
    OBVIOUS
  <2>2. FiniteSubsetsOf(N) = SUBSET N
    BY <1>1, FS_FiniteSubsetsOfFinite
  <2>3. QED
    BY <2>1, <2>2, ZenonT(40)
<1>3. PICK T \in Tops : \A U \in Tops : <<U, T>> \notin StrictSubsetOrdering(N)
  <2> HIDE DEF Tops, N
  <2>1. IsWellFoundedOn(StrictSubsetOrdering(N), FiniteSubsetsOf(N))
    BY FS_StrictSubsetOrderingWellFounded
  <2>2. QED
    BY <1>2, <2>1, WFMin
<1>4. PICK m \in S : T = Above(m)
  OBVIOUS
<1>5. ASSUME NEW k \in S, k > m PROVE FALSE
  <2>1. Above(k) \subseteq Above(m) /\ k \in Above(m) /\ k \notin Above(k) /\ Above(k) \subseteq N /\ Above(m) \subseteq N
    BY <1>5
  <2>2. <<Above(k), Above(m)>> \in StrictSubsetOrdering(N)
    BY <2>1, Zenon DEF StrictSubsetOrdering
  <2>3. QED
    BY <1>3, <1>4, <2>2
<1>6. QED
  BY <1>5

\* The preview the server reads is of a stored message, if of any.
LEMMA LatestAreStored ==
  ASSUME messages \in Seq(MessageRows), NEW c \in Chats
  PROVE  Overview!LatestMessages[c] \in 0..Len(messages)
<1> DEFINE S == Overview!In(c)
<1>1. S \subseteq 1..Len(messages) /\ Len(messages) \in Nat
  BY DEF Overview!In
<1>2. S # {} => \E m \in S : \A k \in S : k <= m
  BY <1>1, NewestExists
<1> HIDE DEF S
<1>3. Overview!Newest(S) \in 0..Len(messages)
  <2>1. ASSUME S # {} PROVE (CHOOSE m \in S : \A k \in S : k <= m) \in S
    BY <1>2, <2>1
  <2>2. Overview!Newest(S) = IF S = {} THEN 0 ELSE CHOOSE m \in S : \A k \in S : k <= m
    BY DEF Overview!Newest
  <2>3. CASE S = {}
    BY <1>1, <2>2, <2>3
  <2>4. CASE S # {}
    <3>1. Overview!Newest(S) \in S
      BY <2>1, <2>2, <2>4
    <3>2. Overview!Newest(S) \in 1..Len(messages)
      BY <1>1, <3>1, Zenon
    <3>3. QED
      BY <1>1, <3>2
  <2>5. QED
    BY <2>3, <2>4
<1>4. QED
  BY <1>3 DEF Overview!LatestMessages, S

\* Counting is counting, in whichever module.
LEMMA SameCount == ASSUME NEW S PROVE Overview!Cardinality(S) = Cardinality(S)
BY DEF Overview!Cardinality, Cardinality

\* A chat with an unread message has a count above zero.
LEMMA UnreadAreCounted ==
  ASSUME messages \in Seq(MessageRows), NEW c \in Chats
  PROVE  Overview!UnreadCounts[c] \in Nat /\ (Overview!Unread(c) # {} => Overview!UnreadCounts[c] > 0)
<1>1. Overview!Unread(c) \subseteq 1..Len(messages) /\ Len(messages) \in Nat
  BY DEF Overview!Unread, Overview!In
<1>2. IsFiniteSet(Overview!Unread(c))
  <2>1. IsFiniteSet(1..Len(messages))
    BY <1>1, FS_Interval
  <2>2. QED
    BY <1>1, <2>1, FS_Subset
<1>3. Cardinality(Overview!Unread(c)) \in Nat /\ (Overview!Unread(c) # {} => Cardinality(Overview!Unread(c)) # 0)
  BY <1>2, FS_CardinalityType, FS_EmptySet
<1>4. QED
  BY <1>3, SameCount DEF Overview!UnreadCounts

\* An empty list regresses nowhere.
LEMMA ListInit == ASSUME Overview!Init PROVE ListInv
BY DEF Overview!Init, Overview!NoList, Overview!Asked, Overview!NoFetch, Overview!None, ListInv, Numbers,
       Overview!BadgeCoversPreview

\* A step of the tab leaves the messages alone, and a fetch goes on, ends or
\* begins anew.
LEMMA TabFetch ==
  ASSUME ListInv, UNCHANGED messages, told' \subseteq told,
         list' \in [known : BOOLEAN, last : Numbers, unread : Numbers],
         fetch' \in {fetch, Overview!Asked, Overview!NoFetch}
  PROVE  ListInv'
<1>1. CASE fetch' = fetch
  BY <1>1 DEF ListInv, Overview!BadgeCoversPreview, Overview!Unread, Overview!In
<1>2. CASE fetch' \in {Overview!Asked, Overview!NoFetch}
  <2>1. /\ fetch' \in [stage : {"idle", "asked", "latest", "answered"}, last : Numbers, unread : Numbers]
        /\ fetch'.stage \notin {"latest", "answered"}
    BY <1>2 DEF Overview!Asked, Overview!NoFetch, Overview!None, Numbers
  <2>2. QED
    BY <2>1 DEF ListInv, Overview!BadgeCoversPreview
<1>3. QED
  BY <1>1, <1>2

\* Every step of the server and the tab keeps the invariant, and takes a
\* preview back only by the answer of a refetch.
LEMMA ListStep == ASSUME ListInv, [Overview!Next]_listVars PROVE ListInv' /\ Overview!OnlyAnswersRegress
<1>0. /\ messages \in Seq(MessageRows) /\ Len(messages) \in Nat /\ DOMAIN messages = 1..Len(messages)
      /\ fetch \in [stage : {"idle", "asked", "latest", "answered"}, last : Numbers, unread : Numbers]
      /\ list \in [known : BOOLEAN, last : Numbers, unread : Numbers]
  BY DEF ListInv
<1>1. ASSUME UNCHANGED list PROVE Overview!OnlyAnswersRegress
  BY <1>0, <1>1 DEF Overview!OnlyAnswersRegress, Numbers
<1>2. ASSUME NEW c \in Chats, NEW mine \in BOOLEAN, Overview!Store(c, mine) PROVE ListInv' /\ Overview!OnlyAnswersRegress
  <2> DEFINE row == [chat |-> c, mine |-> mine, read |-> FALSE]
  <2>1. /\ messages' = Append(messages, row) /\ UNCHANGED <<list, fetch>>
        /\ told' \in {told, told \cup {Len(messages) + 1}}
    BY <1>2 DEF Overview!Store
  <2>2. /\ messages' \in Seq(MessageRows) /\ Len(messages') = Len(messages) + 1
        /\ DOMAIN messages' = 1..(Len(messages) + 1)
        /\ \A m \in 1..Len(messages) : messages'[m] = messages[m]
    BY <1>0, <2>1 DEF MessageRows
  <2>3. \A m \in 1..Len(messages), d \in Chats : m \in Overview!Unread(d)' => m \in Overview!Unread(d)
    BY <1>0, <2>2 DEF Overview!Unread, Overview!In
  <2>4. Overview!BadgeCoversPreview'
    <3>1. SUFFICES ASSUME fetch.stage = "answered", NEW d \in Chats, fetch.last[d] \in Overview!Unread(d)'
                   PROVE  fetch.unread[d] > 0
      BY <2>1 DEF Overview!BadgeCoversPreview
    <3>2. fetch.last[d] \in 1..Len(messages)
      BY <1>0, <2>2, <3>1 DEF ListInv, Overview!Unread, Overview!In, Numbers
    <3>3. QED
      BY <2>3, <3>1, <3>2 DEF ListInv, Overview!BadgeCoversPreview
  <2>5. \A d \in Chats : fetch.last[d] <= Len(messages) => fetch'.last[d] <= Len(messages')
    BY <1>0, <2>1, <2>2 DEF Numbers
  <2>6. told' \subseteq DOMAIN messages'
    BY <1>0, <2>1, <2>2 DEF ListInv
  <2>7. QED
    BY <1>1, <2>1, <2>2, <2>4, <2>5, <2>6 DEF ListInv
<1>3. ASSUME NEW c \in Chats, Overview!MarkRead(c) PROVE ListInv' /\ Overview!OnlyAnswersRegress
  <2>1. /\ messages' = [m \in DOMAIN messages |-> IF m \in Overview!Unread(c) THEN [messages[m] EXCEPT !.read = TRUE] ELSE messages[m]]
        /\ UNCHANGED <<told, list, fetch>>
    BY <1>3 DEF Overview!MarkRead
  <2>2. \A m \in 1..Len(messages) : /\ messages[m] \in MessageRows /\ messages'[m] \in MessageRows
                                    /\ messages'[m].chat = messages[m].chat /\ messages'[m].mine = messages[m].mine
                                    /\ messages[m].read => messages'[m].read
    <3>1. \A m \in 1..Len(messages) : messages[m] \in MessageRows
      BY <1>0
    <3>2. QED
      BY <1>0, <2>1, <3>1 DEF MessageRows
  <2>3. /\ messages' \in Seq(MessageRows) /\ Len(messages') = Len(messages)
        /\ DOMAIN messages' = 1..Len(messages)
    BY <1>0, <2>1, <2>2
  <2>4. \A d \in Chats : Overview!Unread(d)' \subseteq Overview!Unread(d)
    BY <1>0, <2>2, <2>3 DEF Overview!Unread, Overview!In
  <2>5. QED
    BY <1>1, <2>1, <2>3, <2>4 DEF ListInv, Overview!BadgeCoversPreview
<1>4. CASE Overview!LoadLatest
  <2>1. /\ fetch' = [fetch EXCEPT !.stage = "latest", !.last = Overview!LatestMessages]
        /\ UNCHANGED <<messages, told, list>>
    BY <1>4 DEF Overview!LoadLatest
  <2>2. Overview!LatestMessages \in Numbers /\ \A c \in Chats : Overview!LatestMessages[c] <= Len(messages)
    BY <1>0, LatestAreStored DEF Overview!LatestMessages, Numbers
  <2>3. QED
    BY <1>0, <1>1, <2>1, <2>2 DEF ListInv, Overview!BadgeCoversPreview
<1>5. CASE Overview!LoadUnread
  <2>1. /\ fetch.stage = "latest" /\ fetch' = [fetch EXCEPT !.stage = "answered", !.unread = Overview!UnreadCounts]
        /\ UNCHANGED <<messages, told, list>>
    BY <1>5 DEF Overview!LoadUnread
  <2>2. Overview!UnreadCounts \in Numbers
    BY <1>0, UnreadAreCounted DEF Overview!UnreadCounts, Numbers
  <2>3. fetch'.last = fetch.last /\ fetch'.unread = Overview!UnreadCounts
    BY <1>0, <2>1
  <2>4. Overview!BadgeCoversPreview'
    BY <1>0, <2>1, <2>3, UnreadAreCounted DEF Overview!BadgeCoversPreview, Overview!Unread, Overview!In
  <2>5. QED
    BY <1>0, <1>1, <2>1, <2>2, <2>4 DEF ListInv
<1>6. ASSUME NEW m \in DOMAIN messages, Overview!Receive(m) PROVE ListInv' /\ Overview!OnlyAnswersRegress
  <2>1. /\ UNCHANGED messages /\ told' \subseteq told
        /\ list' = Overview!Patched(list, messages[m].chat, m)
        /\ fetch' \in {fetch, Overview!Asked}
    BY <1>6 DEF Overview!Receive, Overview!Invalidated
  <2>2. messages[m].chat \in Chats /\ m \in Nat
    <3>1. messages[m] \in MessageRows /\ m \in Nat
      BY <1>0
    <3>2. QED
      BY <3>1 DEF MessageRows
  <2>3. list' = list \/ /\ list' = [list EXCEPT !.last[messages[m].chat] = m]
                        /\ list.last[messages[m].chat] <= m
    BY <2>1 DEF Overview!Patched
  <2>4. /\ list' \in [known : BOOLEAN, last : Numbers, unread : Numbers]
        /\ \A c \in Chats : ~(list'.last[c] < list.last[c])
    <3>1. CASE list' = list
      BY <1>0, <3>1 DEF Numbers
    <3>2. CASE /\ list' = [list EXCEPT !.last[messages[m].chat] = m]
               /\ list.last[messages[m].chat] <= m
      <4>1. list.last \in Numbers /\ list'.last = [list.last EXCEPT ![messages[m].chat] = m]
        BY <1>0, <3>2
      <4>2. list'.last \in Numbers /\ \A c \in Chats : ~(list'.last[c] < list.last[c])
        BY <2>2, <3>2, <4>1 DEF Numbers
      <4>3. list' = [list EXCEPT !.last = list'.last]
        BY <1>0, <3>2, <4>1
      <4>4. QED
        BY <1>0, <4>2, <4>3
    <3>3. QED
      BY <2>3, <3>1, <3>2
  <2>5. QED
    BY <2>1, <2>4, TabFetch DEF Overview!OnlyAnswersRegress
<1>7. CASE Overview!Deliver
  <2>1. /\ fetch.stage = "answered" /\ fetch' = Overview!NoFetch /\ UNCHANGED <<messages, told>>
        /\ list' = [known |-> TRUE, last |-> fetch.last, unread |-> fetch.unread]
    BY <1>7 DEF Overview!Deliver
  <2>2. list' \in [known : BOOLEAN, last : Numbers, unread : Numbers]
    BY <1>0, <2>1
  <2>3. QED
    BY <2>1, <2>2, TabFetch DEF Overview!OnlyAnswersRegress
<1>8. CASE UNCHANGED <<messages, told, list>> /\ fetch' \in {fetch, Overview!Asked, Overview!NoFetch}
  BY <1>0, <1>1, <1>8, TabFetch
<1>9. QED
  <2>1. CASE Overview!Invalidate \/ Overview!Poll \/ Overview!Fail \/ Overview!Hide \/ Overview!Reveal \/ UNCHANGED listVars
    BY <1>8, <2>1 DEF Overview!Invalidate, Overview!Invalidated, Overview!Poll, Overview!Fail, Overview!Hide,
                      Overview!Reveal, listVars
  <2>2. QED
    BY <1>2, <1>3, <1>4, <1>5, <1>6, <1>7, <2>1 DEF Overview!Next, Overview!Server, Overview!Tab

\* The server never answers a preview of an unread message with a count that
\* leaves it out (chats.service.ts, findUserConversations).
THEOREM BadgesCover == Spec => []BadgeCoversPreview
<1>1. Init => (part = "list" => ListInv)
  BY ListInit DEF Init
<1>2. (part = "list" => ListInv) /\ [Next]_vars => (part = "list" => ListInv)'
  BY ListStep, OnePart
<1>3. (part = "list" => ListInv) => BadgeCoversPreview
  BY DEF ListInv, BadgeCoversPreview
<1>4. QED
  BY <1>1, <1>2, <1>3, PTL DEF Spec

\* A preview goes back to an older message only by the answer of a refetch
\* (use-chat-query.ts, patchConversationWithMessage).
THEOREM PreviewsKeep == Spec => PreviewNeverRegresses
<1>1. Init => (part = "list" => ListInv)
  BY ListInit DEF Init
<1>2. (part = "list" => ListInv) /\ [Next]_vars => (part = "list" => ListInv)'
  BY ListStep, OnePart
<1>3. (part = "list" => ListInv) /\ [Next]_vars => [part = "list" => Overview!OnlyAnswersRegress]_vars
  BY ListStep, OnePart
<1>4. QED
  BY <1>1, <1>2, <1>3, PTL DEF Spec, PreviewNeverRegresses

-----------------------------------------------------------------------------
(* The socket of the session. *)

\* The flags follow the connection, so that a connected socket is the one that
\* was handed down, and the effect ran for it; it is in the room of the chat on
\* the screen and no other one. Without a socket no chat is active.
SocketInv ==
  /\ made \in Nat /\ session \in 0..made /\ context \in 0..made
  /\ flags \in [isConnected : BOOLEAN, hasError : BOOLEAN]
  /\ flags.isConnected <=> link = "open"
  /\ link \in {"connecting", "open"} => session # Socket!NoSocket
  /\ link = "open" => context = session
  /\ room = (IF link = "open" /\ screen # NoChat THEN {screen} ELSE {})
  /\ active = (IF context = Socket!NoSocket THEN NoChat ELSE screen)

\* A tab that is signed out has no socket and no rooms.
LEMMA SocketInit == ASSUME Socket!Init PROVE SocketInv
BY DEF Socket!Init, SocketInv, Socket!NoSocket

\* The effect keeps the active chat right, whatever socket it is handed.
LEMMA ActiveFollows ==
  ASSUME SocketInv, NEW s, NEW c, NEW r, Socket!ChatSocket(s, c, r)
  PROVE  /\ context' = s /\ screen' = c
         /\ active' = (IF s = Socket!NoSocket THEN NoChat ELSE c)
BY DEF SocketInv, Socket!ChatSocket, Socket!NoSocket

\* Every step of the provider and the hook keeps the invariant.
LEMMA SocketStep == ASSUME SocketInv, [Socket!Next]_socketVars PROVE SocketInv'
<1> USE DEF SocketInv, Socket!NoSocket
<1>1. CASE Socket!SignIn
  <2>1. flags' \in [isConnected : BOOLEAN, hasError : BOOLEAN] /\ ~flags'.isConnected
    BY <1>1 DEF Socket!SignIn, Socket!Cleaned
  <2>2. Socket!Context(flags', session') \in 0..made'
    BY <1>1 DEF Socket!SignIn, Socket!Context
  <2>3. room' = {}
    BY <1>1 DEF Socket!SignIn, Socket!ChatSocket
  <2>4. QED
    BY <1>1, <2>1, <2>2, <2>3, ActiveFollows DEF Socket!SignIn
<1>2. CASE Socket!SignOut
  <2>1. flags' \in [isConnected : BOOLEAN, hasError : BOOLEAN] /\ ~flags'.isConnected
    BY <1>2 DEF Socket!SignOut, Socket!Cleaned
  <2>2. Socket!Context(flags', Socket!NoSocket) \in 0..made
    BY <1>2 DEF Socket!Context
  <2>3. room' = {}
    BY <1>2 DEF Socket!SignOut, Socket!ChatSocket
  <2>4. QED
    BY <1>2, <2>1, <2>2, <2>3, ActiveFollows DEF Socket!SignOut
<1>3. CASE Socket!Connect
  <2>1. flags' # flags /\ flags'.isConnected
    BY <1>3 DEF Socket!Connect
  <2>2. Socket!ChatSocket(session, screen, IF context = session /\ screen # NoChat THEN {screen} ELSE {})
    BY <1>3, <2>1 DEF Socket!Connect, Socket!Context
  <2>3. room' = IF screen # NoChat THEN {screen} ELSE {}
    BY <1>3, <2>2 DEF Socket!Connect, Socket!ChatSocket
  <2>4. QED
    BY <1>3, <2>1, <2>2, <2>3, ActiveFollows DEF Socket!Connect
<1>4. CASE Socket!ConnectError
  <2>1. Socket!Context(flags', session) \in 0..made
    BY DEF Socket!Context
  <2>2. room' = {} /\ link' # "open"
    BY <1>4 DEF Socket!ConnectError, Socket!ChatSocket
  <2>3. QED
    BY <1>4, <2>1, <2>2, ActiveFollows DEF Socket!ConnectError
<1>5. CASE Socket!Disconnect
  <2>1. flags' \in [isConnected : BOOLEAN, hasError : BOOLEAN] /\ ~flags'.isConnected
    BY <1>5 DEF Socket!Disconnect
  <2>2. Socket!Context(flags', session) \in 0..made
    BY DEF Socket!Context
  <2>3. room' = {} /\ link' # "open"
    BY <1>5 DEF Socket!Disconnect, Socket!ChatSocket
  <2>4. QED
    BY <1>5, <2>1, <2>2, <2>3, ActiveFollows DEF Socket!Disconnect
<1>6. ASSUME NEW c \in Chats \cup {NoChat}, Socket!Show(c) PROVE SocketInv'
  <2>1. room' = IF link = "open" /\ c # NoChat THEN {c} ELSE {}
    BY <1>6 DEF Socket!Show, Socket!ChatSocket
  <2>2. QED
    BY <1>6, <2>1, ActiveFollows DEF Socket!Show
<1>7. CASE UNCHANGED socketVars
  BY <1>7 DEF socketVars
<1>8. QED
  BY <1>1, <1>2, <1>3, <1>4, <1>5, <1>6, <1>7 DEF Socket!Next, Socket!vars, socketVars

\* Whichever of sign-in, connection, reconnection and navigation came first, a
\* connected tab has joined the chat on its screen and no other, and knows it as
\* the active one (SocketProvider.tsx, useChatSocket.ts).
THEOREM ChatsAreJoined == Spec => []ChatIsJoined
<1>1. Init => (part = "socket" => SocketInv)
  BY SocketInit DEF Init
<1>2. (part = "socket" => SocketInv) /\ [Next]_vars => (part = "socket" => SocketInv)'
  BY SocketStep, OnePart
<1>3. (part = "socket" => SocketInv) => ChatIsJoined
  BY DEF SocketInv, ChatIsJoined, Socket!ChatIsJoined, Socket!NoSocket
<1>4. QED
  BY <1>1, <1>2, <1>3, PTL DEF Spec

-----------------------------------------------------------------------------
(* The search page: what SettlesOnText needs besides fairness. *)

\* The input is what the user entered last, and if the address differs from it
\* the pause is still to end or a navigation elsewhere is under way, unless one
\* was discarded by a navigation to the address at hand.
AddressIsOwed ==
  /\ query = entered
  /\ urlQuery = query \/ undone \/ timer \/ replacing \notin {Nowhere, urlQuery}

\* Only the user's own navigation is under way, and the bar has noted it.
BarInv ==
  /\ {query, urlQuery, committedQuery} \subseteq Queries \cup {Blank}
  /\ replacing \in {Nowhere, committedQuery}
  /\ AddressIsOwed

\* The rows of the address are asked for, or those that the server names.
RowsAreOwed ==
  urlQuery # Blank =>
    \/ found[urlQuery].busy \/ found[urlQuery].fault # "none"
    \/ found[urlQuery].users = Finder!SearchUsers(urlQuery)

FoundInv ==
  /\ urlQuery \in Queries \cup {Blank}
  /\ found \in [Queries -> [busy : BOOLEAN, fault : {"none", "limited", "other"}, users : SUBSET Directory]]
  /\ RowsAreOwed

\* A call stores its request at most once, and only its own answer marks the row.
SendRecords == [stage : {"none", "sent", "stored", "refused"},
                stored : BOOLEAN, marked : BOOLEAN, unheard : BOOLEAN]
SendAgrees(s) ==
  /\ s.unheard => s.stored
  /\ s.stage # "none" => ~s.marked
  /\ s.stage = "refused" => s.stored
  /\ s.stage = "stored" => s.stored /\ ~s.unheard
  /\ s.stage # "stored" => (s.marked <=> s.stored /\ ~s.unheard)
SendsInv == sends \in [Directory -> SendRecords] /\ \A u \in Directory : SendAgrees(sends[u])

\* All that the page still owes once the user stops.
SearchOwes ==
  part = "search" => AddressIsOwed /\ RowsAreOwed /\ \A u \in Directory : Finder!MarksAreRight(u)

\* The page opens on its address.
LEMMA SearchInit == ASSUME Finder!Init PROVE BarInv /\ FoundInv /\ SendsInv
<1> USE DEF Finder!Init
<1>1. BarInv
  BY DEF BarInv, AddressIsOwed
<1>2. FoundInv
  BY DEF FoundInv, RowsAreOwed, Finder!Looked, Finder!NotFound
<1>3. SendsInv
  BY DEF SendsInv, SendRecords, SendAgrees, Finder!Unsent
<1>4. QED
  BY <1>1, <1>2, <1>3

\* Whatever the user does and whichever navigation arrives, the input keeps what
\* was entered last.
LEMMA BarStep == ASSUME BarInv, [Finder!Next]_searchVars PROVE BarInv'
<1> USE NowhereAssumption DEF BarInv, AddressIsOwed
<1>1. ASSUME NEW t \in Queries \cup {Blank}, Finder!Type(t) PROVE BarInv'
  BY <1>1 DEF Finder!Type
<1>2. CASE Finder!Submit \/ Finder!Debounce
  BY <1>2 DEF Finder!Submit, Finder!Debounce, Finder!Replace
<1>3. CASE Finder!Arrive
  <2>1. replacing = committedQuery /\ Finder!Render(committedQuery) /\ replacing' = Nowhere
        /\ UNCHANGED <<entered, undone>>
    BY <1>3 DEF Finder!Arrive
  <2>2. QED
    BY <2>1 DEF Finder!Render
<1>4. ASSUME NEW q \in Queries \cup {Blank}, Finder!Navigate(q) PROVE BarInv'
  BY <1>4 DEF Finder!Navigate, Finder!Render
<1>5. CASE UNCHANGED Finder!barVars
  BY <1>5 DEF Finder!barVars
<1>6. QED
  BY <1>1, <1>2, <1>3, <1>4, <1>5 DEF Finder!Next, Finder!Answers, Finder!Answer, Finder!Fail, Finder!Retry,
     Finder!SendRequest, Finder!ServerStores, Finder!SendEnds, Finder!vars, Finder!barVars, searchVars

\* An answer is kept under its own text, so that a late one never fills the rows
\* of another address.
LEMMA FoundStep == ASSUME BarInv, FoundInv, [Finder!Next]_searchVars PROVE FoundInv'
<1> USE DEF FoundInv, RowsAreOwed
<1>1. ASSUME NEW q \in Queries \cup {Blank}, Finder!Render(q) PROVE FoundInv'
  <2>1. CASE urlQuery = q
    BY <1>1, <2>1 DEF Finder!Render
  <2>2. CASE urlQuery # q /\ q = Blank
    BY <1>1, <2>2 DEF Finder!Render, Finder!Looked
  <2>3. CASE urlQuery # q /\ q # Blank
    <3>1. q \in Queries /\ urlQuery' = q /\ found' = [found EXCEPT ![q].busy = TRUE]
      BY <1>1, <2>3 DEF Finder!Render, Finder!Looked
    <3>2. found'[q].busy
      BY <3>1
    <3>3. QED
      BY <3>1, <3>2
  <2>4. QED
    BY <2>1, <2>2, <2>3
<1>2. CASE Finder!Arrive
  BY <1>1, <1>2, NowhereAssumption DEF Finder!Arrive, BarInv
<1>3. ASSUME NEW q \in Queries \cup {Blank}, Finder!Navigate(q) PROVE FoundInv'
  BY <1>1, <1>3 DEF Finder!Navigate
<1>4. ASSUME NEW q \in Queries, Finder!Answer(q) PROVE FoundInv'
  <2> DEFINE new == [Finder!NotFound EXCEPT !.users = Finder!SearchUsers(q)]
  <2>1. new.users = Finder!SearchUsers(q) /\ new.fault = "none" /\ new.busy = FALSE
        /\ new \in [busy : BOOLEAN, fault : {"none", "limited", "other"}, users : SUBSET Directory]
    BY DEF Finder!NotFound, Finder!SearchUsers
  <2>2. found' = [found EXCEPT ![q] = new] /\ urlQuery' = urlQuery
    BY <1>4 DEF Finder!Answer, Finder!barVars
  <2> HIDE DEF new
  <2>3. QED
    BY <2>1, <2>2
<1>5. ASSUME NEW q \in Queries, Finder!Fail(q) PROVE FoundInv'
  <2>1. PICK fault \in {"limited", "other"} :
          found' = [found EXCEPT ![q].busy = FALSE, ![q].fault = fault]
    BY <1>5 DEF Finder!Fail
  <2>2. found'[q].fault = fault /\ \A k \in Queries \ {q} : found'[k] = found[k]
    BY <2>1
  <2>3. urlQuery' = urlQuery
    BY <1>5 DEF Finder!Fail, Finder!barVars
  <2>4. QED
    BY <2>1, <2>2, <2>3
<1>6. CASE Finder!Retry
  <2>1. urlQuery \in Queries /\ found' = [found EXCEPT ![urlQuery].busy = TRUE] /\ urlQuery' = urlQuery
    BY <1>6 DEF Finder!Retry, Finder!Looked, Finder!barVars
  <2>2. QED
    BY <2>1
<1>7. CASE UNCHANGED <<found, urlQuery>>
  BY <1>7
<1>8. QED
  BY <1>2, <1>3, <1>4, <1>5, <1>6, <1>7 DEF Finder!Next, Finder!Answers, Finder!Type, Finder!Submit,
     Finder!Debounce, Finder!Replace, Finder!SendRequest, Finder!ServerStores, Finder!SendEnds,
     Finder!vars, Finder!barVars, searchVars

\* A row is marked by the answer to its own call only.
LEMMA SendsStep == ASSUME SendsInv, [Finder!Next]_searchVars PROVE SendsInv'
<1> USE DEF SendsInv
<1>1. ASSUME NEW u \in Directory, Finder!SendRequest(u) PROVE SendsInv'
  BY <1>1 DEF Finder!SendRequest, SendRecords, SendAgrees
<1>2. ASSUME NEW u \in Directory, NEW s \in SendRecords, sends' = [sends EXCEPT ![u] = s], SendAgrees(s)
      PROVE  SendsInv'
  BY <1>2
<1>3. ASSUME NEW u \in Directory, Finder!ServerStores(u) PROVE SendsInv'
  <2> DEFINE next == IF sends[u].stored THEN "refused" ELSE "stored"
             s == [sends[u] EXCEPT !.stage = next, !.stored = TRUE]
  <2>1. sends' = [sends EXCEPT ![u] = s]
    BY <1>3 DEF Finder!ServerStores
  <2>2. /\ next \in {"refused", "stored"} /\ (next = "refused" <=> sends[u].stored)
    OBVIOUS
  <2>3. sends[u] \in SendRecords /\ SendAgrees(sends[u]) /\ sends[u].stage = "sent"
    BY <1>3 DEF Finder!ServerStores
  <2> HIDE DEF next
  <2>4. s \in SendRecords /\ SendAgrees(s)
    BY <2>2, <2>3 DEF SendRecords, SendAgrees
  <2> HIDE DEF s
  <2>5. QED
    BY <1>2, <2>1, <2>4
<1>5. ASSUME NEW u \in Directory, Finder!SendEnds(u) PROVE SendsInv'
  <2>0. PICK heard \in BOOLEAN :
          sends' = [sends EXCEPT ![u].stage = "none",
                      ![u].marked = heard /\ sends[u].stage = "stored" /\ latest = u,
                      ![u].unheard = @ \/ (sends[u].stage = "stored"
                                            /\ ~(heard /\ sends[u].stage = "stored" /\ latest = u))]
    BY <1>5, Zenon DEF Finder!SendEnds
  <2> DEFINE marks == heard /\ sends[u].stage = "stored" /\ latest = u
             left == sends[u].unheard \/ (sends[u].stage = "stored" /\ ~marks)
             s == [sends[u] EXCEPT !.stage = "none", !.marked = marks, !.unheard = left]
  <2>1. sends[u] \in SendRecords /\ SendAgrees(sends[u]) /\ sends[u].stage # "none"
    BY <1>5 DEF Finder!SendEnds
  <2>2. marks \in BOOLEAN /\ left \in BOOLEAN
    BY Zenon
  <2>3. sends' = [sends EXCEPT ![u] = s]
    BY <2>0
  <2>4. (marks => sends[u].stage = "stored")
        /\ (left <=> sends[u].unheard \/ (sends[u].stage = "stored" /\ ~marks))
    BY Zenon
  <2> HIDE DEF marks, left
  <2>5. s \in SendRecords
    BY <2>1, <2>2 DEF SendRecords
  <2>6. s.stage = "none" /\ s.marked = marks /\ s.unheard = left /\ s.stored = sends[u].stored
    BY <2>1 DEF SendRecords
  <2> HIDE DEF s
  <2>7. SendAgrees(s)
    BY <2>1, <2>2, <2>4, <2>6 DEF SendAgrees, SendRecords
  <2>8. QED
    BY <1>2, <2>3, <2>5, <2>7
<1>4. CASE UNCHANGED sends
  BY <1>4
<1>6. QED
  BY <1>1, <1>3, <1>4, <1>5 DEF Finder!Next, Finder!Type, Finder!Navigate, Finder!Submit, Finder!Debounce,
     Finder!Arrive, Finder!Replace, Finder!Answers, Finder!Answer, Finder!Fail, Finder!Retry,
     Finder!vars, searchVars

\* However typing, pauses, navigations and answers overlap, the input keeps what
\* was entered last, an address behind it is on its way, rows are the server's
\* answer to the very text of the address, and a row is marked just when its
\* request is stored and was heard of (UserSearchBar.tsx, UserSearchResult.tsx).
THEOREM SearchKeepsUp == Spec => []SearchOwes
<1> DEFINE I == part = "search" => BarInv /\ FoundInv /\ SendsInv
<1>1. Init => I
  BY SearchInit DEF Init
<1>2. I /\ [Next]_vars => I'
  BY BarStep, FoundStep, SendsStep, OnePart
<1>3. I => SearchOwes
  BY DEF SearchOwes, BarInv, FoundInv, SendsInv, SendRecords, SendAgrees, Finder!MarksAreRight
<1>4. QED
  BY <1>1, <1>2, <1>3, PTL DEF Spec
-----------------------------------------------------------------------------
(* Uploads: how a file is written, and what each parser reads back from it. *)

\* What holds of every element whose predecessors in rank have it holds of all.
LEMMA RankInduction ==
  ASSUME NEW D, NEW rank \in [D -> Nat], NEW T,
         \A x \in D : (\A y \in D : rank[y] < rank[x] => y \in T) => x \in T
  PROVE  D \subseteq T
<1> SUFFICES ASSUME D \ T # {} PROVE FALSE
  OBVIOUS
<1> DEFINE Ranks == {rank[x] : x \in D \ T}
<1>1. Ranks \subseteq Nat /\ Ranks # {}
  OBVIOUS
<1>2. PICK n \in Ranks : \A m \in Ranks : <<m, n>> \notin OpToRel(<, Nat)
  <2> HIDE DEF Ranks
  <2>1. IsWellFoundedOn(OpToRel(<, Nat), Nat)
    BY NatLessThanWellFounded
  <2>2. QED
    BY <1>1, <2>1, WFMin
<1>3. \A m \in Ranks : ~(m < n)
  BY <1>1, <1>2 DEF OpToRel
<1>4. PICK x \in D \ T : rank[x] = n
  BY <1>2
<1>5. \A y \in D : rank[y] < rank[x] => y \in T
  BY <1>3, <1>4
<1>6. QED
  BY <1>4, <1>5

\* A function on D defined by recursion on a rank: "step" makes the value at x of
\* the values of lower rank, and all values are in S.
Recursive(D, S, rank, step) ==
  /\ rank \in [D -> Nat]
  /\ S # {}
  /\ \A x \in D, h \in [D -> S] : step[<<x, h>>] \in S
  /\ \A x \in D, g, h \in [D -> S] :
       (\A y \in D : rank[y] < rank[x] => g[y] = h[y]) => step[<<x, g>>] = step[<<x, h>>]

\* Such a function exists.
LEMMA RecursionExists ==
  ASSUME NEW D, NEW S, NEW rank, NEW step, Recursive(D, S, rank, step)
  PROVE  \E g \in [D -> S] : \A x \in D : g[x] = step[<<x, g>>]
<1> DEFINE G == [D -> S]
           R(n) == {g \in G : \A x \in D : rank[x] < n => g[x] = step[<<x, g>>]}
<1>1. /\ rank \in [D -> Nat]
      /\ \A x \in D, h \in G : step[<<x, h>>] \in S
      /\ \A x \in D, g, h \in G :
           (\A y \in D : rank[y] < rank[x] => g[y] = h[y]) => step[<<x, g>>] = step[<<x, h>>]
  BY DEF Recursive
<1>2. G # {}
  <2>1. PICK v : v \in S
    BY DEF Recursive
  <2>2. [x \in D |-> v] \in G
    BY <2>1
  <2>3. QED
    BY <2>2
<1>g. \A g \in G : \A x \in D : g[x] \in S
  OBVIOUS
<1>h. \A g : g = [x \in D |-> g[x]] /\ (\A x \in D : g[x] \in S) => g \in G
  OBVIOUS
<1> HIDE DEF G
<1>3. ASSUME NEW m \in Nat, NEW n \in Nat, m <= n, NEW g \in R(m), NEW h \in R(n), NEW x \in D, rank[x] < m
      PROVE  g[x] = h[x]
  <2> DEFINE T == {y \in D : rank[y] < m => g[y] = h[y]}
  <2>1. ASSUME NEW y \in D, \A z \in D : rank[z] < rank[y] => z \in T
        PROVE  y \in T
    <3>1. SUFFICES ASSUME rank[y] < m PROVE g[y] = h[y]
      OBVIOUS
    <3>2. rank[y] \in Nat /\ rank[y] < n
      BY <1>1, <1>3, <3>1
    <3>3. \A z \in D : rank[z] < rank[y] => g[z] = h[z]
      BY <1>1, <2>1, <3>1, <3>2
    <3>4. step[<<y, g>>] = step[<<y, h>>]
      BY <1>1, <3>3
    <3>5. QED
      BY <3>1, <3>2, <3>4
  <2> HIDE DEF T
  <2>2. D \subseteq T
    BY <1>1, <2>1, RankInduction
  <2>3. QED
    BY <1>3, <2>2 DEF T
<1>4. ASSUME NEW n \in Nat PROVE R(n) # {}
  <2> DEFINE T == {k \in Nat : R(k) # {}}
             id == [k \in Nat |-> k]
  <2>1. ASSUME NEW k \in Nat, \A j \in Nat : id[j] < id[k] => j \in T
        PROVE  k \in T
    <3>1. CASE k = 0
      <4>1. \A x \in D : ~(rank[x] < 0)
        BY <1>1
      <4>2. QED
        BY <1>2, <3>1, <4>1
    <3>2. CASE k # 0
      <4>1. k - 1 \in Nat /\ k - 1 < k
        BY <3>2
      <4>2. PICK g \in R(k - 1) : TRUE
        BY <2>1, <4>1
      <4> DEFINE h == [x \in D |-> IF rank[x] = k - 1 THEN step[<<x, g>>] ELSE g[x]]
      <4>3. \A x \in D : h[x] \in S
        BY <1>1, <1>g, <4>2
      <4>4. h \in G
        <5>1. h = [x \in D |-> h[x]]
          OBVIOUS
        <5> HIDE DEF h
        <5>2. QED
          BY <1>h, <4>3, <5>1
      <4>5. ASSUME NEW x \in D, rank[x] < k PROVE h[x] = step[<<x, h>>]
        <5>1. \A y \in D : rank[y] < rank[x] => g[y] = h[y]
          BY <1>1, <4>1, <4>5
        <5>2. step[<<x, g>>] = step[<<x, h>>]
          BY <1>1, <4>2, <4>4, <5>1
        <5>3. rank[x] = k - 1 \/ rank[x] < k - 1
          BY <1>1, <4>1, <4>5
        <5>4. QED
          BY <4>2, <5>2, <5>3
      <4>6. QED
        BY <4>4, <4>5
    <3>3. QED
      BY <3>1, <3>2
  <2> HIDE DEF T
  <2>2. Nat \subseteq T
    <3>1. id \in [Nat -> Nat]
      OBVIOUS
    <3> HIDE DEF id
    <3>2. QED
      BY <2>1, <3>1, RankInduction
  <2>3. QED
    BY <2>2 DEF T
<1> DEFINE c == [n \in Nat |-> CHOOSE g : g \in R(n)]
           g == [x \in D |-> c[rank[x] + 1][x]]
<1>5. \A n \in Nat : c[n] \in R(n)
  BY <1>4
<1>6. g = [x \in D |-> g[x]] /\ \A x \in D : g[x] = c[rank[x] + 1][x]
  OBVIOUS
<1> HIDE DEF c, g
<1>7. g \in G
  <2>1. \A x \in D : g[x] \in S
    BY <1>1, <1>5, <1>6, <1>g
  <2>2. QED
    BY <1>6, <1>h, <2>1
<1>8. ASSUME NEW x \in D PROVE g[x] = step[<<x, g>>]
  <2> DEFINE h == c[rank[x] + 1]
  <2>1. rank[x] \in Nat /\ rank[x] + 1 \in Nat /\ rank[x] < rank[x] + 1
    BY <1>1
  <2>2. h \in R(rank[x] + 1) /\ h \in G
    BY <1>5, <2>1
  <2>3. ASSUME NEW y \in D, rank[y] < rank[x] PROVE g[y] = h[y]
    <3>1. rank[y] \in Nat /\ rank[y] + 1 \in Nat /\ rank[y] + 1 <= rank[x] + 1 /\ rank[y] < rank[y] + 1
      BY <1>1, <2>3
    <3>2. c[rank[y] + 1] \in R(rank[y] + 1)
      BY <1>5, <3>1
    <3> HIDE DEF h, R
    <3>3. c[rank[y] + 1][y] = h[y]
      BY <1>3, <2>1, <2>2, <3>1, <3>2
    <3>4. QED
      BY <1>6, <3>3
  <2>4. step[<<x, g>>] = step[<<x, h>>]
    BY <1>1, <1>7, <2>2, <2>3
  <2>5. h[x] = step[<<x, h>>]
    BY <2>1, <2>2
  <2>6. QED
    BY <1>6, <2>4, <2>5
<1>9. QED
  BY <1>7, <1>8 DEF G

\* Products and sums of natural numbers are natural.
LEMMA Product == \A x, y \in Nat : x * y \in Nat
OBVIOUS

\* r[k] is the number that the first k cells from offset o make.
Adds(r, f, o, n, b) ==
  /\ \A k \in 0..n : r[k] = IF k = 0 THEN 0 ELSE r[k - 1] * b + f[o + k]
  /\ Upload!BE(f, o, n, b) = r[n]

\* A number of n cells adds them up one by one.
LEMMA NumberRecursion ==
  ASSUME NEW f \in Seq(Nat), NEW o \in Nat, NEW n \in Nat, NEW b \in Nat, Upload!Has(f, o, n)
  PROVE  \E r \in [0..n -> Nat] : Adds(r, f, o, n, b)
<1> DEFINE D == 0..n
           rank == [k \in D |-> k]
           Body(k, h) == IF k = 0 THEN 0 ELSE h[k - 1] * b + Upload!At(f, o + k - 1)
           step == [p \in D \X [D -> Nat] |-> Body(p[1], p[2])]
<1>0. ASSUME NEW k \in D, k # 0
      PROVE  k - 1 \in D /\ k \in Nat /\ f[o + k] \in Nat /\ Upload!At(f, o + k - 1) = f[o + k]
  BY <1>0 DEF Upload!Has, Upload!At
<1>1. \A k \in D : k # 0 => Upload!At(f, o + k - 1) \in Nat /\ Upload!At(f, o + k - 1) = f[o + k] /\ k - 1 \in D
  BY <1>0
<1>2. rank \in [D -> Nat] /\ \A k \in D : rank[k] = k
  OBVIOUS
<1>3. \A k \in D, h \in [D -> Nat] : step[<<k, h>>] = Body(k, h)
  OBVIOUS
<1>4. PICK g \in [D -> Nat] : \A k \in D : g[k] = step[<<k, g>>]
  <2>1. ASSUME NEW k \in D, NEW h \in [D -> Nat] PROVE Body(k, h) \in Nat
    <3>1. CASE k = 0
      BY <3>1
    <3>2. CASE k # 0
      <4>1. h[k - 1] \in Nat /\ Upload!At(f, o + k - 1) \in Nat
        BY <1>1, <3>2
      <4>2. \A x, y \in Nat : x * b + y \in Nat
        BY Product, SMTT(20)
      <4>3. QED
        BY <3>2, <4>1, <4>2
    <3>3. QED
      BY <3>1, <3>2
  <2>2. ASSUME NEW k \in D, NEW x \in [D -> Nat], NEW y \in [D -> Nat],
               \A j \in D : rank[j] < rank[k] => x[j] = y[j]
        PROVE  step[<<k, x>>] = step[<<k, y>>]
    <3>1. Body(k, x) = Body(k, y)
      BY <1>1, <2>2
    <3>2. QED
      BY <1>3, <3>1
  <2> HIDE DEF step, Body, rank, D
  <2>3. \A k \in D, h \in [D -> Nat] : step[<<k, h>>] \in Nat
    BY <1>3, <2>1
  <2>5. Nat # {}
    OBVIOUS
  <2>6. Recursive(D, Nat, rank, step)
    BY <1>2, <2>3, <2>2, <2>5 DEF Recursive
  <2>7. QED
    BY <2>6, RecursionExists
<1>5. g = [k \in D |-> IF k = 0 THEN 0 ELSE g[k - 1] * b + Upload!At(f, o + k - 1)]
  BY <1>3, <1>4
<1>6. \E r : /\ r = [k \in 0..n |-> IF k = 0 THEN 0 ELSE r[k - 1] * b + Upload!At(f, o + k - 1)]
             /\ Upload!BE(f, o, n, b) = r[n]
  BY <1>5, Zenon DEF Upload!BE
<1>7. PICK r : /\ r = [k \in 0..n |-> IF k = 0 THEN 0 ELSE r[k - 1] * b + Upload!At(f, o + k - 1)]
               /\ Upload!BE(f, o, n, b) = r[n]
  BY <1>6
<1>8. \A k \in D : r[k] = IF k = 0 THEN 0 ELSE r[k - 1] * b + f[o + k]
  BY <1>1, <1>7
<1>9. \A k \in D : r[k] \in Nat
  <2> DEFINE T == {k \in D : r[k] \in Nat}
  <2> HIDE DEF rank
  <2>1. ASSUME NEW k \in D, k # 0 PROVE f[o + k] \in Nat /\ k - 1 \in D /\ rank[k - 1] < rank[k]
    <3>1. f[o + k] \in Nat /\ k - 1 \in D /\ k \in Nat
      BY <1>0, <2>1
    <3>2. rank[k - 1] = k - 1 /\ rank[k] = k
      BY <1>2, <3>1
    <3>3. QED
      BY <3>1, <3>2
  <2> HIDE DEF T, rank, D
  <2>2. ASSUME NEW k \in D, \A y \in D : rank[y] < rank[k] => y \in T
        PROVE  k \in T
    <3>1. CASE k = 0
      BY <1>8, <3>1 DEF T
    <3>2. CASE k # 0
      <4>1. r[k - 1] \in Nat
        BY <2>1, <2>2, <3>2 DEF T
      <4>2. r[k - 1] * b \in Nat /\ f[o + k] \in Nat
        BY <2>1, <3>2, <4>1, Product
      <4>3. r[k] = r[k - 1] * b + f[o + k]
        BY <1>8, <3>2
      <4>4. r[k] \in Nat
        BY <4>2, <4>3
      <4>5. QED
        BY <4>4 DEF T
    <3>3. QED
      BY <3>1, <3>2
  <2>3. D \subseteq T
    BY <1>2, <2>2, RankInduction
  <2>4. QED
    BY <2>3 DEF T
<1>10. QED
  BY <1>7, <1>8, <1>9 DEF Adds

\* v is the number in n cells from offset o, big-endian or little-endian.
IsBig(v, f, o, n, b) ==
  /\ v \in Nat
  /\ n = 1 => v = f[o + 1]
  /\ n = 2 => v = f[o + 1] * b + f[o + 2]
  /\ n = 3 => v = (f[o + 1] * b + f[o + 2]) * b + f[o + 3]
  /\ n = 4 => v = ((f[o + 1] * b + f[o + 2]) * b + f[o + 3]) * b + f[o + 4]
IsLittle(v, f, o, n, b) ==
  /\ v \in Nat
  /\ n = 2 => v = f[o + 2] * b + f[o + 1]
  /\ n = 3 => v = (f[o + 3] * b + f[o + 2]) * b + f[o + 1]
  /\ n = 4 => v = ((f[o + 4] * b + f[o + 3]) * b + f[o + 2]) * b + f[o + 1]

\* Numbers of up to four cells, cell by cell.
LEMMA BigNumbers ==
  ASSUME NEW f \in Seq(Nat), NEW o \in Nat, NEW n \in Nat, NEW b \in Nat, Upload!Has(f, o, n)
  PROVE  IsBig(Upload!BE(f, o, n, b), f, o, n, b)
<1>0. PICK r \in [0..n -> Nat] : Adds(r, f, o, n, b)
  BY NumberRecursion
<1>1. /\ \A k \in 0..n : r[k] = IF k = 0 THEN 0 ELSE r[k - 1] * b + f[o + k]
      /\ Upload!BE(f, o, n, b) = r[n]
  BY <1>0 DEF Adds
<1>2. Upload!BE(f, o, n, b) \in Nat
  BY <1>0, <1>1
<1>3. \A k \in 1..n : f[o + k] \in Nat
  BY DEF Upload!Has
<1>4. r[0] = 0
  BY <1>1
<1>5. n >= 1 => r[1] = r[0] * b + f[o + 1]
  BY <1>1
<1>6. n >= 2 => r[2] = r[1] * b + f[o + 2]
  BY <1>1
<1>7. n >= 3 => r[3] = r[2] * b + f[o + 3]
  BY <1>1
<1>8. n >= 4 => r[4] = r[3] * b + f[o + 4]
  BY <1>1
<1>9. n >= 1 => r[1] = f[o + 1]
  <2>1. SUFFICES ASSUME n >= 1 PROVE r[1] = f[o + 1]
    OBVIOUS
  <2>2. f[o + 1] \in Nat /\ r[1] = r[0] * b + f[o + 1]
    BY <1>3, <1>5, <2>1
  <2>3. r[0] * b = 0
    BY <1>4
  <2>4. QED
    BY <2>2, <2>3
<1>10. n = 2 => r[2] = f[o + 1] * b + f[o + 2]
  BY <1>6, <1>9
<1>11. n = 3 => r[3] = (f[o + 1] * b + f[o + 2]) * b + f[o + 3]
  <2>1. n = 3 => r[2] = f[o + 1] * b + f[o + 2] /\ r[3] = r[2] * b + f[o + 3]
    BY <1>6, <1>7, <1>9
  <2>2. QED
    BY <2>1, Zenon
<1>12. n = 4 => r[4] = ((f[o + 1] * b + f[o + 2]) * b + f[o + 3]) * b + f[o + 4]
  <2>1. n = 4 => r[2] = f[o + 1] * b + f[o + 2] /\ r[3] = r[2] * b + f[o + 3] /\ r[4] = r[3] * b + f[o + 4]
    BY <1>6, <1>7, <1>8, <1>9, SMTT(20)
  <2>2. QED
    BY <2>1, Zenon
<1>13. n = 1 => r[1] = f[o + 1]
  BY <1>9
<1>14. QED
  BY <1>1, <1>2, <1>10, <1>11, <1>12, <1>13, Zenon DEF IsBig

\* Little-endian numbers of up to four cells.
LEMMA LittleNumbers ==
  ASSUME NEW f \in Seq(Nat), NEW o \in Nat, NEW n \in Nat, NEW b \in Nat, Upload!Has(f, o, n)
  PROVE  IsLittle(Upload!LE(f, o, n, b), f, o, n, b)
<1> DEFINE g == [i \in 1..n |-> Upload!At(f, o + n - i)]
<1>1. \A i \in 1..n : g[i] = f[o + n - i + 1] /\ g[i] \in Nat
  BY DEF Upload!At, Upload!Has
<1>2. g \in Seq(Nat) /\ Len(g) = n
  <2>1. DOMAIN g = 1..n /\ g = [i \in 1..n |-> g[i]]
    OBVIOUS
  <2> HIDE DEF g
  <2>2. g \in [1..n -> Nat]
    BY <1>1, <2>1
  <2>3. QED
    BY <2>2
<1>3. Upload!LE(f, o, n, b) = Upload!BE(g, 0, n, b)
  BY DEF Upload!LE
<1> HIDE DEF g
<1>4. Upload!Has(g, 0, n)
  BY <1>2 DEF Upload!Has
<1>5. n = 2 => g[1] = f[o + 2] /\ g[2] = f[o + 1]
  BY <1>1
<1>6. n = 3 => g[1] = f[o + 3] /\ g[2] = f[o + 2] /\ g[3] = f[o + 1]
  BY <1>1
<1>7. n = 4 => g[1] = f[o + 4] /\ g[2] = f[o + 3] /\ g[3] = f[o + 2] /\ g[4] = f[o + 1]
  BY <1>1
<1>8. IsBig(Upload!BE(g, 0, n, b), g, 0, n, b)
  BY <1>2, <1>4, BigNumbers
<1>9. QED
  BY <1>3, <1>5, <1>6, <1>7, <1>8 DEF IsBig, IsLittle

\* A cell of four bits has as many leading zeros as it lacks to a power of two.
LEMMA LeadingZeros ==
  ASSUME NEW v \in 0..15
  PROVE  /\ v = 0 => Upload!LeadingZeroBits(v) = 4
         /\ v = 1 => Upload!LeadingZeroBits(v) = 3
         /\ v \in 2..3 => Upload!LeadingZeroBits(v) = 2
         /\ v \in 4..7 => Upload!LeadingZeroBits(v) = 1
         /\ v \in 8..15 => Upload!LeadingZeroBits(v) = 0
<1> DEFINE P(n) == 2^n > v /\ (n > 0 => 2^(n - 1) <= v)
           c == CHOOSE n \in 0..4 : P(n)
<1>1. /\ P(0) <=> v = 0
      /\ P(1) <=> v = 1
      /\ P(2) <=> v \in 2..3
      /\ P(3) <=> v \in 4..7
      /\ P(4) <=> v \in 8..15
  OBVIOUS
<1>2. 0..4 = {0, 1, 2, 3, 4}
  OBVIOUS
<1>3. Upload!LeadingZeroBits(v) = 4 - c
  BY DEF Upload!LeadingZeroBits, Upload!Cells
<1> HIDE DEF P
<1>4. \E n \in 0..4 : P(n)
  BY <1>1, <1>2
<1>5. c \in 0..4 /\ P(c)
  BY <1>4
<1> HIDE DEF c
<1>6. c \in {0, 1, 2, 3, 4}
  BY <1>2, <1>5
<1>7. QED
  BY <1>1, <1>3, <1>5, <1>6

Nibbles == 0..15
Vints == [value : Nat, length : 1..4]

\* A size of variable length, where there is one, has its marker bit in place.
LEMMA VintIsRead ==
  ASSUME NEW f \in Seq(Nibbles), NEW o \in Nat, Upload!ReadVintSize(f, o) # Upload!NoSize
  PROVE  /\ Upload!ReadVintSize(f, o) \in Vints
         /\ Upload!Has(f, o, Upload!ReadVintSize(f, o).length)
<1> DEFINE v == Upload!At(f, o)
           l == Upload!LeadingZeroBits(v) + 1
           n == Upload!BE(f, o, l, 16)
<1>1. Upload!Has(f, o, 1) /\ Upload!ReadVintSize(f, o) = Upload!VintOf(f, o, l)
  BY DEF Upload!ReadVintSize
<1>2. v \in 0..15 /\ v = f[o + 1] /\ f \in Seq(Nat)
  BY <1>1, SMTT(20) DEF Upload!At, Upload!Has, Nibbles
<1> HIDE DEF v
<1> DEFINE z == Upload!LeadingZeroBits(v)
<1>3. /\ v = 0 => l = 5
      /\ v = 1 => l = 4
      /\ v \in 2..3 => l = 3
      /\ v \in 4..7 => l = 2
      /\ v \in 8..15 => l = 1
  <2>1. /\ v = 0 => z = 4
        /\ v = 1 => z = 3
        /\ v \in 2..3 => z = 2
        /\ v \in 4..7 => z = 1
        /\ v \in 8..15 => z = 0
    BY <1>2, LeadingZeros
  <2>2. l = z + 1
    OBVIOUS
  <2> HIDE DEF l, z
  <2>3. QED
    BY <2>1, <2>2
<1>m. /\ l = 1 => v >= 8
      /\ l = 2 => v >= 4
      /\ l = 3 => v >= 2
      /\ l = 4 => v >= 1
  <2>1. v = 0 \/ v = 1 \/ v \in 2..3 \/ v \in 4..7 \/ v \in 8..15
    BY <1>2
  <2>2. v \in Nat
    BY <1>2
  <2>3. QED
    BY ONLY <1>3, <2>1, <2>2
<1>l. l \in 1..5
  BY <1>2, <1>3
<1> HIDE DEF l
<1>4. /\ l <= 4 /\ Upload!Has(f, o, l)
      /\ Upload!VintOf(f, o, l) = [value |-> n - 2^(4 - l) * 16^(l - 1), length |-> l]
  BY <1>1 DEF Upload!VintOf, Upload!Cells, Upload!Base
<1>5. IsBig(n, f, o, l, 16)
  BY <1>l, <1>2, <1>4, BigNumbers
<1> HIDE DEF n
<1>6. /\ n \in Nat
      /\ l = 1 => n = v
      /\ l = 2 => n = v * 16 + f[o + 2]
      /\ l = 3 => n = (v * 16 + f[o + 2]) * 16 + f[o + 3]
      /\ l = 4 => n = ((v * 16 + f[o + 2]) * 16 + f[o + 3]) * 16 + f[o + 4]
  BY <1>2, <1>5 DEF IsBig
<1>7. \A i \in 1..Len(f) : f[i] \in Nat
  BY <1>2
<1>8. o + l <= Len(f) /\ Len(f) \in Nat
  BY <1>4 DEF Upload!Has
<1>9. l \in {1, 2, 3, 4}
  BY <1>4, <1>l
<1>10. n - 2^(4 - l) * 16^(l - 1) \in Nat
  <2>1. CASE l = 1
    <3>1. n >= 8
      BY <1>m, <1>6, <2>1
    <3>2. 2^(4 - l) * 16^(l - 1) = 8
      BY <2>1
    <3>3. QED
      BY <1>6, <3>1, <3>2
  <2>2. CASE l = 2
    <3>1. f[o + 2] \in Nat /\ v >= 4 /\ n = v * 16 + f[o + 2]
      BY <1>m, <1>6, <1>7, <1>8, <2>2
    <3>2. n >= 64
      BY <1>2, <3>1, SMTT(20)
    <3>3. 2^(4 - l) * 16^(l - 1) = 64
      BY <2>2
    <3>4. QED
      BY <1>6, <3>2, <3>3
  <2>3. CASE l = 3
    <3>1. f[o + 2] \in Nat /\ f[o + 3] \in Nat
      BY <1>7, <1>8, <2>3
    <3>2. v >= 2 /\ n = (v * 16 + f[o + 2]) * 16 + f[o + 3]
      BY <1>m, <1>6, <2>3
    <3>3. n >= 512
      <4>1. v \in Nat
        BY <1>2
      <4>2. QED
        BY ONLY <3>1, <3>2, <4>1
    <3>4. 2^(4 - l) * 16^(l - 1) = 512
      BY <2>3
    <3>5. QED
      BY <1>6, <3>3, <3>4
  <2>4. CASE l = 4
    <3>1. f[o + 2] \in Nat /\ f[o + 3] \in Nat /\ f[o + 4] \in Nat
      BY <1>7, <1>8, <2>4
    <3>2. v >= 1 /\ n = ((v * 16 + f[o + 2]) * 16 + f[o + 3]) * 16 + f[o + 4]
      BY <1>m, <1>6, <2>4
    <3>3. n >= 4096
      <4>1. v \in Nat
        BY <1>2
      <4>2. QED
        BY ONLY <3>1, <3>2, <4>1, SMTT(20)
    <3>4. 2^(4 - l) * 16^(l - 1) = 4096
      BY <2>4
    <3>5. QED
      BY <1>6, <3>3, <3>4
  <2>5. QED
    BY <1>9, <2>1, <2>2, <2>3, <2>4
<1>11. QED
  BY <1>1, <1>4, <1>9, <1>10 DEF Vints

Elements == [id : Seq(Nat), dataStart : Nat, next : Nat]

\* An element that is read begins where it was looked for and ends after it.
LEMMA ElementIsRead ==
  ASSUME NEW f \in Seq(Nibbles), NEW o \in Nat, Upload!ReadEbmlElement(f, o) # Upload!NoElement
  PROVE  /\ Upload!ReadEbmlElement(f, o) \in Elements
         /\ o < Upload!ReadEbmlElement(f, o).dataStart
         /\ Upload!ReadEbmlElement(f, o).dataStart <= Len(f)
         /\ Upload!ReadEbmlElement(f, o).dataStart <= Upload!ReadEbmlElement(f, o).next
<1> DEFINE v == Upload!At(f, o)
           n == Upload!LeadingZeroBits(v) + 1
           size == Upload!ReadVintSize(f, o + n)
           id == Upload!Slice(f, o, o + n)
<1>1. Upload!Has(f, o, 1) /\ v # 0 /\ Upload!ReadEbmlElement(f, o) = Upload!ElementAt(f, o, n)
  BY DEF Upload!ReadEbmlElement
<1>2. v \in 1..15
  BY <1>1 DEF Upload!At, Upload!Has, Nibbles
<1> HIDE DEF v
<1>3. n \in 1..4
  <2>1. v \in 0..15
    BY <1>2
  <2>2. QED
    BY <1>2, <2>1, LeadingZeros
<1> HIDE DEF n
<1>4. Upload!Has(f, o, n) /\ Upload!ElementAt(f, o, n) = Upload!Contents(f, id, o + n, size)
  BY <1>1 DEF Upload!ElementAt
<1>5. size # Upload!NoSize
  BY <1>1, <1>4 DEF Upload!Contents
<1>6. size \in Vints /\ Upload!Has(f, o + n, size.length)
  BY <1>3, <1>5, VintIsRead
<1> HIDE DEF size
<1>7. size.value \in Nat /\ size.length \in 1..4 /\ o + n + size.length <= Len(f) /\ Len(f) \in Nat
  BY <1>6 DEF Vints, Upload!Has
<1>8. id \in Seq(Nat)
  BY <1>3, <1>4, SMTT(20) DEF Upload!Slice, Upload!Has, Nibbles
<1> HIDE DEF id
<1>9. Upload!Contents(f, id, o + n, size) =
        [id |-> id, dataStart |-> o + n + size.length,
         next |-> IF Upload!IsUnknownVintSize(size) THEN Len(f) ELSE o + n + size.length + size.value]
  BY <1>5 DEF Upload!Contents
<1>10. QED
  BY <1>1, <1>3, <1>4, <1>7, <1>8, <1>9, SMTT(20) DEF Elements

\* How far an offset is from the end of a file.
Left(f, o) == IF o <= Len(f) THEN Len(f) - o ELSE 0

\* r gives the first element from each offset on.
FindsElements(r, f, id, end) ==
  /\ r \in [Nat -> Elements]
  /\ \A o \in Nat : Upload!FindElement(f, id, o, end) = r[o] /\ r[o] = Upload!ElementFrom(f, id, o, end, r)

\* The search for an element comes to an end.
LEMMA ElementSearch ==
  ASSUME NEW f \in Seq(Nibbles), NEW id, NEW end \in Nat
  PROVE  \E r : FindsElements(r, f, id, end)
<1> DEFINE rank == [o \in Nat |-> Left(f, o)]
           Body(o, h) == Upload!ElementFrom(f, id, o, end, h)
           step == [p \in Nat \X [Nat -> Elements] |-> Body(p[1], p[2])]
           e(o) == Upload!ReadEbmlElement(f, o)
           Stops(o) == o + 2 > end \/ ~Upload!Has(f, o, 2)
           Ends(o) == e(o) = Upload!NoElement \/ e(o).id = id
<1>1. \A o \in Nat : rank[o] = Left(f, o) /\ Left(f, o) \in Nat
  BY DEF Left
<1>2. rank \in [Nat -> Nat]
  BY <1>1
<1>3. \A o \in Nat, h \in [Nat -> Elements] : step[<<o, h>>] = Body(o, h)
  OBVIOUS
<1>4. Upload!NoElement \in Elements
  BY DEF Upload!NoElement, Elements
<1>5. \A o, h : Body(o, h) = IF Stops(o) THEN Upload!NoElement ELSE IF Ends(o) THEN e(o) ELSE h[e(o).next]
  BY DEF Upload!ElementFrom
<1>6. ASSUME NEW o \in Nat, ~Stops(o), e(o) # Upload!NoElement
      PROVE  e(o) \in Elements /\ e(o).next \in Nat /\ rank[e(o).next] < rank[o]
  <2>1. e(o) \in Elements /\ o < e(o).dataStart /\ e(o).dataStart <= Len(f) /\ e(o).dataStart <= e(o).next
    BY <1>6, ElementIsRead
  <2>2. e(o).dataStart \in Nat /\ e(o).next \in Nat
    BY <2>1 DEF Elements
  <2>3. o < Len(f) /\ o < e(o).next /\ Len(f) \in Nat
    BY <2>1, <2>2
  <2>4. Left(f, e(o).next) < Left(f, o)
    BY <2>2, <2>3 DEF Left
  <2>5. QED
    BY <1>1, <2>1, <2>2, <2>4
<1>7. PICK g \in [Nat -> Elements] : \A o \in Nat : g[o] = step[<<o, g>>]
  <2> HIDE DEF rank, step, Body, e, Stops
  <2>1. ASSUME NEW o \in Nat, NEW h \in [Nat -> Elements] PROVE step[<<o, h>>] \in Elements
    <3>1. Body(o, h) \in Elements
      BY <1>4, <1>5, <1>6
    <3>2. QED
      BY <1>3, <3>1
  <2>2. ASSUME NEW o \in Nat, NEW x \in [Nat -> Elements], NEW y \in [Nat -> Elements],
               \A j \in Nat : rank[j] < rank[o] => x[j] = y[j]
        PROVE  step[<<o, x>>] = step[<<o, y>>]
    <3>1. Body(o, x) = Body(o, y)
      BY <1>5, <1>6, <2>2
    <3>2. QED
      BY <1>3, <3>1
  <2> DEFINE D == Nat
  <2>3. Recursive(D, Elements, rank, step)
    BY <1>2, <1>4, <2>1, <2>2 DEF Recursive
  <2>4. \E g \in [D -> Elements] : \A o \in D : g[o] = step[<<o, g>>]
    <3> HIDE DEF D
    <3> QED BY <2>3, RecursionExists
  <2>5. QED
    BY <2>4
<1>8. g = [o \in Nat |-> Upload!ElementFrom(f, id, o, end, g)]
  BY <1>3, <1>7
<1>9. \E r : /\ r = [o \in Nat |-> Upload!ElementFrom(f, id, o, end, r)]
             /\ \A o : Upload!FindElement(f, id, o, end) = r[o]
  BY <1>8, Zenon DEF Upload!FindElement
<1>10. PICK r : /\ r = [o \in Nat |-> Upload!ElementFrom(f, id, o, end, r)]
                /\ \A o : Upload!FindElement(f, id, o, end) = r[o]
  BY <1>9
<1>11. \A o \in Nat : r[o] = Body(o, r)
  BY <1>10, Zenon
<1> HIDE DEF rank, step, Body, e, Stops
<1>12. \A o \in Nat : r[o] \in Elements
  <2> DEFINE T == {o \in Nat : r[o] \in Elements}
  <2>1. ASSUME NEW o \in Nat, \A y \in Nat : rank[y] < rank[o] => y \in T
        PROVE  o \in T
    <3>1. r[o] \in Elements
      BY <1>4, <1>5, <1>6, <1>11, <2>1
    <3>2. QED
      BY <3>1
  <2> HIDE DEF T
  <2> DEFINE D == Nat
  <2>2. rank \in [D -> Nat] /\ \A o \in D : (\A y \in D : rank[y] < rank[o] => y \in T) => o \in T
    BY <1>2, <2>1
  <2> HIDE DEF D
  <2>4. D \subseteq T
    BY <2>2, RankInduction
  <2>3. QED
    BY <2>4 DEF T, D
<1>13. QED
  BY <1>10, <1>11, <1>12, Zenon DEF FindsElements, Body

\* What a parser that throws nothing says.
Answered == [is : {"read", "null"}, num : Nat, den : Nat]

\* What is read from an element of Info, if it has a number of the given kind.
NumberOf(f, e, id, old) ==
  IF e.id \in {Upload!TimecodeScaleId, Upload!DurationId} /\ e.next - e.dataStart \in {1, 2} /\ e.id = id
  THEN Upload!BE(f, e.dataStart, e.next - e.dataStart, 16) ELSE old

\* The progress after an element.
Past(f, e, p) ==
  <<e.next, NumberOf(f, e, Upload!TimecodeScaleId, p[2]), NumberOf(f, e, Upload!DurationId, p[3])>>

\* The elements of Info, one by one.
InfoStep(f, p, end, h) ==
  IF p[1] + 2 > end THEN IF p[3] \in Upload!NoDuration THEN Upload!Null ELSE Upload!Read(p[3] * p[2], 4)
  ELSE LET e == Upload!ReadEbmlElement(f, p[1])
       IN  IF e = Upload!NoElement \/ e.next > Len(f) THEN Upload!Null ELSE h[Past(f, e, p)]

\* r gives the answer from each progress on.
ReadsInfo(r, f, info) ==
  /\ r \in [Upload!Progress -> Answered]
  /\ \A p \in Upload!Progress : r[p] = InfoStep(f, p, Upload!Smaller(info.next, Len(f)), r)
  /\ Upload!ReadInfo(f, info) =
       IF info = Upload!NoElement THEN Upload!Null ELSE r[<<info.dataStart, 2, 0>>]

\* Info is read to its end or to an element that is cut, and nothing throws.
LEMMA InfoReading ==
  ASSUME NEW f \in Seq(Nibbles), NEW info \in Elements
  PROVE  \E r : ReadsInfo(r, f, info)
<1> DEFINE end == Upload!Smaller(info.next, Len(f))
           P == Upload!Progress
           rank == [p \in P |-> Left(f, p[1])]
           step == [q \in P \X [P -> Answered] |-> InfoStep(f, q[1], end, q[2])]
           e(p) == Upload!ReadEbmlElement(f, p[1])
           Ends(p) == p[1] + 2 > end
           Fails(p) == e(p) = Upload!NoElement \/ e(p).next > Len(f)
           Last(p) == IF p[3] \in Upload!NoDuration THEN Upload!Null ELSE Upload!Read(p[3] * p[2], 4)
<1>0. end \in Nat /\ Len(f) \in Nat
  BY DEF Elements, Upload!Smaller
<1> HIDE DEF end
<1>1. \A p \in P : p[1] \in Nat /\ p[2] \in Nat /\ p[3] \in Nat
  BY DEF Upload!Progress
<1>2. rank \in [P -> Nat] /\ \A p \in P : rank[p] = Left(f, p[1])
  BY <1>0, <1>1 DEF Left
<1>3. \A p \in P, h \in [P -> Answered] : step[<<p, h>>] = InfoStep(f, p, end, h)
  OBVIOUS
<1>4. Upload!Null \in Answered /\ \A p \in P : Last(p) \in Answered
  <2>1. \A p \in P : p[3] * p[2] \in Nat
    BY <1>1, Product
  <2>2. QED
    BY <2>1 DEF Upload!Null, Upload!Read, Answered
<1>5. \A p, h : InfoStep(f, p, end, h) =
        IF Ends(p) THEN Last(p) ELSE IF Fails(p) THEN Upload!Null ELSE h[Past(f, e(p), p)]
  BY DEF InfoStep
<1>6. ASSUME NEW p \in P, ~Fails(p)
      PROVE  Past(f, e(p), p) \in P /\ rank[Past(f, e(p), p)] < rank[p] /\ Upload!IsThere(f, e(p))
  <2>1. /\ e(p) \in Elements /\ p[1] < e(p).dataStart
        /\ e(p).dataStart <= Len(f) /\ e(p).dataStart <= e(p).next
    BY <1>1, <1>6, ElementIsRead
  <2>2. e(p).dataStart \in Nat /\ e(p).next \in Nat /\ e(p).next <= Len(f) /\ p[1] \in Nat
    BY <1>0, <1>1, <1>6, <2>1 DEF Elements
  <2>3. Left(f, e(p).next) < Left(f, p[1])
    BY <1>0, <2>1, <2>2 DEF Left
  <2> DEFINE n == e(p).next - e(p).dataStart
  <2>4. f \in Seq(Nat) /\ n \in Nat /\ Upload!Has(f, e(p).dataStart, n)
    BY <1>0, <2>1, <2>2, SMTT(20) DEF Upload!Has, Nibbles
  <2>5. Upload!BE(f, e(p).dataStart, n, 16) \in Nat
    BY <2>2, <2>4, BigNumbers DEF IsBig
  <2> HIDE DEF e, rank
  <2>6. \A id, old : old \in Nat => NumberOf(f, e(p), id, old) \in Nat
    BY <2>5 DEF NumberOf
  <2>7. Past(f, e(p), p) \in P /\ Past(f, e(p), p)[1] = e(p).next
    BY <1>1, <2>2, <2>6 DEF Past, Upload!Progress
  <2>8. QED
    BY <1>2, <2>2, <2>3, <2>7 DEF Upload!IsThere
<1> HIDE DEF rank, step, Last, e, Ends, P
<1>7. PICK g \in [P -> Answered] : \A p \in P : g[p] = step[<<p, g>>]
  <2>1. ASSUME NEW p \in P, NEW h \in [P -> Answered] PROVE step[<<p, h>>] \in Answered
    <3>1. InfoStep(f, p, end, h) \in Answered
      <4>1. CASE Ends(p) \/ Fails(p)
        BY <1>4, <1>5, <4>1
      <4>2. CASE ~Ends(p) /\ ~Fails(p)
        BY <1>5, <1>6, <4>2
      <4>3. QED
        BY <4>1, <4>2
    <3>2. QED
      BY <1>3, <3>1
  <2>2. ASSUME NEW p \in P, NEW x \in [P -> Answered], NEW y \in [P -> Answered],
               \A q \in P : rank[q] < rank[p] => x[q] = y[q]
        PROVE  step[<<p, x>>] = step[<<p, y>>]
    <3>1. InfoStep(f, p, end, x) = InfoStep(f, p, end, y)
      BY <1>5, <1>6, <2>2
    <3>2. QED
      BY <1>3, <3>1
  <2>3. Recursive(P, Answered, rank, step)
    BY <1>2, <1>4, <2>1, <2>2 DEF Recursive
  <2>4. QED
    BY <2>3, RecursionExists
<1>8. ASSUME NEW p \in P, NEW h
      PROVE  Upload!InfoFrom(f, p, end, h) = InfoStep(f, p, end, h)
  <2>1. ~Fails(p) => /\ Upload!IsThere(f, e(p))
                     /\ ~(e(p).next > Len(f))
    BY <1>6
  <2>2. Fails(p) => e(p) = Upload!NoElement \/ ~Upload!IsThere(f, e(p))
    <3>1. e(p) # Upload!NoElement => e(p).next \in Nat
      BY <1>1, ElementIsRead DEF Elements, e
    <3>2. QED
      BY <1>0, <3>1 DEF Upload!IsThere
  <2>3. QED
    BY <2>1, <2>2, Zenon DEF Upload!InfoFrom, InfoStep, NumberOf, Past, e, Upload!Narrow, Upload!Wide, Upload!Base, Upload!ScalesPerSecond
<1>9. g = [p \in Upload!Progress |-> Upload!InfoFrom(f, p, end, g)]
  BY <1>3, <1>7, <1>8 DEF P
<1>10. \E r : /\ r = [p \in Upload!Progress |-> Upload!InfoFrom(f, p, end, r)]
              /\ Upload!ReadInfo(f, info) = IF info = Upload!NoElement THEN Upload!Null ELSE r[<<info.dataStart, 2, 0>>]
  BY <1>9, Zenon DEF Upload!ReadInfo, Upload!DefaultScale, end
<1>11. PICK r : /\ r = [p \in Upload!Progress |-> Upload!InfoFrom(f, p, end, r)]
                /\ Upload!ReadInfo(f, info) = IF info = Upload!NoElement THEN Upload!Null ELSE r[<<info.dataStart, 2, 0>>]
  BY <1>10
<1>12. \A p \in P : r[p] = InfoStep(f, p, end, r)
  BY <1>8, <1>11, Zenon DEF P
<1>13. \A p \in P : r[p] \in Answered
  <2> DEFINE T == {p \in P : r[p] \in Answered}
  <2>1. ASSUME NEW p \in P, \A q \in P : rank[q] < rank[p] => q \in T
        PROVE  p \in T
    <3>1. r[p] \in Answered
      <4>1. CASE Ends(p) \/ Fails(p)
        BY <1>4, <1>5, <1>12, <4>1
      <4>2. CASE ~Ends(p) /\ ~Fails(p)
        BY <1>5, <1>6, <1>12, <2>1, <4>2
      <4>3. QED
        BY <4>1, <4>2
    <3>2. QED
      BY <3>1
  <2> HIDE DEF T
  <2>2. P \subseteq T
    BY <1>2, <2>1, RankInduction
  <2>3. QED
    BY <2>2 DEF T
<1>14. r \in [P -> Answered]
  <2>1. r = [p \in P |-> r[p]]
    BY <1>11, Zenon DEF P
  <2>2. QED
    BY <1>13, <2>1
<1>15. QED
  BY <1>11, <1>12, <1>14, Zenon DEF ReadsInfo, P, end

\* What a parser may say at all.
Said == Answered \cup {Upload!RangeError}

\* The size of the chunk at an offset, and what its header and contents give.
ChunkSize(f, o) == Upload!LE(f, o + 2, 2, 16)
OpensHeader(f, p) ==
  /\ p[3] /\ Upload!Tag(f, p[1]) = Upload!List /\ Upload!Has(f, p[1] + 4, 2)
  /\ Upload!Tag(f, p[1] + 4) = Upload!Hdrl
Within(f, p) == <<p[1] + 6, Upload!Smaller(p[1] + 4 + ChunkSize(f, p[1]), Len(f)), FALSE>>
AfterChunk(f, p) == <<Upload!NextChunk(p[1] + 4, ChunkSize(f, p[1])), p[2], p[3]>>
InChunk(f, p, h) ==
  IF OpensHeader(f, p) THEN h[Within(f, p)]
  ELSE IF Upload!Tag(f, p[1]) = Upload!Avih /\ ChunkSize(f, p[1]) >= 10 THEN Upload!ParseAvih(f, p[1] + 4)
  ELSE Upload!Null

\* The chunks, one by one.
ChunkStep(f, p, h) ==
  IF p[1] + 4 > p[2] THEN Upload!Null
  ELSE IF p[1] + 4 > Len(f) THEN Upload!RangeError
  ELSE IF InChunk(f, p, h) # Upload!Null \/ ChunkSize(f, p[1]) = 0 THEN InChunk(f, p, h)
  ELSE h[AfterChunk(f, p)]

\* How far a loop is from its end.
Height(f, p) == IF p[3] = TRUE THEN Len(f) + 1 + Left(f, p[1]) ELSE Left(f, p[1])

\* r gives the answer of each loop, and throws only past the end of the file.
ReadsChunks(r, f) ==
  /\ r \in [Upload!Loops -> Said]
  /\ \A p \in Upload!Loops : r[p] = ChunkStep(f, p, r)
  /\ \A p \in Upload!Loops : p[2] <= Len(f) => r[p] \in Answered
  /\ Upload!ReadAviDuration(f) = r[<<6, Len(f), TRUE>>]

\* The loops over chunks come to an end.
LEMMA ChunkReading ==
  ASSUME NEW f \in Seq(Nat)
  PROVE  \E r : ReadsChunks(r, f)
<1> DEFINE P == Upload!Loops
           rank == [p \in P |-> Height(f, p)]
           step == [q \in P \X [P -> Said] |-> ChunkStep(f, q[1], q[2])]
           Inside(p) == p[1] + 4 <= p[2] /\ p[1] + 4 <= Len(f)
<1>l. Len(f) \in Nat
  OBVIOUS
<1>0. \A o \in Nat : Left(f, o) \in Nat /\ Left(f, o) <= Len(f)
  BY DEF Left
<1>1. \A p \in P : p[1] \in Nat /\ p[2] \in Nat /\ p[3] \in BOOLEAN
  BY DEF Upload!Loops
<1> HIDE DEF P
<1>2. rank \in [P -> Nat] /\ \A p \in P : rank[p] = Height(f, p)
  <2>1. ASSUME NEW p \in P PROVE Height(f, p) \in Nat
    <3>1. Left(f, p[1]) \in Nat /\ Len(f) \in Nat
      BY <1>0, <1>l, <1>1
    <3>2. QED
      BY <3>1 DEF Height
  <2>2. QED
    BY <2>1
<1>3. \A p \in P, h \in [P -> Said] : step[<<p, h>>] = ChunkStep(f, p, h)
  OBVIOUS
<1>4. Upload!Null \in Answered /\ Upload!Null \in Said /\ Upload!RangeError \in Said /\ Answered \subseteq Said
  BY DEF Upload!Null, Answered, Said
<1>5. ASSUME NEW p \in P, Inside(p) PROVE ChunkSize(f, p[1]) \in Nat
  <2>0. p[1] \in Nat
    BY <1>1
  <2>1. p[1] + 2 \in Nat /\ Upload!Has(f, p[1] + 2, 2)
    BY <1>l, <1>5, <2>0 DEF Upload!Has
  <2>2. QED
    BY <2>1, LittleNumbers DEF ChunkSize, IsLittle
<1>6. ASSUME NEW o \in Nat PROVE Upload!ParseAvih(f, o) \in Answered
  <2>1. CASE Upload!Has(f, o, 10)
    <3> DEFINE x == Upload!LE(f, o, 2, 16)
               y == Upload!LE(f, o + 8, 2, 16)
    <3>1. Upload!Has(f, o, 2) /\ Upload!Has(f, o + 8, 2) /\ o + 8 \in Nat
      BY <1>l, <2>1 DEF Upload!Has
    <3>2. x \in Nat /\ y \in Nat
      BY <3>1, LittleNumbers DEF IsLittle
    <3>3. Upload!ParseAvih(f, o) = Upload!Null \/ Upload!ParseAvih(f, o) = Upload!Read(x * y, 16)
      BY o + 4 * 2 = o + 8 DEF Upload!ParseAvih, Upload!Wide, Upload!Base
    <3> HIDE DEF x, y
    <3>4. QED
      BY <1>4, <3>2, <3>3, Product DEF Upload!Read, Answered
  <2>2. CASE ~Upload!Has(f, o, 10)
    BY <1>4, <2>2 DEF Upload!ParseAvih, Upload!AvihMin, Upload!Wide
  <2>3. QED
    BY <2>1, <2>2
<1>7. ASSUME NEW p \in P, Inside(p)
      PROVE  /\ AfterChunk(f, p) \in P /\ rank[AfterChunk(f, p)] < rank[p] /\ AfterChunk(f, p)[2] = p[2]
             /\ OpensHeader(f, p) => Within(f, p) \in P /\ rank[Within(f, p)] < rank[p] /\ Within(f, p)[2] <= Len(f)
  <2> DEFINE s == ChunkSize(f, p[1])
             n == Upload!NextChunk(p[1] + 4, s)
             m == Upload!Smaller(p[1] + 4 + s, Len(f))
  <2>1. s \in Nat /\ p[1] \in Nat /\ p[2] \in Nat /\ p[3] \in BOOLEAN /\ p[1] + 4 <= Len(f)
    BY <1>1, <1>5, <1>7
  <2> HIDE DEF s
  <2>2. n \in Nat /\ n > p[1]
    <3>1. s % 2 \in Nat
      BY <2>1
    <3>2. n = p[1] + 4 + s + (s % 2)
      BY DEF Upload!NextChunk
    <3> HIDE DEF n
    <3>3. p[1] \in Nat /\ s \in Nat
      BY <2>1
    <3>4. QED
      BY ONLY <3>1, <3>2, <3>3, SMTT(20)
  <2>3. m \in Nat /\ m <= Len(f)
    <3>1. p[1] + 4 + s \in Nat
      BY <2>1, SMTT(20)
    <3>2. QED
      BY <1>l, <3>1 DEF Upload!Smaller
  <2>4. Left(f, n) < Left(f, p[1])
    <3> HIDE DEF n
    <3>1. p[1] < Len(f)
      BY <1>l, <2>1
    <3>2. QED
      BY <1>l, <2>1, <2>2, <3>1, SMTT(20) DEF Left
  <2> HIDE DEF n, m
  <2>5. AfterChunk(f, p) = <<n, p[2], p[3]>> /\ Within(f, p) = <<p[1] + 6, m, FALSE>>
    BY DEF AfterChunk, Within, n, m, s
  <2>6. AfterChunk(f, p) \in P /\ Within(f, p) \in P
    <3>1. p[1] + 6 \in Nat
      BY <2>1
    <3>2. \A x, y \in Nat, z \in BOOLEAN : <<x, y, z>> \in P
      BY DEF Upload!Loops, P
    <3>3. AfterChunk(f, p) \in P
      BY <2>1, <2>2, <2>5, <3>2, Zenon
    <3>4. Within(f, p) \in P
      BY <2>3, <2>5, <3>1, <3>2, FALSE \in BOOLEAN, Zenon
    <3>5. QED
      BY <3>3, <3>4
  <2> HIDE DEF rank
  <2>7. rank[AfterChunk(f, p)] < rank[p]
    <3>1. Height(f, AfterChunk(f, p)) = IF p[3] = TRUE THEN Len(f) + 1 + Left(f, n) ELSE Left(f, n)
      BY <2>5 DEF Height
    <3>2. Left(f, n) \in Nat /\ Left(f, p[1]) \in Nat
      BY <1>0, <2>1, <2>2
    <3>3. Height(f, AfterChunk(f, p)) < Height(f, p)
      BY <1>l, <2>4, <3>1, <3>2 DEF Height
    <3>4. QED
      BY <1>2, <2>6, <3>3
  <2>8. OpensHeader(f, p) => rank[Within(f, p)] < rank[p]
    <3>1. Height(f, Within(f, p)) = Left(f, p[1] + 6)
      BY <2>5 DEF Height
    <3>2. Left(f, p[1]) \in Nat /\ Left(f, p[1] + 6) \in Nat /\ Left(f, p[1] + 6) <= Len(f)
      <4>1. p[1] + 6 \in Nat
        BY <2>1
      <4>2. QED
        BY <1>0, <2>1, <4>1
    <3>3. p[3] = TRUE => Height(f, Within(f, p)) < Height(f, p)
      BY <1>l, <3>1, <3>2 DEF Height
    <3>4. OpensHeader(f, p) => p[3] = TRUE
      BY <2>1 DEF OpensHeader
    <3>5. QED
      BY <1>2, <2>6, <3>3, <3>4
  <2>9. QED
    BY <2>3, <2>5, <2>6, <2>7, <2>8
<1> HIDE DEF rank, step, P
<1>8. ASSUME NEW p \in P, NEW h, Inside(p),
             rank[AfterChunk(f, p)] < rank[p] => h[AfterChunk(f, p)] \in Said,
             OpensHeader(f, p) => h[Within(f, p)] \in Said
      PROVE  InChunk(f, p, h) \in Said /\ ChunkStep(f, p, h) \in Said
  <2>1. InChunk(f, p, h) \in Said
    <3>1. p[1] + 4 \in Nat
      BY <1>1
    <3>2. Upload!ParseAvih(f, p[1] + 4) \in Said
      BY <1>4, <1>6, <3>1
    <3>3. QED
      BY <1>4, <1>8, <3>2 DEF InChunk
  <2>2. QED
    BY <1>1, <1>l, <1>4, <1>7, <1>8, <2>1 DEF ChunkStep
<1>9. ASSUME NEW p \in P, NEW h, ~Inside(p)
      PROVE  ChunkStep(f, p, h) = IF p[1] + 4 > p[2] THEN Upload!Null ELSE Upload!RangeError
  <2>1. p[1] + 4 \in Nat /\ p[2] \in Nat
    BY <1>1
  <2>2. ~(p[1] + 4 > p[2]) => p[1] + 4 > Len(f)
    BY <1>l, <1>9, <2>1
  <2>3. QED
    BY <2>2 DEF ChunkStep
<1>10. PICK g \in [P -> Said] : \A p \in P : g[p] = step[<<p, g>>]
  <2>1. ASSUME NEW p \in P, NEW h \in [P -> Said] PROVE step[<<p, h>>] \in Said
    <3>1. ChunkStep(f, p, h) \in Said
      <4>1. CASE Inside(p)
        BY <1>7, <1>8, <4>1
      <4>2. CASE ~Inside(p)
        BY <1>4, <1>9, <4>2
      <4>3. QED
        BY <4>1, <4>2
    <3>2. QED
      BY <1>3, <3>1
  <2>2. ASSUME NEW p \in P, NEW x \in [P -> Said], NEW y \in [P -> Said],
               \A q \in P : rank[q] < rank[p] => x[q] = y[q]
        PROVE  step[<<p, x>>] = step[<<p, y>>]
    <3>1. ChunkStep(f, p, x) = ChunkStep(f, p, y)
      <4>1. CASE Inside(p)
        <5>1. x[AfterChunk(f, p)] = y[AfterChunk(f, p)] /\ InChunk(f, p, x) = InChunk(f, p, y)
          BY <1>7, <2>2, <4>1 DEF InChunk
        <5>2. QED
          BY <5>1 DEF ChunkStep
      <4>2. CASE ~Inside(p)
        BY <1>9, <4>2
      <4>3. QED
        BY <4>1, <4>2
    <3>2. QED
      BY <1>3, <3>1
  <2>3. Recursive(P, Said, rank, step)
    BY <1>2, <1>4, <2>1, <2>2 DEF Recursive
  <2>4. QED
    BY <2>3, RecursionExists
<1>11. ASSUME NEW p \in P, NEW h PROVE Upload!ChunksFrom(f, p, h) = ChunkStep(f, p, h)
  <2>1. Upload!Wide = 2 /\ Upload!Base = 16 /\ Upload!AvihMin = 10
    BY DEF Upload!Wide, Upload!Base, Upload!AvihMin
  <2>2. p[1] \in Nat
    BY <1>1
  <2>3. p[1] + 2 * 2 = p[1] + 4 /\ p[1] + 4 + 2 = p[1] + 6
    BY <2>2
  <2>4. QED
    BY <2>1, <2>3, Zenon DEF Upload!ChunksFrom, ChunkStep, InChunk, OpensHeader, Within, AfterChunk, ChunkSize
<1>12. g = [p \in Upload!Loops |-> Upload!ChunksFrom(f, p, g)]
  BY <1>3, <1>10, <1>11 DEF P
<1>13. \E r : /\ r = [p \in Upload!Loops |-> Upload!ChunksFrom(f, p, r)]
              /\ Upload!ReadAviDuration(f) = r[<<6, Len(f), TRUE>>]
  <2>1. \E r : /\ r = [p \in Upload!Loops |-> Upload!ChunksFrom(f, p, r)]
               /\ Upload!ReadAviDuration(f) = r[<<3 * Upload!Wide, Len(f), TRUE>>]
    BY <1>12, Zenon DEF Upload!ReadAviDuration
  <2>2. 3 * Upload!Wide = 6
    BY DEF Upload!Wide
  <2>3. QED
    BY <2>1, <2>2, Zenon
<1>14. PICK r : /\ r = [p \in Upload!Loops |-> Upload!ChunksFrom(f, p, r)]
                /\ Upload!ReadAviDuration(f) = r[<<6, Len(f), TRUE>>]
  BY <1>13
<1>15. \A p \in P : r[p] = ChunkStep(f, p, r)
  BY <1>11, <1>14, Zenon DEF P
<1>16. \A p \in P : r[p] \in Said /\ (p[2] <= Len(f) => r[p] \in Answered)
  <2> DEFINE T == {p \in P : r[p] \in Said /\ (p[2] <= Len(f) => r[p] \in Answered)}
  <2>1. ASSUME NEW p \in P, \A q \in P : rank[q] < rank[p] => q \in T
        PROVE  p \in T
    <3>1. CASE Inside(p)
      <4>1. /\ r[AfterChunk(f, p)] \in Said
            /\ p[2] <= Len(f) => r[AfterChunk(f, p)] \in Answered
            /\ OpensHeader(f, p) => r[Within(f, p)] \in Answered
        BY <1>7, <2>1, <3>1
      <4>2. r[p] \in Said
        BY <1>4, <1>8, <1>15, <3>1, <4>1
      <4>3. InChunk(f, p, r) \in Answered
        <5>1. p[1] + 4 \in Nat
          BY <1>1
        <5>2. QED
          BY <1>4, <1>6, <4>1, <5>1 DEF InChunk
      <4>4. p[2] <= Len(f) => r[p] \in Answered
        <5>1. r[p] \in {Upload!Null, InChunk(f, p, r), r[AfterChunk(f, p)]}
          <6>1. ~(p[1] + 4 > Len(f))
            BY <1>l, <1>1, <3>1
          <6>2. QED
            BY <1>15, <6>1 DEF ChunkStep
        <5>2. QED
          BY <1>4, <4>1, <4>3, <5>1
      <4>5. QED
        BY <4>2, <4>4
    <3>2. CASE ~Inside(p)
      <4>1. p[1] + 4 \in Nat /\ p[2] \in Nat
        BY <1>1
      <4>2. p[2] <= Len(f) => p[1] + 4 > p[2]
        BY <1>l, <3>2, <4>1
      <4>3. QED
        BY <1>4, <1>9, <1>15, <3>2, <4>2
    <3>3. QED
      BY <3>1, <3>2
  <2> HIDE DEF T
  <2>2. P \subseteq T
    BY <1>2, <2>1, RankInduction
  <2>3. QED
    BY <2>2 DEF T
<1>17. r \in [P -> Said]
  <2>1. r = [p \in P |-> r[p]]
    BY <1>14, Zenon DEF P
  <2>2. QED
    BY <1>16, <2>1
<1>18. QED
  BY <1>14, <1>15, <1>16, <1>17, Zenon DEF ReadsChunks, P

\* The box at an offset, where there is one, lies in the file after its header.
LEMMA BoxIsRead ==
  ASSUME NEW f \in Seq(Nat), NEW o \in Nat, Upload!ReadIsoBox(f, o) # Upload!NoBox
  PROVE  /\ Upload!ReadIsoBox(f, o).dataStart \in Nat /\ Upload!ReadIsoBox(f, o).next \in Nat
         /\ o < Upload!ReadIsoBox(f, o).dataStart
         /\ Upload!ReadIsoBox(f, o).dataStart <= Upload!ReadIsoBox(f, o).next
         /\ Upload!ReadIsoBox(f, o).next <= Len(f)
<1> DEFINE v == Upload!At(f, o)
<1>1. ASSUME NEW start \in Nat, NEW size \in Nat, o < start, Upload!BoxAt(f, o, start, size) # Upload!NoBox
      PROVE  LET b == Upload!BoxAt(f, o, start, size)
             IN  /\ b.dataStart \in Nat /\ b.next \in Nat /\ o < b.dataStart
                 /\ b.dataStart <= b.next /\ b.next <= Len(f)
  <2>1. /\ size >= start - o /\ o + size <= Len(f)
        /\ Upload!BoxAt(f, o, start, size) = [type |-> Upload!At(f, o + 1), dataStart |-> start, next |-> o + size]
    BY <1>1 DEF Upload!BoxAt, Upload!Has
  <2>2. start <= o + size
    BY <2>1
  <2>3. QED
    BY <1>1, <2>1, <2>2
<1>2. Upload!Has(f, o, 2) => v \in Nat
  BY DEF Upload!Has, Upload!At
<1>3. CASE ~Upload!Has(f, o, 2) \/ (v = 1 /\ ~Upload!Has(f, o, 4))
  <2>1. ~(Upload!Has(f, o, 2) /\ v = 0) /\ ~(Upload!Has(f, o, 4) /\ v = 1) /\ ~(Upload!Has(f, o, 2) /\ v > 1)
    BY <1>3 DEF Upload!Has
  <2>2. Upload!ReadIsoBox(f, o) = Upload!NoBox
    BY <1>3, <2>1 DEF Upload!ReadIsoBox
  <2>3. QED
    BY <2>2
<1>4. CASE Upload!Has(f, o, 2) /\ v = 0
  <2>1. Upload!ReadIsoBox(f, o) = Upload!BoxAt(f, o, o + 2, Len(f) - o)
    BY <1>4 DEF Upload!ReadIsoBox
  <2>2. o + 2 \in Nat /\ Len(f) - o \in Nat /\ o < o + 2
    BY <1>4 DEF Upload!Has
  <2>3. QED
    BY <1>1, <2>1, <2>2
<1>5. CASE Upload!Has(f, o, 2) /\ Upload!Has(f, o, 4) /\ v = 1
  <2>1. Upload!ReadIsoBox(f, o) = Upload!BoxAt(f, o, o + 4, Upload!BE(f, o + 2, 2, 16))
    BY <1>5 DEF Upload!ReadIsoBox, Upload!Base
  <2>2. o + 2 \in Nat /\ o + 4 \in Nat /\ o < o + 4 /\ Upload!Has(f, o + 2, 2)
    BY <1>5 DEF Upload!Has
  <2>3. Upload!BE(f, o + 2, 2, 16) \in Nat
    BY <2>2, BigNumbers DEF IsBig
  <2>4. QED
    BY <1>1, <2>1, <2>2, <2>3
<1>6. CASE Upload!Has(f, o, 2) /\ v > 1
  <2>1. Upload!ReadIsoBox(f, o) = Upload!BoxAt(f, o, o + 2, v)
    BY <1>2, <1>6 DEF Upload!ReadIsoBox
  <2>2. o + 2 \in Nat /\ o < o + 2
    OBVIOUS
  <2>3. QED
    BY <1>1, <1>2, <1>6, <2>1, <2>2
<1>7. QED
  <2>1. Upload!Has(f, o, 2) => v = 0 \/ v = 1 \/ v > 1
    BY <1>2
  <2>2. QED
    BY <1>3, <1>4, <1>5, <1>6, <2>1

\* The boxes of a span, one by one.
BoxStep(f, p, h) ==
  LET box == Upload!ReadIsoBox(f, p[1])
      inside == IF box.type = Upload!Moov THEN h[<<box.dataStart, box.next>>] ELSE -1
  IN  IF p[1] + 2 > p[2] \/ ~Upload!Has(f, p[1], 2) \/ box = Upload!NoBox \/ box.next > p[2] THEN -1
      ELSE IF box.type = Upload!Mvhd THEN box.dataStart - 2
      ELSE IF inside >= 0 THEN inside ELSE h[<<box.next, p[2]>>]

\* r gives the offset of the first mvhd in each span.
FindsMvhd(r, f) ==
  \A o, e \in Nat : r[<<o, e>>] = BoxStep(f, <<o, e>>, r) /\ Upload!FindMvhd(f, o, e) = r[<<o, e>>]

\* The search for an mvhd comes to an end.
LEMMA MvhdSearch ==
  ASSUME NEW f \in Seq(Nat)
  PROVE  \E r : FindsMvhd(r, f)
<1> DEFINE P == Upload!Spans
           rank == [p \in P |-> Left(f, p[1])]
           step == [q \in P \X [P -> Int] |-> BoxStep(f, q[1], q[2])]
           box(p) == Upload!ReadIsoBox(f, p[1])
           inside(p, h) == IF box(p).type = Upload!Moov THEN h[<<box(p).dataStart, box(p).next>>] ELSE -1
           Stops(p) == p[1] + 2 > p[2] \/ ~Upload!Has(f, p[1], 2) \/ box(p) = Upload!NoBox \/ box(p).next > p[2]
<1>1. \A p \in P : p[1] \in Nat /\ p[2] \in Nat
  BY DEF Upload!Spans
<1>2. rank \in [P -> Nat] /\ \A p \in P : rank[p] = Left(f, p[1])
  <2>1. \A p \in P : Left(f, p[1]) \in Nat
    BY <1>1 DEF Left
  <2>2. QED
    BY <2>1
<1>3. \A p \in P, h \in [P -> Int] : step[<<p, h>>] = BoxStep(f, p, h)
  OBVIOUS
<1>4. \A x, y \in Nat : <<x, y>> \in P
  BY DEF Upload!Spans
<1> HIDE DEF P
<1>5. ASSUME NEW p \in P, ~Stops(p)
      PROVE  /\ box(p).dataStart \in Nat /\ <<box(p).dataStart, box(p).next>> \in P /\ <<box(p).next, p[2]>> \in P
             /\ rank[<<box(p).dataStart, box(p).next>>] < rank[p] /\ rank[<<box(p).next, p[2]>>] < rank[p]
  <2> DEFINE o == p[1]
             s == box(p).dataStart
             n == box(p).next
  <2>1. o \in Nat /\ p[2] \in Nat
    BY <1>1
  <2>2. box(p) # Upload!NoBox
    BY <1>5
  <2>3. s \in Nat /\ n \in Nat /\ o < s /\ s <= n /\ n <= Len(f)
    BY <2>1, <2>2, BoxIsRead
  <2> HIDE DEF o, s, n, rank
  <2>4. Left(f, s) < Left(f, o) /\ Left(f, n) < Left(f, o)
    <3>1. Len(f) \in Nat /\ o < n /\ o < Len(f)
      BY <2>1, <2>3
    <3>2. QED
      BY <2>1, <2>3, <3>1 DEF Left
  <2>5. <<s, n>> \in P /\ <<n, p[2]>> \in P
    BY <1>4, <2>1, <2>3
  <2>6. rank[<<s, n>>] = Left(f, s) /\ rank[<<n, p[2]>>] = Left(f, n) /\ rank[p] = Left(f, o)
    BY <1>2, <2>5 DEF o
  <2>7. QED
    BY <2>3, <2>4, <2>5, <2>6 DEF s, n
<1>6. \A p, h : BoxStep(f, p, h) =
        IF Stops(p) THEN -1
        ELSE IF box(p).type = Upload!Mvhd THEN box(p).dataStart - 2
        ELSE IF inside(p, h) >= 0 THEN inside(p, h) ELSE h[<<box(p).next, p[2]>>]
  BY DEF BoxStep
<1> HIDE DEF rank, step, box, Stops
<1>7. PICK g \in [P -> Int] : \A p \in P : g[p] = step[<<p, g>>]
  <2>1. ASSUME NEW p \in P, NEW h \in [P -> Int] PROVE step[<<p, h>>] \in Int
    <3>1. CASE Stops(p)
      <4>1. BoxStep(f, p, h) = -1
        BY <1>6, <3>1
      <4>2. QED
        BY <1>3, <4>1
    <3>2. CASE ~Stops(p)
      <4>1. h[<<box(p).next, p[2]>>] \in Int /\ inside(p, h) \in Int /\ box(p).dataStart - 2 \in Int
        BY <1>5, <3>2
      <4> HIDE DEF inside
      <4>2. BoxStep(f, p, h) \in Int
        BY <1>6, <3>2, <4>1
      <4>3. QED
        BY <1>3, <4>2
    <3>3. QED
      BY <3>1, <3>2
  <2>2. ASSUME NEW p \in P, NEW x \in [P -> Int], NEW y \in [P -> Int],
               \A q \in P : rank[q] < rank[p] => x[q] = y[q]
        PROVE  step[<<p, x>>] = step[<<p, y>>]
    <3>1. CASE Stops(p)
      BY <1>3, <1>6, <3>1
    <3>2. CASE ~Stops(p)
      <4>1. x[<<box(p).next, p[2]>>] = y[<<box(p).next, p[2]>>] /\ inside(p, x) = inside(p, y)
        BY <1>5, <2>2, <3>2
      <4> HIDE DEF inside
      <4>2. BoxStep(f, p, x) = BoxStep(f, p, y)
        BY <1>6, <4>1
      <4>3. QED
        BY <1>3, <4>2
    <3>3. QED
      BY <3>1, <3>2
  <2>3. Int # {}
    BY 0 \in Int
  <2> DEFINE I == Int
  <2>4. Recursive(P, I, rank, step)
    BY <1>2, <2>1, <2>2, <2>3 DEF Recursive
  <2>5. \E g \in [P -> I] : \A p \in P : g[p] = step[<<p, g>>]
    <3> HIDE DEF I
    <3> QED BY <2>4, RecursionExists
  <2>6. QED
    BY <2>5
<1>8. \A p, h : Upload!MvhdIn(f, p, h) = BoxStep(f, p, h)
  BY Zenon DEF Upload!MvhdIn, BoxStep
<1>9. g = [p \in Upload!Spans |-> Upload!MvhdIn(f, p, g)]
  BY <1>3, <1>7, <1>8 DEF P
<1>10. \E r : /\ r = [p \in Upload!Spans |-> Upload!MvhdIn(f, p, r)]
              /\ \A o, e : Upload!FindMvhd(f, o, e) = r[<<o, e>>]
  BY <1>9, Zenon DEF Upload!FindMvhd
<1>11. PICK r : /\ r = [p \in Upload!Spans |-> Upload!MvhdIn(f, p, r)]
                /\ \A o, e : Upload!FindMvhd(f, o, e) = r[<<o, e>>]
  BY <1>10
<1>12. \A p \in P : r[p] = BoxStep(f, p, r)
  BY <1>8, <1>11, Zenon DEF P
<1>13. QED
  BY <1>4, <1>11, <1>12 DEF FindsMvhd

Jpegs == {Upload!NoImage} \cup {Upload!Sized("jpeg", w, h) : w \in Nat, h \in Nat}

\* r gives the size that the walk finds from each offset on.
WalksJpeg(r, f) == \A o \in Nat : r[o] = Upload!MarkerAt(f, o, r) /\ Upload!WalkJpeg(f, o) = r[o]

\* The walk over the markers of a JPEG comes to an end.
LEMMA JpegWalk ==
  ASSUME NEW f \in Seq(Nat)
  PROVE  \E r : WalksJpeg(r, f)
<1> DEFINE D == Nat
           rank == [o \in D |-> Left(f, o)]
           step == [q \in D \X [D -> Jpegs] |-> Upload!MarkerAt(f, q[1], q[2])]
           v(o) == Upload!At(f, o)
           marker(o) == Upload!At(f, o + 1)
           length(o) == Upload!BE(f, o + 2, 2, 256)
           size(o) == Upload!Sized("jpeg", Upload!BE(f, o + 7, 2, 256), Upload!BE(f, o + 5, 2, 256))
           Stops(o) == o + 9 >= Len(f) \/ (v(o) = 255 /\ marker(o) = Upload!StartOfScan)
           Moves(o) == {o + 1, o + 2} \cup IF length(o) < 2 THEN {} ELSE {o + 2 + length(o)}
<1>1. \A p \in D, h \in [D -> Jpegs] : step[<<p, h>>] = Upload!MarkerAt(f, p, h)
  OBVIOUS
<1>2. rank \in [D -> Nat] /\ \A o \in D : rank[o] = Left(f, o)
  <2>1. \A o \in D : Left(f, o) \in Nat
    BY DEF Left
  <2>2. QED
    BY <2>1
<1>3. ASSUME NEW o \in D, ~Stops(o)
      PROVE  length(o) \in Nat /\ size(o) \in Jpegs /\ \A n \in Moves(o) : n \in D /\ rank[n] < rank[o]
  <2>1. o \in Nat /\ Len(f) \in Nat /\ o + 9 < Len(f)
    BY <1>3
  <2>2. /\ o + 2 \in Nat /\ Upload!Has(f, o + 2, 2)
        /\ o + 5 \in Nat /\ Upload!Has(f, o + 5, 2)
        /\ o + 7 \in Nat /\ Upload!Has(f, o + 7, 2)
    BY <2>1 DEF Upload!Has
  <2> DEFINE IsNumber(n) == n \in Nat /\ Upload!Has(f, n, 2) => Upload!BE(f, n, 2, 256) \in Nat
  <2>a. \A n : IsNumber(n)
    <3>1. ASSUME NEW n \in Nat, Upload!Has(f, n, 2) PROVE Upload!BE(f, n, 2, 256) \in Nat
      <4> DEFINE two == 2
                 base == 256
      <4>1. two \in Nat /\ base \in Nat /\ Upload!Has(f, n, two)
        BY <3>1
      <4> HIDE DEF two, base
      <4>2. IsBig(Upload!BE(f, n, two, base), f, n, two, base)
        BY <4>1, BigNumbers
      <4>3. Upload!BE(f, n, two, base) \in Nat
        BY <4>2 DEF IsBig
      <4>4. QED
        BY <4>3 DEF two, base
    <3>2. QED
      BY <3>1
  <2>b. IsNumber(o + 2) /\ IsNumber(o + 5) /\ IsNumber(o + 7)
    BY <2>a
  <2>3. length(o) \in Nat /\ Upload!BE(f, o + 7, 2, 256) \in Nat /\ Upload!BE(f, o + 5, 2, 256) \in Nat
    BY <2>2, <2>b
  <2>4. size(o) \in Jpegs
    BY <2>3 DEF Jpegs
  <2> HIDE DEF length
  <2>5. ASSUME NEW n \in Moves(o) PROVE n \in Nat /\ n > o
    <3>1. n = o + 1 \/ n = o + 2 \/ n = o + 2 + length(o)
      BY DEF Moves
    <3>2. o \in Nat /\ length(o) \in Nat
      BY <2>1, <2>3
    <3> HIDE DEF Moves
    <3>3. QED
      BY ONLY <3>1, <3>2
  <2> HIDE DEF Moves, rank
  <2>6. ASSUME NEW n \in Moves(o) PROVE n \in D /\ rank[n] < rank[o]
    <3>1. n \in Nat /\ n > o
      BY <2>5
    <3>2. Left(f, n) < Left(f, o)
      BY <2>1, <3>1 DEF Left
    <3>3. QED
      BY <1>2, <3>1, <3>2
  <2>7. QED
    BY <2>3, <2>4, <2>6
<1>4. \A o, h : Upload!MarkerAt(f, o, h) =
        IF Stops(o) THEN Upload!NoImage
        ELSE IF v(o) # 255 THEN h[o + 1]
        ELSE IF Upload!IsStandalone(marker(o)) THEN h[o + 2]
        ELSE IF Upload!IsStartOfFrame(marker(o)) THEN size(o)
        ELSE IF length(o) < 2 THEN Upload!NoImage ELSE h[o + 2 + length(o)]
  BY DEF Upload!MarkerAt
<1>5. \A o \in D : {o + 1, o + 2} \subseteq Moves(o) /\ (~(length(o) < 2) => o + 2 + length(o) \in Moves(o))
  OBVIOUS
<1> HIDE DEF D, rank, step, v, marker, length, size, Stops, Moves
<1>6. PICK g \in [D -> Jpegs] : \A o \in D : g[o] = step[<<o, g>>]
  <2>1. ASSUME NEW o \in D, NEW h \in [D -> Jpegs] PROVE step[<<o, h>>] \in Jpegs
    <3>1. Upload!NoImage \in Jpegs
      BY DEF Jpegs
    <3>2. Upload!MarkerAt(f, o, h) \in Jpegs
      BY <1>3, <1>4, <1>5, <3>1
    <3>3. QED
      BY <1>1, <3>2
  <2>2. ASSUME NEW o \in D, NEW x \in [D -> Jpegs], NEW y \in [D -> Jpegs],
               \A n \in D : rank[n] < rank[o] => x[n] = y[n]
        PROVE  step[<<o, x>>] = step[<<o, y>>]
    <3>1. CASE Stops(o)
      BY <1>1, <1>4, <3>1
    <3>2. CASE ~Stops(o)
      <4>1. \A n \in Moves(o) : x[n] = y[n]
        BY <1>3, <2>2, <3>2
      <4>2. x[o + 1] = y[o + 1] /\ x[o + 2] = y[o + 2] /\ (~(length(o) < 2) => x[o + 2 + length(o)] = y[o + 2 + length(o)])
        BY <1>5, <4>1
      <4>3. Upload!MarkerAt(f, o, x) = Upload!MarkerAt(f, o, y)
        BY <1>4, <4>2
      <4>4. QED
        BY <1>1, <4>3
    <3>3. QED
      BY <3>1, <3>2
  <2>3. Jpegs # {}
    BY DEF Jpegs
  <2>4. Recursive(D, Jpegs, rank, step)
    BY <1>2, <2>1, <2>2, <2>3 DEF Recursive
  <2>5. QED
    BY <2>4, RecursionExists
<1>7. g = [o \in Nat |-> Upload!MarkerAt(f, o, g)]
  BY <1>1, <1>6 DEF D
<1>8. \E r : /\ r = [o \in Nat |-> Upload!MarkerAt(f, o, r)]
             /\ \A o : Upload!WalkJpeg(f, o) = r[o]
  BY <1>7, Zenon DEF Upload!WalkJpeg
<1>9. QED
  BY <1>8, Zenon DEF WalksJpeg

\* Where s lies in f from offset o on, as far as f goes.
Part(f, o, s) == \A i \in 1..Len(s) : o + i <= Len(f) => f[o + i] = s[i]

\* A sequence of nibbles is one of naturals.
LEMMA NibblesAreNat ==
  ASSUME NEW t \in Seq(Nibbles)
  PROVE  t \in Seq(Nat)
<1>1. t = [i \in 1..Len(t) |-> t[i]] /\ Len(t) \in Nat /\ \A i \in 1..Len(t) : t[i] \in Nibbles
  OBVIOUS
<1>2. t \in [1..Len(t) -> Nat]
  BY <1>1 DEF Nibbles
<1>3. QED
  BY <1>1, <1>2

\* What is joined of sequences over a set is one, and as long as both.
Joins(S, s, t) == s \o t \in Seq(S) /\ Len(s \o t) = Len(s) + Len(t) /\ Len(s) \in Nat /\ Len(t) \in Nat

\* Two sequences joined are as long as both together, and each cell is one of theirs.
LEMMA Joined ==
  ASSUME NEW S, NEW s \in Seq(S), NEW t \in Seq(S)
  PROVE  Joins(S, s, t)
<1>1. s \o t \in Seq(S)
  OBVIOUS
<1>2. Len(s \o t) = Len(s) + Len(t) /\ Len(s) \in Nat /\ Len(t) \in Nat
  OBVIOUS
<1>3. QED
  BY <1>1, <1>2 DEF Joins

\* The parts of a concatenation follow each other.
Follow(f, o, s, n, t) == Part(f, o, s) /\ Part(f, o + n, t)

\* Sequences are joined in any grouping.
Regroups(s, t, u) == s \o t \o u = s \o (t \o u)

\* Joining is associative.
LEMMA Regrouped ==
  ASSUME NEW s \in Seq(Nibbles), NEW t \in Seq(Nibbles), NEW u \in Seq(Nibbles)
  PROVE  Regroups(s, t, u)
BY DEF Regroups

\* What holds two pieces in a row holds the first, and the second after it.
LEMMA PartsFollow ==
  ASSUME NEW f \in Seq(Nat), NEW o \in Nat, NEW s \in Seq(Nat), NEW t \in Seq(Nat), Part(f, o, s \o t),
         NEW n, Len(s) = n
  PROVE  Follow(f, o, s, n, t)
<1>1. Len(s \o t) = Len(s) + Len(t) /\ Len(s) \in Nat /\ Len(t) \in Nat
  BY ONLY s \in Seq(Nat), t \in Seq(Nat)
<1>2. ASSUME NEW i \in 1..Len(s), o + i <= Len(f) PROVE f[o + i] = s[i]
  <2>1. i \in 1..Len(s \o t) /\ (s \o t)[i] = s[i]
    BY <1>1
  <2>2. QED
    BY <1>2, <2>1 DEF Part
<1>3. ASSUME NEW i \in 1..Len(t), o + Len(s) + i <= Len(f) PROVE f[o + Len(s) + i] = t[i]
  <2>1. Len(s) + i \in 1..Len(s \o t) /\ (s \o t)[Len(s) + i] = t[i]
    BY <1>1
  <2>2. o + (Len(s) + i) = o + Len(s) + i
    BY <1>1
  <2>3. QED
    BY <1>3, <2>1, <2>2 DEF Part
<1>4. QED
  BY <1>2, <1>3 DEF Part, Follow

\* The first n cells of w.
IsCut(f, S, w, n) == f \in Seq(S) /\ f \in Seq(Nat) /\ Len(f) = n /\ Part(f, 0, w)

\* A file that is cut is a part of what was written.
LEMMA CutIsPart ==
  ASSUME NEW S, S \subseteq Nat, NEW w \in Seq(S), NEW n \in 0..Len(w), NEW f, f = SubSeq(w, 1, n)
  PROVE  IsCut(f, S, w, n)
<1>1. f \in Seq(S) /\ Len(f) = n /\ \A i \in 1..n : f[i] = w[i]
  OBVIOUS
<1>2. f \in Seq(Nat)
  <2>1. f = [i \in 1..Len(f) |-> f[i]] /\ Len(f) \in Nat /\ \A i \in 1..Len(f) : f[i] \in S
    BY <1>1
  <2>2. f \in [1..Len(f) -> Nat]
    BY <2>1
  <2>3. QED
    BY <2>1, <2>2
<1>3. QED
  BY <1>1, <1>2 DEF Part, IsCut

\* The cells of a number, and its value from them.
High(v) == (v \div 16) % 16
Low(v) == v % 16
InCells(v) ==
  /\ Upload!Big(v, 2, 16) = <<High(v), Low(v)>>
  /\ Upload!Little(v, 2, 16) = <<Low(v), High(v)>>
  /\ Upload!Big(v, 1, 16) = <<Low(v)>>
  /\ v < 256 => High(v) * 16 + Low(v) = v
  /\ v < 16 => Low(v) = v
  /\ Low(v) \in 0..15 /\ High(v) \in 0..15

\* A number written in two cells is its high and its low cell.
LEMMA TwoCells ==
  ASSUME NEW v \in Nat
  PROVE  InCells(v)
<1> DEFINE h == (v \div 16) % 16
           l == v % 16
<1>1. h \in 0..15 /\ l \in 0..15 /\ (v < 16 => l = v) /\ (v < 256 => h * 16 + l = v)
  OBVIOUS
<1>2. 16^(2 - 1) = 16 /\ 16^(1 - 1) = 1 /\ 16^(2 - 2) = 1
  OBVIOUS
<1>3. v \div 1 = v
  OBVIOUS
<1>4. Upload!Big(v, 2, 16) = <<h, l>>
  <2> DEFINE g == [i \in 1..2 |-> IF 2 - i > 3 THEN 0 ELSE (v \div 16^(2 - i)) % 16]
  <2>1. g[1] = h /\ g[2] = l
    BY <1>2, <1>3
  <2>2. g = [i \in 1..2 |-> g[i]]
    OBVIOUS
  <2>3. Upload!Big(v, 2, 16) = g
    BY DEF Upload!Big
  <2> HIDE DEF g
  <2>4. QED
    BY <2>1, <2>2, <2>3
<1>5. Upload!Little(v, 2, 16) = <<l, h>>
  <2> DEFINE g == [i \in 1..2 |-> (v \div 16^(i - 1)) % 16]
  <2>1. g[1] = l /\ g[2] = h
    BY <1>2, <1>3
  <2>2. g = [i \in 1..2 |-> g[i]]
    OBVIOUS
  <2>3. Upload!Little(v, 2, 16) = g
    BY DEF Upload!Little
  <2> HIDE DEF g
  <2>4. QED
    BY <2>1, <2>2, <2>3
<1>6. Upload!Big(v, 1, 16) = <<l>>
  <2> DEFINE g == [i \in 1..1 |-> IF 1 - i > 3 THEN 0 ELSE (v \div 16^(1 - i)) % 16]
  <2>1. g[1] = l
    BY <1>2, <1>3
  <2>2. g = [i \in 1..1 |-> g[i]]
    OBVIOUS
  <2>3. Upload!Big(v, 1, 16) = g
    BY DEF Upload!Big
  <2> HIDE DEF g
  <2>4. QED
    BY <2>1, <2>2, <2>3
<1>7. High(v) = h /\ Low(v) = l
  BY DEF High, Low
<1> HIDE DEF h, l
<1>8. QED
  BY <1>1, <1>4, <1>5, <1>6, <1>7 DEF InCells

\* A cell of a part that the file reaches.
LEMMA PartCell ==
  ASSUME NEW f, NEW o \in Nat, NEW s, Part(f, o, s), NEW i \in Nat, 1 <= i, i <= Len(s), o + i <= Len(f), Len(s) \in Nat
  PROVE  f[o + i] = s[i]
BY DEF Part

\* The cells of short parts.
LEMMA TwoOfPart ==
  ASSUME NEW f, NEW o \in Nat, NEW a, NEW b, Part(f, o, <<a, b>>), Len(f) \in Nat
  PROVE  /\ o + 1 <= Len(f) => f[o + 1] = a
         /\ o + 2 <= Len(f) => f[o + 2] = b
<1>1. Len(<<a, b>>) = 2 /\ <<a, b>>[1] = a /\ <<a, b>>[2] = b
  OBVIOUS
<1>2. o + 1 <= Len(f) => f[o + 1] = a
  BY <1>1, PartCell
<1>3. o + 2 <= Len(f) => f[o + 2] = b
  BY <1>1, PartCell
<1>4. QED
  BY <1>2, <1>3

\* What the search for an mvhd makes of a box that lies in its span.
Visits(r, f, o, e, box) ==
  /\ box.type = 11 => BoxStep(f, <<o, e>>, r) = box.dataStart - 2
  /\ box.type = 10 => BoxStep(f, <<o, e>>, r) =
       IF r[<<box.dataStart, box.next>>] >= 0 THEN r[<<box.dataStart, box.next>>] ELSE r[<<box.next, e>>]
  /\ box.type \notin {10, 11} => BoxStep(f, <<o, e>>, r) = r[<<box.next, e>>]

\* A box that fits is visited: the walk enters it, reads it or goes on after it.
LEMMA BoxVisited ==
  ASSUME NEW f, NEW r, NEW o \in Nat, NEW e \in Nat, NEW box, box = Upload!ReadIsoBox(f, o),
         box # Upload!NoBox, ~(o + 2 > e), Upload!Has(f, o, 2), ~(box.next > e)
  PROVE  Visits(r, f, o, e, box)
<1> DEFINE inside == IF box.type = Upload!Moov THEN r[<<box.dataStart, box.next>>] ELSE -1
<1>3. BoxStep(f, <<o, e>>, r) =
        IF o + 2 > e \/ ~Upload!Has(f, o, 2) \/ box = Upload!NoBox \/ box.next > e THEN -1
        ELSE IF box.type = Upload!Mvhd THEN box.dataStart - 2
        ELSE IF inside >= 0 THEN inside ELSE r[<<box.next, e>>]
  BY Zenon DEF BoxStep
<1> HIDE DEF inside
<1>4. BoxStep(f, <<o, e>>, r) =
        IF box.type = Upload!Mvhd THEN box.dataStart - 2 ELSE IF inside >= 0 THEN inside ELSE r[<<box.next, e>>]
  BY <1>3
<1>5. inside = IF box.type = 10 THEN r[<<box.dataStart, box.next>>] ELSE -1
  BY DEF inside, Upload!Moov
<1>6. Upload!Mvhd = 11
  BY DEF Upload!Mvhd
<1>7. QED
  BY <1>4, <1>5, <1>6 DEF Visits

\* It finds none where there is no box in its span.
LEMMA NoBoxVisited ==
  ASSUME NEW f, NEW r, NEW o \in Nat, NEW e \in Nat,
         o + 2 > e \/ ~Upload!Has(f, o, 2) \/ Upload!ReadIsoBox(f, o) = Upload!NoBox
           \/ Upload!ReadIsoBox(f, o).next > e
  PROVE  BoxStep(f, <<o, e>>, r) = -1
BY DEF BoxStep

\* The same by the form of the size: in one cell, up to the end, or in two more.
PlainVisit(r, f, o, e, size, type) ==
  /\ o + size > e => r[<<o, e>>] = -1
  /\ ~(o + size > e) /\ type = 11 => r[<<o, e>>] = o
  /\ ~(o + size > e) /\ type = 10 =>
       r[<<o, e>>] = IF r[<<o + 2, o + size>>] >= 0 THEN r[<<o + 2, o + size>>] ELSE r[<<o + size, e>>]
  /\ ~(o + size > e) /\ type \notin {10, 11} => r[<<o, e>>] = r[<<o + size, e>>]

\* A box with its size in its header is read as it is written.
LEMMA PlainBox ==
  ASSUME NEW f \in Seq(Nat), NEW r, FindsMvhd(r, f), NEW o \in Nat, NEW e \in Nat, e <= Len(f),
         NEW size \in Nat, size >= 2, NEW type \in Nat, Part(f, o, <<size, type>>)
  PROVE  PlainVisit(r, f, o, e, size, type)
<1> DEFINE box == Upload!ReadIsoBox(f, o)
<1>0. Len(f) \in Nat
  OBVIOUS
<1> SUFFICES /\ o + size > e => r[<<o, e>>] = -1
             /\ ~(o + size > e) /\ type = 11 => r[<<o, e>>] = o
             /\ ~(o + size > e) /\ type = 10 =>
                  r[<<o, e>>] = IF r[<<o + 2, o + size>>] >= 0 THEN r[<<o + 2, o + size>>] ELSE r[<<o + size, e>>]
             /\ ~(o + size > e) /\ type \notin {10, 11} => r[<<o, e>>] = r[<<o + size, e>>]
  BY DEF PlainVisit
<1>1. r[<<o, e>>] = BoxStep(f, <<o, e>>, r)
  BY DEF FindsMvhd
<1>2. CASE o + 2 > Len(f)
  <2>1. o + 2 > e /\ o + size > e
    BY <1>0, <1>2
  <2>2. QED
    BY <1>1, <2>1, NoBoxVisited
<1>3. CASE ~(o + 2 > Len(f))
  <2>1. f[o + 1] = size /\ f[o + 2] = type
    <3>1. o + 1 <= Len(f) /\ o + 2 <= Len(f)
      BY <1>0, <1>3
    <3>2. QED
      BY <1>0, <3>1, TwoOfPart
  <2>2. Upload!Has(f, o, 2) /\ Upload!At(f, o) = size /\ Upload!At(f, o + 1) = type
    BY <1>3, <2>1 DEF Upload!Has, Upload!At
  <2>3. box = Upload!BoxAt(f, o, o + 2, size)
    BY <2>2 DEF Upload!ReadIsoBox
  <2>4. box = IF o + size <= Len(f) THEN [type |-> type, dataStart |-> o + 2, next |-> o + size] ELSE Upload!NoBox
    BY <2>2, <2>3 DEF Upload!BoxAt, Upload!Has
  <2> HIDE DEF box
  <2>7. CASE o + size > e
    <3>1. box = Upload!NoBox \/ box.next > e
      BY <2>4, <2>7
    <3>2. QED
      BY <1>1, <2>7, <3>1, NoBoxVisited DEF box
  <2>8. CASE ~(o + size > e)
    <3>1. o + size <= Len(f) /\ ~(o + 2 > e) /\ o + 2 \in Nat /\ o + size \in Nat
      BY <2>8
    <3>2. box = [type |-> type, dataStart |-> o + 2, next |-> o + size]
      BY <2>4, <3>1
    <3>3. box # Upload!NoBox
      BY <3>2 DEF Upload!NoBox
    <3>4. box.type = type /\ box.dataStart = o + 2 /\ box.next = o + size /\ ~(box.next > e)
      BY <3>1, <3>2, <2>8
    <3>5. Visits(r, f, o, e, box)
      <4>1. box = Upload!ReadIsoBox(f, o)
        BY DEF box
      <4>2. ~(o + 2 > e) /\ ~(box.next > e) /\ Upload!Has(f, o, 2)
        BY <2>2, <3>1, <3>4
      <4>3. QED
        BY ONLY o \in Nat, e \in Nat, <3>3, <4>1, <4>2, BoxVisited
    <3>6. o + 2 - 2 = o
      OBVIOUS
    <3>7. QED
      BY <1>1, <2>8, <3>4, <3>5, <3>6 DEF Visits
  <2>9. QED
    BY <2>7, <2>8
<1>4. QED
  BY <1>2, <1>3

OpenVisit(r, o, n) ==
  r[<<o, n>>] = IF o + 2 > n THEN -1 ELSE IF r[<<o + 2, n>>] >= 0 THEN r[<<o + 2, n>>] ELSE -1

\* A box of size 0 extends to the end of the file.
LEMMA OpenBox ==
  ASSUME NEW f \in Seq(Nat), NEW r, FindsMvhd(r, f), NEW o \in Nat, Part(f, o, <<0, 10>>)
  PROVE  OpenVisit(r, o, Len(f))
<1> SUFFICES LET n == Len(f)
             IN  r[<<o, n>>] = IF o + 2 > n THEN -1 ELSE IF r[<<o + 2, n>>] >= 0 THEN r[<<o + 2, n>>] ELSE -1
  BY DEF OpenVisit
<1> DEFINE box == Upload!ReadIsoBox(f, o)
           n == Len(f)
<1>0. n \in Nat
  OBVIOUS
<1>1. r[<<o, n>>] = BoxStep(f, <<o, n>>, r) /\ r[<<n, n>>] = BoxStep(f, <<n, n>>, r)
  BY <1>0 DEF FindsMvhd
<1>2. r[<<n, n>>] = -1
  <2>1. n + 2 > n
    BY <1>0
  <2>2. BoxStep(f, <<n, n>>, r) = -1
    BY <1>0, <2>1, NoBoxVisited
  <2>3. QED
    BY <1>1, <2>2
<1>3. CASE o + 2 > n
  BY <1>0, <1>1, <1>3, NoBoxVisited
<1>4. CASE ~(o + 2 > n)
  <2>1. f[o + 1] = 0 /\ f[o + 2] = 10
    <3>1. o + 1 <= Len(f) /\ o + 2 <= Len(f)
      BY <1>0, <1>4
    <3>2. QED
      BY <1>0, <3>1, TwoOfPart
  <2>2. Upload!Has(f, o, 2) /\ Upload!At(f, o) = 0 /\ Upload!At(f, o + 1) = 10
    BY <1>0, <1>4, <2>1 DEF Upload!Has, Upload!At
  <2>3. box = Upload!BoxAt(f, o, o + 2, n - o)
    BY <2>2 DEF Upload!ReadIsoBox
  <2>4. box = [type |-> 10, dataStart |-> o + 2, next |-> n]
    BY <1>0, <1>4, <2>2, <2>3 DEF Upload!BoxAt, Upload!Has
  <2>5. ~(n > n) /\ ~(o + 2 > n) /\ box # Upload!NoBox
    BY <1>0, <1>4, <2>4 DEF Upload!NoBox
  <2>6. box.type = 10 /\ box.dataStart = o + 2 /\ box.next = n
    BY <2>4
  <2> HIDE DEF box, n
  <2>7. Visits(r, f, o, n, box)
    BY <1>0, <2>2, <2>5, <2>6, BoxVisited DEF box
  <2>8. QED
    BY <1>1, <1>2, <1>4, <2>6, <2>7 DEF n, Visits
<1>5. QED
  BY <1>3, <1>4

LongVisit(r, o, e, size) ==
  r[<<o, e>>] = IF o + size > e THEN -1
                ELSE IF r[<<o + 4, o + size>>] >= 0 THEN r[<<o + 4, o + size>>] ELSE r[<<o + size, e>>]

\* A box with an extended size is read as it is written.
LEMMA LongBox ==
  ASSUME NEW f \in Seq(Nat), NEW r, FindsMvhd(r, f), NEW o \in Nat, NEW e \in Nat, e <= Len(f),
         NEW h \in Nat, NEW l \in Nat, NEW size \in Nat, size = h * 16 + l, size >= 4,
         Part(f, o, <<1, 10>>), Part(f, o + 2, <<h, l>>)
  PROVE  LongVisit(r, o, e, size)
<1> SUFFICES r[<<o, e>>] =
      IF o + size > e THEN -1
      ELSE IF r[<<o + 4, o + size>>] >= 0 THEN r[<<o + 4, o + size>>] ELSE r[<<o + size, e>>]
  BY DEF LongVisit
<1> DEFINE box == Upload!ReadIsoBox(f, o)
<1>0. size \in Nat /\ size >= 4 /\ Len(f) \in Nat
  OBVIOUS
<1>1. r[<<o, e>>] = BoxStep(f, <<o, e>>, r)
  BY DEF FindsMvhd
<1>2. CASE o + 4 > Len(f)
  <2>0. o + size > e
    BY <1>0, <1>2
  <2>1. CASE o + 2 > Len(f)
    <3>1. ~Upload!Has(f, o, 2)
      BY <1>0, <2>1 DEF Upload!Has
    <3>2. QED
      BY <1>1, <2>0, <3>1, NoBoxVisited
  <2>2. CASE ~(o + 2 > Len(f))
    <3>0. o + 1 <= Len(f)
      BY <1>0, <2>2
    <3>1. f[o + 1] = 1
      BY <1>0, <3>0, TwoOfPart
    <3>2. Upload!Has(f, o, 2) /\ ~Upload!Has(f, o, 4) /\ Upload!At(f, o) = 1
      BY <1>0, <1>2, <2>2, <3>1 DEF Upload!Has, Upload!At
    <3>3. box = Upload!NoBox
      BY <3>2 DEF Upload!ReadIsoBox
    <3>4. r[<<o, e>>] = -1
      BY <1>1, <3>3, NoBoxVisited
    <3>5. QED
      BY <2>0, <3>4
  <2>3. QED
    BY <2>1, <2>2
<1>3. CASE ~(o + 4 > Len(f))
  <2>1. f[o + 1] = 1 /\ f[o + 2] = 10 /\ f[o + 3] = h /\ f[o + 4] = l
    <3>1. o + 1 <= Len(f) /\ o + 2 <= Len(f) /\ o + 3 <= Len(f) /\ o + 4 <= Len(f)
      BY <1>0, <1>3
    <3>2. o + 2 \in Nat /\ o + 2 + 1 = o + 3 /\ o + 2 + 2 = o + 4
      OBVIOUS
    <3>3. f[o + 1] = 1 /\ f[o + 2] = 10
      BY <1>0, <3>1, TwoOfPart
    <3>4. f[o + 2 + 1] = h /\ f[o + 2 + 2] = l
      BY <1>0, <3>1, <3>2, TwoOfPart
    <3>5. QED
      BY <3>2, <3>3, <3>4
  <2>2. Upload!Has(f, o, 2) /\ Upload!Has(f, o, 4) /\ Upload!At(f, o) = 1 /\ Upload!At(f, o + 1) = 10
    <3>1. Upload!Has(f, o, 2) /\ Upload!Has(f, o, 4)
      BY <1>0, <1>3 DEF Upload!Has
    <3>2. o + 1 + 1 = o + 2
      OBVIOUS
    <3>3. QED
      BY <2>1, <3>1, <3>2 DEF Upload!At
  <2>3. Upload!BE(f, o + 2, 2, 16) = size
    <3>1. Upload!Has(f, o + 2, 2) /\ o + 2 \in Nat
      BY <1>0, <1>3 DEF Upload!Has
    <3>2. IsBig(Upload!BE(f, o + 2, 2, 16), f, o + 2, 2, 16)
      BY <3>1, BigNumbers
    <3>3. o + 2 + 1 = o + 3 /\ o + 2 + 2 = o + 4
      OBVIOUS
    <3>4. QED
      BY <2>1, <3>2, <3>3 DEF IsBig
  <2>4. box = Upload!BoxAt(f, o, o + 4, size)
    BY <2>2, <2>3 DEF Upload!ReadIsoBox, Upload!Base
  <2>5. box = IF o + size <= Len(f) THEN [type |-> 10, dataStart |-> o + 4, next |-> o + size] ELSE Upload!NoBox
    BY <1>0, <2>2, <2>4 DEF Upload!BoxAt, Upload!Has
  <2> HIDE DEF box
  <2>8. CASE o + size > e
    <3>1. box = Upload!NoBox \/ box.next > e
      BY <2>5, <2>8
    <3>2. QED
      BY <1>1, <2>8, <3>1, NoBoxVisited DEF box
  <2>9. CASE ~(o + size > e)
    <3>1. o + size <= Len(f) /\ ~(o + 2 > e) /\ o + 4 \in Nat /\ o + size \in Nat
      BY <1>0, <2>9
    <3>2. box = [type |-> 10, dataStart |-> o + 4, next |-> o + size]
      BY <2>5, <3>1
    <3>3. box # Upload!NoBox
      BY <3>2 DEF Upload!NoBox
    <3>4. box.type = 10 /\ box.dataStart = o + 4 /\ box.next = o + size /\ ~(box.next > e)
      BY <3>1, <3>2, <2>9
    <3>5. Visits(r, f, o, e, box)
      BY <2>2, <3>1, <3>3, <3>4, BoxVisited DEF box
    <3>6. QED
      BY <1>1, <2>9, <3>4, <3>5 DEF Visits
  <2>10. QED
    BY <2>8, <2>9
<1>4. QED
  BY <1>2, <1>3

\* Past the last box there is none.
LEMMA NoMoreBoxes ==
  ASSUME NEW f, NEW r, FindsMvhd(r, f), NEW o \in Nat, NEW e \in Nat, o + 2 > e
  PROVE  r[<<o, e>>] = -1
<1>1. r[<<o, e>>] = BoxStep(f, <<o, e>>, r)
  BY DEF FindsMvhd
<1>2. QED
  BY <1>1, NoBoxVisited

\* The offset of an mvhd of size s that begins at offset p, if the span to e holds it.
FoundAt(p, s, e) == IF p + s <= e THEN p ELSE -1

\* How much of its moov a box to be skipped takes.
Skipped(extra) == IF extra = TRUE THEN 3 ELSE 0
MoovBody(extra, mvhd) == Upload!When(extra, Upload!Box(14, <<0>>)) \o mvhd

\* The free and the mdat box that come before moov are three cells each.
LEMMA SkippedBox == Upload!Box(14, <<0>>) = <<3, 14, 0>> /\ Upload!Box(13, <<0>>) = <<3, 13, 0>>
<1>1. Len(<<0>>) + 2 = 3
  OBVIOUS
<1>2. Upload!Box(14, <<0>>) = <<3, 14>> \o <<0>> /\ Upload!Box(13, <<0>>) = <<3, 13>> \o <<0>>
  BY <1>1 DEF Upload!Box
<1>3. QED
  BY <1>2

\* The mvhd in the contents of a moov is found, also after a box to be skipped.
LEMMA MvhdInBody ==
  ASSUME NEW f \in Seq(Nat), NEW r, FindsMvhd(r, f), NEW o \in Nat, NEW e \in Nat, e <= Len(f),
         NEW extra \in BOOLEAN, NEW s \in Nat, s >= 2, NEW t \in Seq(Nat),
         Part(f, o, MoovBody(extra, <<s, 11>> \o t))
  PROVE  r[<<o, e>>] = FoundAt(o + Skipped(extra), s, e)
<1>0. <<s, 11>> \in Seq(Nat) /\ <<s, 11>> \o t \in Seq(Nat) /\ Len(f) \in Nat
  OBVIOUS
<1>1. ASSUME NEW p \in Nat, Part(f, p, <<s, 11>> \o t) PROVE r[<<p, e>>] = FoundAt(p, s, e)
  <2>1. Part(f, p, <<s, 11>>)
    <3>1. Len(<<s, 11>>) = 2
      OBVIOUS
    <3>2. Follow(f, p, <<s, 11>>, 2, t)
      BY <1>0, <1>1, <3>1, PartsFollow
    <3>3. QED
      BY <3>2 DEF Follow
  <2> DEFINE type == 11
  <2>2. type \in Nat /\ type = 11 /\ Part(f, p, <<s, type>>)
    BY <2>1
  <2> HIDE DEF type
  <2>3. PlainVisit(r, f, p, e, s, type)
    BY <2>2, PlainBox
  <2>4. QED
    BY <2>2, <2>3 DEF FoundAt, PlainVisit
<1>2. CASE ~extra
  <2>1. MoovBody(extra, <<s, 11>> \o t) = <<s, 11>> \o t
    BY <1>0, <1>2 DEF MoovBody, Upload!When
  <2>2. o + Skipped(extra) = o
    BY <1>2 DEF Skipped
  <2>3. QED
    BY <1>1, <2>1, <2>2
<1>3. CASE extra
  <2>1. Upload!Box(14, <<0>>) = <<3, 14, 0>>
    BY SkippedBox
  <2>2. MoovBody(extra, <<s, 11>> \o t) = <<3, 14, 0>> \o (<<s, 11>> \o t)
    BY <1>3, <2>1 DEF MoovBody, Upload!When
  <2>3. <<3, 14, 0>> \in Seq(Nat) /\ Len(<<3, 14, 0>>) = 3
    OBVIOUS
  <2>4. Follow(f, o, <<3, 14, 0>>, 3, <<s, 11>> \o t)
    BY <1>0, <2>2, <2>3, PartsFollow
  <2>5. Part(f, o, <<3, 14>>)
    <3>1. <<3, 14, 0>> = <<3, 14>> \o <<0>> /\ <<3, 14>> \in Seq(Nat) /\ <<0>> \in Seq(Nat) /\ Len(<<3, 14>>) = 2
      OBVIOUS
    <3>2. Part(f, o, <<3, 14>> \o <<0>>)
      BY <2>4, <3>1 DEF Follow
    <3>3. Follow(f, o, <<3, 14>>, 2, <<0>>)
      BY <3>1, <3>2, PartsFollow
    <3>4. QED
      BY <3>3 DEF Follow
  <2> DEFINE size == 3
             type == 14
  <2>6. size \in Nat /\ size >= 2 /\ type \in Nat /\ type \notin {10, 11} /\ size = 3 /\ Part(f, o, <<size, type>>)
    BY <2>5
  <2> HIDE DEF size, type
  <2>7. PlainVisit(r, f, o, e, size, type)
    BY <2>6, PlainBox
  <2>8. r[<<o + 3, e>>] = FoundAt(o + 3, s, e)
    <3>1. o + 3 \in Nat /\ Part(f, o + 3, <<s, 11>> \o t)
      BY <2>4 DEF Follow
    <3>2. QED
      BY <1>1, <3>1
  <2>9. Skipped(extra) = 3
    BY <1>3 DEF Skipped
  <2>10. QED
    BY <2>6, <2>7, <2>8, <2>9 DEF FoundAt, PlainVisit
<1>4. QED
  BY <1>2, <1>3

\* The moov, by the form of its size.
IsoMoov(form, body) ==
  CASE form = "plain" -> Upload!Box(10, body)
    [] form = "open" -> <<0, 10>> \o body
    [] form = "extended" -> <<1, 10>> \o Upload!Big(Len(body) + 4, 2, 16) \o body
MoovHeader(form) == IF form = "extended" THEN 4 ELSE 2

\* The mvhd in the moov is found in every form once the file holds all of it.
LEMMA MvhdInMoov ==
  ASSUME NEW f \in Seq(Nat), NEW r, FindsMvhd(r, f), NEW o \in Nat,
         NEW extra \in BOOLEAN, NEW s \in Nat, s >= 2, s <= 200, NEW t \in Seq(Nat), Len(t) = s - 2,
         NEW form \in {"plain", "open", "extended"},
         Part(f, o, IsoMoov(form, MoovBody(extra, <<s, 11>> \o t)))
  PROVE  r[<<o, Len(f)>>] = FoundAt(o + MoovHeader(form) + Skipped(extra), s, Len(f))
<1> DEFINE body == MoovBody(extra, <<s, 11>> \o t)
           n == Len(f)
           k == Skipped(extra)
<1>0. n \in Nat /\ k \in Nat /\ k <= 3
  BY DEF Skipped
<1>1. body \in Seq(Nat) /\ Len(body) = k + s
  <2>1. <<s, 11>> \o t \in Seq(Nat) /\ Len(<<s, 11>> \o t) = s
    OBVIOUS
  <2>2. Upload!Box(14, <<0>>) = <<3, 14, 0>>
    BY SkippedBox
  <2>3. CASE extra
    <3>1. body = <<3, 14, 0>> \o (<<s, 11>> \o t) /\ k = 3
      BY <2>2, <2>3 DEF MoovBody, Upload!When, Skipped
    <3>2. <<3, 14, 0>> \in Seq(Nat) /\ Len(<<3, 14, 0>>) = 3
      OBVIOUS
    <3> HIDE DEF body, k
    <3>3. QED
      BY <2>1, <3>1, <3>2
  <2>4. CASE ~extra
    <3>1. body = <<s, 11>> \o t /\ k = 0
      BY <2>1, <2>4 DEF MoovBody, Upload!When, Skipped
    <3> HIDE DEF body, k
    <3>2. QED
      BY <2>1, <3>1
  <2>5. QED
    BY <2>3, <2>4
<1>2. \A p, e \in Nat : e <= n /\ Part(f, p, body) => r[<<p, e>>] = FoundAt(p + k, s, e)
  BY MvhdInBody
<1>3. Part(f, o, IsoMoov(form, body))
  OBVIOUS
<1> SUFFICES r[<<o, n>>] = FoundAt(o + MoovHeader(form) + k, s, n)
  OBVIOUS
<1>4. n <= n /\ o + 2 \in Nat /\ o + 4 \in Nat
  BY <1>0
<1> HIDE DEF body, n, k
<1>5. CASE form = "plain"
  <2>1. IsoMoov(form, body) = <<Len(body) + 2, 10>> \o body
    BY <1>5 DEF IsoMoov, Upload!Box
  <2> DEFINE size == k + s + 2
             type == 10
  <2>2. <<size, type>> \in Seq(Nat) /\ Len(<<size, type>>) = 2 /\ size \in Nat /\ type \in Nat
    BY <1>0
  <2>3. IsoMoov(form, body) = <<size, type>> \o body
    BY <1>1, <2>1
  <2>4. type = 10 /\ size = k + s + 2 /\ size >= 2
    BY <1>0
  <2> HIDE DEF size, type
  <2>5. Part(f, o, <<size, type>>) /\ Part(f, o + 2, body)
    <3>1. Follow(f, o, <<size, type>>, 2, body)
      BY <1>1, <1>3, <2>2, <2>3, PartsFollow
    <3>2. QED
      BY <3>1 DEF Follow
  <2>6. PlainVisit(r, f, o, n, size, type)
    BY <1>0, <2>2, <2>4, <2>5, PlainBox, SMTT(20) DEF n
  <2>7. MoovHeader(form) = 2
    BY <1>5 DEF MoovHeader
  <2>8. CASE o + size > n
    BY <1>0, <2>4, <2>6, <2>7, <2>8 DEF FoundAt, PlainVisit
  <2>9. CASE ~(o + size > n)
    <3>1. o + size \in Nat /\ o + size <= n
      BY <1>0, <2>2, <2>9
    <3>2. r[<<o + 2, o + size>>] = FoundAt(o + 2 + k, s, o + size)
      BY <1>2, <1>4, <2>5, <3>1
    <3>3. FoundAt(o + 2 + k, s, o + size) = o + 2 + k /\ FoundAt(o + 2 + k, s, n) = o + 2 + k
      BY <1>0, <2>4, <3>1 DEF FoundAt
    <3>4. o + 2 + k >= 0
      BY <1>0
    <3>5. QED
      BY <2>4, <2>6, <2>7, <2>9, <3>2, <3>3, <3>4 DEF PlainVisit
  <2>10. QED
    BY <2>8, <2>9
<1>6. CASE form = "open"
  <2>1. IsoMoov(form, body) = <<0, 10>> \o body
    BY <1>6 DEF IsoMoov
  <2>2. <<0, 10>> \in Seq(Nat) /\ Len(<<0, 10>>) = 2
    OBVIOUS
  <2>3. Part(f, o, <<0, 10>>) /\ Part(f, o + 2, body)
    <3>1. Follow(f, o, <<0, 10>>, 2, body)
      BY <1>1, <1>3, <2>1, <2>2, PartsFollow
    <3>2. QED
      BY <3>1 DEF Follow
  <2>4. OpenVisit(r, o, n)
    BY <2>3, OpenBox DEF n
  <2>5. MoovHeader(form) = 2
    BY <1>6 DEF MoovHeader
  <2>6. r[<<o + 2, n>>] = FoundAt(o + 2 + k, s, n)
    BY <1>0, <1>2, <1>4, <2>3
  <2>7. QED
    BY <1>0, <2>4, <2>5, <2>6 DEF FoundAt, OpenVisit
<1>7. CASE form = "extended"
  <2> DEFINE v == Len(body) + 4
             h == High(v)
             l == Low(v)
  <2>0. v \in Nat /\ v < 256 /\ v = k + s + 4
    BY <1>0, <1>1
  <2> HIDE DEF v
  <2>1. Upload!Big(v, 2, 16) = <<h, l>> /\ v = h * 16 + l /\ h \in Nat /\ l \in Nat
    <3>1. InCells(v)
      BY <2>0, TwoCells
    <3>2. h \in 0..15 /\ l \in 0..15
      BY <3>1 DEF InCells
    <3>3. Upload!Big(v, 2, 16) = <<h, l>>
      BY <3>1 DEF InCells
    <3>4. v = h * 16 + l
      BY <2>0, <3>1 DEF InCells
    <3>5. h \in Nat /\ l \in Nat
      BY <3>2, SMTT(20)
    <3>6. QED
      BY <3>3, <3>4, <3>5
  <2> HIDE DEF h, l
  <2>2. IsoMoov(form, body) = <<1, 10>> \o <<h, l>> \o body
    BY <1>7, <2>1 DEF IsoMoov, v
  <2>3. <<1, 10>> \in Seq(Nat) /\ <<h, l>> \in Seq(Nat) /\ Len(<<1, 10>>) = 2 /\ Len(<<h, l>>) = 2
    BY <2>1
  <2>4. <<1, 10>> \o (<<h, l>> \o body) = <<1, 10>> \o <<h, l>> \o body /\ <<h, l>> \o body \in Seq(Nat)
    BY <1>1, <2>3
  <2>5. Part(f, o, <<1, 10>>) /\ Part(f, o + 2, <<h, l>>) /\ Part(f, o + 4, body)
    <3>1. Follow(f, o, <<1, 10>>, 2, <<h, l>> \o body)
      BY <1>3, <2>2, <2>3, <2>4, PartsFollow
    <3>2. Follow(f, o + 2, <<h, l>>, 2, body)
      BY <1>1, <1>4, <2>3, <3>1, PartsFollow DEF Follow
    <3>3. o + 2 + 2 = o + 4
      OBVIOUS
    <3>4. QED
      BY <3>1, <3>2, <3>3 DEF Follow
  <2>6. v >= 4
    BY <1>0, <2>0
  <2>7. LongVisit(r, o, n, v)
    BY <1>0, <1>4, <2>0, <2>1, <2>5, <2>6, LongBox DEF n
  <2>8. r[<<o, n>>] = IF o + v > n THEN -1 ELSE IF r[<<o + 4, o + v>>] >= 0 THEN r[<<o + 4, o + v>>] ELSE r[<<o + v, n>>]
    BY <2>7 DEF LongVisit
  <2>9. MoovHeader(form) = 4
    BY <1>7 DEF MoovHeader
  <2>10. CASE o + v > n
    BY <1>0, <2>0, <2>8, <2>9, <2>10 DEF FoundAt
  <2>11. CASE ~(o + v > n)
    <3>1. o + v \in Nat /\ o + v <= n
      BY <1>0, <2>0, <2>11
    <3>2. r[<<o + 4, o + v>>] = FoundAt(o + 4 + k, s, o + v)
      BY <1>2, <1>4, <2>5, <3>1
    <3>3. FoundAt(o + 4 + k, s, o + v) = o + 4 + k /\ FoundAt(o + 4 + k, s, n) = o + 4 + k
      BY <1>0, <2>0, <3>1 DEF FoundAt
    <3>4. o + 4 + k >= 0
      BY <1>0
    <3>5. QED
      BY <2>8, <2>9, <2>11, <3>2, <3>3, <3>4
  <2>12. QED
    BY <2>10, <2>11
<1>8. QED
  BY <1>5, <1>6, <1>7 DEF body, n, k

IsoMedium(m) == Upload!Conforms(m) /\ m.format \in {"mp4", "mov"}

\* The pieces of an ISO file.
IsoBrand(m) == IF m.format = "mov" THEN <<3, 9, 12>> ELSE <<3, 9, 0>>
MvhdSize(m) == IF m.long = TRUE THEN 10 ELSE 7
MvhdRest(m) ==
  IF m.long = TRUE THEN <<1, 0, 0, 0, 0, m.y>> \o <<High(m.x), Low(m.x)>> ELSE <<0, 0, 0, m.y, m.x>>
IsoMvhd(m) == <<MvhdSize(m), 11>> \o MvhdRest(m)
IsoTail(m) == Upload!When(m.form # "open", Upload!Box(13, <<0>>))

\* What the fields of an ISO file hold.
IsoFields(m) ==
  /\ m.x \in Nat /\ m.y \in Nat /\ m.y < 16 /\ m.long \in BOOLEAN /\ m.extra \in BOOLEAN
  /\ m.form \in {"plain", "open", "extended"}
  /\ m.long = TRUE => m.x < 255
  /\ m.long = FALSE => m.x < 15

\* An ISO medium that conforms has the fields its layout needs.
LEMMA IsoHolds ==
  ASSUME NEW m, IsoMedium(m)
  PROVE  IsoFields(m)
<1>1. /\ m.x \in Nat /\ m.y \in Nat /\ m.long \in BOOLEAN /\ m.extra \in BOOLEAN
      /\ m.form \in {"plain", "open", "extended"}
  BY DEF IsoMedium, Upload!Conforms
<1>2. m.y < 16 /\ m.x < Upload!Ones(IF m.long THEN 2 ELSE 1)
  BY DEF IsoMedium, Upload!Conforms, Upload!Wide, Upload!Narrow, Upload!Base
<1>3. Upload!Ones(2) = 255 /\ Upload!Ones(1) = 15
  BY DEF Upload!Ones, Upload!Base
<1>4. QED
  BY <1>1, <1>2, <1>3 DEF IsoFields

\* The mvhd is as long as it says.
LEMMA MvhdIsWhole ==
  ASSUME NEW m, IsoFields(m)
  PROVE  /\ MvhdRest(m) \in Seq(Nibbles) /\ Len(MvhdRest(m)) = MvhdSize(m) - 2
         /\ IsoMvhd(m) \in Seq(Nibbles) /\ Len(IsoMvhd(m)) = MvhdSize(m)
         /\ m.long = TRUE => InCells(m.x) /\ High(m.x) * 16 + Low(m.x) = m.x
<1>1. m.y \in Nibbles
  BY DEF IsoFields, Nibbles
<1>2. InCells(m.x)
  BY TwoCells DEF IsoFields
<1>3. High(m.x) \in Nibbles /\ Low(m.x) \in Nibbles
  BY <1>2 DEF InCells, Nibbles
<1>4. m.long = TRUE => High(m.x) * 16 + Low(m.x) = m.x
  BY <1>2 DEF InCells, IsoFields
<1>5. MvhdRest(m) \in Seq(Nibbles) /\ Len(MvhdRest(m)) = MvhdSize(m) - 2
  <2>1. CASE m.long = TRUE
    <3> DEFINE a == <<1, 0, 0, 0, 0, m.y>>
               b == <<High(m.x), Low(m.x)>>
    <3>1. a \in Seq(Nibbles) /\ Len(a) = 6
      BY <1>1 DEF Nibbles
    <3>2. b \in Seq(Nibbles) /\ Len(b) = 2
      BY <1>3
    <3>3. MvhdRest(m) = a \o b /\ MvhdSize(m) = 10
      BY <2>1 DEF MvhdRest, MvhdSize
    <3> HIDE DEF a, b
    <3>4. Joins(Nibbles, a, b)
      BY <3>1, <3>2, Joined
    <3>5. QED
      BY <3>1, <3>2, <3>3, <3>4 DEF Joins
  <2>2. CASE m.long = FALSE
    <3>1. m.x \in Nibbles
      BY <2>2 DEF IsoFields, Nibbles
    <3>2. MvhdRest(m) = <<0, 0, 0, m.y, m.x>> /\ MvhdSize(m) = 7
      BY <2>2 DEF MvhdRest, MvhdSize
    <3>3. <<0, 0, 0, m.y, m.x>> \in Seq(Nibbles) /\ Len(<<0, 0, 0, m.y, m.x>>) = 5
      BY <1>1, <3>1 DEF Nibbles
    <3>4. QED
      BY <3>2, <3>3
  <2>3. QED
    BY <2>1, <2>2 DEF IsoFields
<1>6. <<MvhdSize(m), 11>> \in Seq(Nibbles) /\ Len(<<MvhdSize(m), 11>>) = 2 /\ MvhdSize(m) \in Nat
  BY DEF MvhdSize, Nibbles
<1>7. IsoMvhd(m) \in Seq(Nibbles) /\ Len(IsoMvhd(m)) = MvhdSize(m)
  BY <1>5, <1>6 DEF IsoMvhd
<1>8. QED
  BY <1>2, <1>4, <1>5, <1>7

\* The times are read where they were written.
LEMMA TimesAreRead ==
  ASSUME NEW m, IsoFields(m), NEW f \in Seq(Nat), NEW p \in Nat, Part(f, p, IsoMvhd(m)),
         p + MvhdSize(m) <= Len(f)
  PROVE  Upload!MvhdDuration(f, p) = IF m.y = 0 \/ m.x = 0 THEN Upload!Null ELSE Upload!Read(m.x, m.y)
<1>0. Len(f) \in Nat /\ p # -1
  OBVIOUS
<1>1. <<MvhdSize(m), 11>> \in Seq(Nat) /\ Len(<<MvhdSize(m), 11>>) = 2
  BY DEF MvhdSize
<1>2. m.x \in Nat /\ m.y \in Nat
  BY DEF IsoFields
<1>3. p + 2 \in Nat /\ p + 8 \in Nat /\ p + 2 + 6 = p + 8
  OBVIOUS
<1>4. Upload!Ones(2) = 255 /\ Upload!Ones(1) = 15 /\ Upload!Base = 16
  BY DEF Upload!Ones, Upload!Base
<1>5. CASE m.long = TRUE
  <2> DEFINE a == <<1, 0, 0, 0, 0, m.y>>
             b == <<High(m.x), Low(m.x)>>
  <2>1. a \in Seq(Nat) /\ Len(a) = 6 /\ a[1] = 1 /\ a[6] = m.y
    BY <1>2
  <2>2. InCells(m.x) /\ High(m.x) * 16 + Low(m.x) = m.x
    BY <1>5, MvhdIsWhole
  <2>3. High(m.x) \in Nat /\ Low(m.x) \in Nat
    BY <2>2 DEF InCells
  <2>4. b \in Seq(Nat) /\ Len(b) = 2 /\ b[1] = High(m.x) /\ b[2] = Low(m.x)
    BY <2>3
  <2>5. IsoMvhd(m) = <<MvhdSize(m), 11>> \o (a \o b) /\ MvhdSize(m) = 10
    BY <1>5 DEF IsoMvhd, MvhdRest, MvhdSize
  <2> HIDE DEF a, b
  <2>6. a \o b \in Seq(Nat)
    BY <2>1, <2>4
  <2>7. Follow(f, p, <<MvhdSize(m), 11>>, 2, a \o b)
    BY <1>1, <2>5, <2>6, PartsFollow
  <2>8. Follow(f, p + 2, a, 6, b)
    BY <1>3, <2>1, <2>4, <2>7, PartsFollow DEF Follow
  <2>9. Part(f, p + 2, a) /\ Part(f, p + 8, b)
    BY <1>3, <2>8 DEF Follow
  <2>10. p + 10 <= Len(f)
    BY <2>5
  <2>11. f[p + 2 + 1] = 1 /\ f[p + 2 + 6] = m.y
    <3>1. p + 2 + 1 <= Len(f) /\ p + 2 + 6 <= Len(f)
      BY <1>0, <2>10
    <3>2. 1 \in 1..Len(a) /\ 6 \in 1..Len(a)
      BY <2>1
    <3>3. QED
      BY <2>1, <2>9, <3>1, <3>2 DEF Part
  <2>12. f[p + 8 + 1] = High(m.x) /\ f[p + 8 + 2] = Low(m.x)
    <3>1. p + 8 + 1 <= Len(f) /\ p + 8 + 2 <= Len(f)
      BY <1>0, <2>10
    <3>2. 1 \in 1..Len(b) /\ 2 \in 1..Len(b)
      BY <2>4
    <3>3. QED
      BY <2>4, <2>9, <3>1, <3>2 DEF Part
  <2>13. Upload!Has(f, p + 2, 1) /\ Upload!At(f, p + 2) = 1
    BY <1>0, <2>10, <2>11 DEF Upload!Has, Upload!At
  <2>14. Upload!MvhdDuration(f, p) = Upload!TimesAt(f, p + 7, 2)
    BY <1>0, <2>13 DEF Upload!MvhdDuration
  <2>15. Upload!Has(f, p + 7, 1 + 2) /\ Upload!At(f, p + 7) = m.y
    <3>1. p + 7 + 1 = p + 2 + 6 /\ p + 7 + (1 + 2) = p + 10
      OBVIOUS
    <3>2. QED
      BY <2>10, <2>11, <3>1 DEF Upload!Has, Upload!At
  <2>16. Upload!BE(f, p + 7 + 1, 2, 16) = m.x
    <3>1. p + 7 + 1 = p + 8 /\ p + 8 + 2 = p + 10
      OBVIOUS
    <3>2. Upload!Has(f, p + 8, 2)
      BY <2>10, <3>1 DEF Upload!Has
    <3>3. IsBig(Upload!BE(f, p + 8, 2, 16), f, p + 8, 2, 16)
      BY <1>3, <3>2, BigNumbers
    <3>4. Upload!BE(f, p + 8, 2, 16) = High(m.x) * 16 + Low(m.x)
      BY <2>12, <3>3 DEF IsBig
    <3>5. QED
      BY <2>2, <3>1, <3>4
  <2>17. m.x # 255
    BY <1>2, <1>5 DEF IsoFields
  <2>18. QED
    BY <1>4, <2>14, <2>15, <2>16, <2>17 DEF Upload!TimesAt
<1>6. CASE m.long = FALSE
  <2> DEFINE a == <<0, 0, 0, m.y, m.x>>
  <2>1. a \in Seq(Nat) /\ Len(a) = 5 /\ a[1] = 0 /\ a[4] = m.y /\ a[5] = m.x
    BY <1>2
  <2>2. IsoMvhd(m) = <<MvhdSize(m), 11>> \o a /\ MvhdSize(m) = 7
    BY <1>6 DEF IsoMvhd, MvhdRest, MvhdSize
  <2> HIDE DEF a
  <2>3. Follow(f, p, <<MvhdSize(m), 11>>, 2, a)
    BY <1>1, <2>1, <2>2, PartsFollow
  <2>4. Part(f, p + 2, a)
    BY <2>3 DEF Follow
  <2>5. p + 7 <= Len(f)
    BY <2>2
  <2>6. f[p + 2 + 1] = 0 /\ f[p + 2 + 4] = m.y /\ f[p + 2 + 5] = m.x
    <3>1. p + 2 + 1 <= Len(f) /\ p + 2 + 4 <= Len(f) /\ p + 2 + 5 <= Len(f)
      BY <1>0, <2>5
    <3>2. 1 \in 1..Len(a) /\ 4 \in 1..Len(a) /\ 5 \in 1..Len(a)
      BY <2>1
    <3>3. QED
      BY <2>1, <2>4, <3>1, <3>2 DEF Part
  <2>7. Upload!At(f, p + 2) = 0
    BY <2>6 DEF Upload!At
  <2>8. Upload!MvhdDuration(f, p) = Upload!TimesAt(f, p + 5, 1)
    BY <1>0, <2>7 DEF Upload!MvhdDuration
  <2>9. Upload!Has(f, p + 5, 1 + 1) /\ Upload!At(f, p + 5) = m.y
    <3>1. p + 5 + 1 = p + 2 + 4 /\ p + 5 + (1 + 1) = p + 7
      OBVIOUS
    <3>2. QED
      BY <2>5, <2>6, <3>1 DEF Upload!Has, Upload!At
  <2>10. Upload!BE(f, p + 5 + 1, 1, 16) = m.x
    <3>1. p + 5 + 1 = p + 6 /\ p + 6 + 1 = p + 7 /\ p + 2 + 5 = p + 7 /\ p + 6 \in Nat
      OBVIOUS
    <3>2. Upload!Has(f, p + 6, 1)
      BY <2>5, <3>1 DEF Upload!Has
    <3>3. IsBig(Upload!BE(f, p + 6, 1, 16), f, p + 6, 1, 16)
      BY <3>1, <3>2, BigNumbers
    <3>4. Upload!BE(f, p + 6, 1, 16) = f[p + 6 + 1]
      BY <3>3 DEF IsBig
    <3>5. QED
      BY <2>6, <3>1, <3>4
  <2>11. m.x # 15
    BY <1>2, <1>6 DEF IsoFields
  <2>12. QED
    BY <1>4, <2>8, <2>9, <2>10, <2>11 DEF Upload!TimesAt
<1>7. QED
  BY <1>5, <1>6 DEF IsoFields

\* What a parser says of a video of which the file holds a part or the whole.
TrueDuration(d, m, whole) ==
  LET t == Upload!Duration(m)
  IN  /\ d = Upload!Null \/ (d = t /\ t.num > 0 /\ t.den > 0)
      /\ whole /\ t.num > 0 /\ t.den > 0 => d = t

\* The pieces of a moov.
LEMMA BodyLaidOut ==
  ASSUME NEW extra \in BOOLEAN, NEW mvhd \in Seq(Nibbles)
  PROVE  \E skip \in Seq(Nibbles) : MoovBody(extra, mvhd) = skip \o mvhd /\ Len(skip) = Skipped(extra)
<1>1. CASE extra
  <2>1. MoovBody(extra, mvhd) = <<3, 14, 0>> \o mvhd /\ Skipped(extra) = 3
    BY <1>1, SkippedBox DEF MoovBody, Upload!When, Skipped
  <2>2. <<3, 14, 0>> \in Seq(Nibbles) /\ Len(<<3, 14, 0>>) = 3
    BY DEF Nibbles
  <2>3. QED
    BY <2>1, <2>2
<1>2. CASE ~extra
  <2>1. MoovBody(extra, mvhd) = <<>> \o mvhd /\ Skipped(extra) = 0
    BY <1>2 DEF MoovBody, Upload!When, Skipped
  <2>2. <<>> \in Seq(Nibbles) /\ Len(<<>>) = 0
    OBVIOUS
  <2>3. QED
    BY <2>1, <2>2
<1>3. QED
  BY <1>1, <1>2

\* A moov box is its header, in the form it takes, and its body.
LEMMA MoovLaidOut ==
  ASSUME NEW form \in {"plain", "open", "extended"}, NEW body \in Seq(Nibbles), Len(body) <= 13
  PROVE  \E head \in Seq(Nibbles) : IsoMoov(form, body) = head \o body /\ Len(head) = MoovHeader(form)
<1>0. Len(body) \in Nat
  OBVIOUS
<1>1. CASE form = "plain"
  <2>1. IsoMoov(form, body) = <<Len(body) + 2, 10>> \o body
    BY <1>1 DEF IsoMoov, Upload!Box
  <2>2. Len(body) + 2 \in Nibbles /\ 10 \in Nibbles
    BY <1>0 DEF Nibbles
  <2>3. <<Len(body) + 2, 10>> \in Seq(Nibbles) /\ Len(<<Len(body) + 2, 10>>) = 2
    BY <2>2
  <2>4. MoovHeader(form) = 2
    BY <1>1 DEF MoovHeader
  <2>5. QED
    BY <2>1, <2>3, <2>4
<1>2. CASE form = "open"
  <2>1. IsoMoov(form, body) = <<0, 10>> \o body
    BY <1>2 DEF IsoMoov
  <2>2. <<0, 10>> \in Seq(Nibbles) /\ Len(<<0, 10>>) = 2
    BY DEF Nibbles
  <2>3. MoovHeader(form) = 2
    BY <1>2 DEF MoovHeader
  <2>4. QED
    BY <2>1, <2>2, <2>3
<1>3. CASE form = "extended"
  <2> DEFINE v == Len(body) + 4
  <2>0. InCells(v)
    BY <1>0, TwoCells
  <2>1. Upload!Big(v, 2, 16) = <<High(v), Low(v)>> /\ High(v) \in Nibbles /\ Low(v) \in Nibbles
    BY <2>0 DEF InCells, Nibbles
  <2>2. IsoMoov(form, body) = <<1, 10>> \o <<High(v), Low(v)>> \o body
    BY <1>3, <2>1 DEF IsoMoov
  <2> DEFINE a == <<1, 10>>
             b == <<High(v), Low(v)>>
  <2>3. a \in Seq(Nibbles) /\ Len(a) = 2
    BY DEF Nibbles
  <2>4. b \in Seq(Nibbles) /\ Len(b) = 2
    BY <2>1
  <2>5. MoovHeader(form) = 4 /\ IsoMoov(form, body) = a \o b \o body
    BY <1>3, <2>2 DEF MoovHeader
  <2> HIDE DEF a, b
  <2>6. Joins(Nibbles, a, b)
    BY <2>3, <2>4, Joined
  <2>7. a \o b \in Seq(Nibbles) /\ Len(a \o b) = 4
    BY <2>3, <2>4, <2>6 DEF Joins
  <2>8. QED
    BY <2>5, <2>7
<1>4. QED
  BY <1>1, <1>2, <1>3

\* An ISO file in its pieces, with the mvhd where it is looked for.
IsoOffset(m) == 3 + MoovHeader(m.form) + Skipped(m.extra)
IsoPieces(m, w, before) ==
  /\ before \in Seq(Nibbles) /\ Len(before) = IsoOffset(m)
  /\ IsoTail(m) \in Seq(Nibbles)
  /\ w = before \o IsoMvhd(m) \o IsoTail(m)
  /\ w = IsoBrand(m) \o (IsoMoov(m.form, MoovBody(m.extra, IsoMvhd(m))) \o IsoTail(m))
  /\ IsoMoov(m.form, MoovBody(m.extra, IsoMvhd(m))) \o IsoTail(m) \in Seq(Nibbles)

\* An ISO file is its brand, moov and the rest, and its mvhd lies in it.
LEMMA IsoLaidOut ==
  ASSUME NEW m, IsoMedium(m)
  PROVE  \E before : IsoPieces(m, Upload!Written(m), before)
<1>1. IsoFields(m)
  BY IsoHolds
<1>2. IsoMvhd(m) \in Seq(Nibbles) /\ Len(IsoMvhd(m)) = MvhdSize(m) /\ MvhdSize(m) <= 10
  <2>1. IsoMvhd(m) \in Seq(Nibbles) /\ Len(IsoMvhd(m)) = MvhdSize(m)
    BY <1>1, MvhdIsWhole
  <2>2. QED
    BY <2>1 DEF MvhdSize
<1> DEFINE mvhd == IsoMvhd(m)
           body == MoovBody(m.extra, mvhd)
           tail == IsoTail(m)
<1>3. PICK skip \in Seq(Nibbles) : body = skip \o mvhd /\ Len(skip) = Skipped(m.extra)
  BY <1>1, <1>2, BodyLaidOut DEF IsoFields
<1>4. body \in Seq(Nibbles) /\ Len(body) <= 13
  <2>1. Joins(Nibbles, skip, mvhd)
    BY <1>2, Joined
  <2>2. Skipped(m.extra) \in 0..3
    BY DEF Skipped
  <2> HIDE DEF mvhd, body
  <2>3. QED
    BY <1>2, <1>3, <2>1, <2>2 DEF Joins, mvhd
<1>5. PICK head \in Seq(Nibbles) : IsoMoov(m.form, body) = head \o body /\ Len(head) = MoovHeader(m.form)
  BY <1>1, <1>4, MoovLaidOut DEF IsoFields
<1>6. tail \in Seq(Nibbles)
  <2>1. <<3, 13, 0>> \in Seq(Nibbles) /\ <<>> \in Seq(Nibbles)
    BY DEF Nibbles
  <2>2. QED
    BY <2>1, SkippedBox DEF IsoTail, Upload!When
<1>7. IsoBrand(m) \in Seq(Nibbles) /\ Len(IsoBrand(m)) = 3
  <2>1. <<3, 9, 12>> \in Seq(Nibbles) /\ Len(<<3, 9, 12>>) = 3 /\ <<3, 9, 0>> \in Seq(Nibbles) /\ Len(<<3, 9, 0>>) = 3
    BY DEF Nibbles
  <2>2. QED
    BY <2>1 DEF IsoBrand
<1>8. Upload!Written(m) = IsoBrand(m) \o IsoMoov(m.form, body) \o tail
  <2>1. Upload!Written(m) = Upload!IsoFile(m)
    BY DEF IsoMedium, Upload!Written
  <2>2. mvhd = Upload!Box(Upload!Mvhd, IF m.long THEN <<1, 0, 0, 0, 0, m.y>> \o Upload!Big(m.x, 2, Upload!Base)
                                       ELSE <<0, 0, 0, m.y, m.x>>)
    <3>1. MvhdRest(m) = IF m.long THEN <<1, 0, 0, 0, 0, m.y>> \o Upload!Big(m.x, 2, 16) ELSE <<0, 0, 0, m.y, m.x>>
      BY <1>1, MvhdIsWhole DEF MvhdRest, InCells, IsoFields
    <3>2. Len(MvhdRest(m)) + 2 = MvhdSize(m)
      <4>1. Len(MvhdRest(m)) = MvhdSize(m) - 2
        BY <1>1, MvhdIsWhole
      <4>2. MvhdSize(m) \in Nat
        BY DEF MvhdSize
      <4>3. QED
        BY <4>1, <4>2
    <3>3. QED
      BY <3>1, <3>2 DEF IsoMvhd, Upload!Box, Upload!Mvhd, Upload!Base
  <2>3. Upload!Box(Upload!Ftyp, <<IF m.format = "mov" THEN Upload!QuickTime ELSE 0>>) = IsoBrand(m)
    <3>1. Len(<<0>>) + 2 = 3 /\ Len(<<12>>) + 2 = 3
      OBVIOUS
    <3>2. <<3, 9>> \in Seq(Nat) /\ <<0>> \in Seq(Nat) /\ <<3, 9, 0>> = <<3, 9>> \o <<0>>
      OBVIOUS
    <3>3. <<3, 9>> \in Seq(Nat) /\ <<12>> \in Seq(Nat) /\ <<3, 9, 12>> = <<3, 9>> \o <<12>>
      OBVIOUS
    <3>4. QED
      BY <3>1, <3>2, <3>3 DEF Upload!Box, Upload!Ftyp, Upload!QuickTime, IsoBrand
  <2> HIDE DEF mvhd
  <2>4. Upload!IsoFile(m) =
          Upload!Box(Upload!Ftyp, <<IF m.format = "mov" THEN Upload!QuickTime ELSE 0>>)
          \o (CASE m.form = "plain" -> Upload!Box(Upload!Moov, body)
                [] m.form = "open" -> <<0, Upload!Moov>> \o body
                [] m.form = "extended" -> <<1, Upload!Moov>> \o Upload!Big(Len(body) + 4, 2, Upload!Base) \o body)
          \o Upload!When(m.form # "open", Upload!Box(13, <<0>>))
    BY <2>2 DEF Upload!IsoFile, MoovBody
  <2>5. QED
    BY <2>1, <2>3, <2>4 DEF IsoMoov, IsoTail, Upload!Moov, Upload!Base
<1>9. MoovHeader(m.form) \in Nat /\ Skipped(m.extra) \in Nat
  BY DEF MoovHeader, Skipped
<1> DEFINE brand == IsoBrand(m)
           before == brand \o (head \o skip)
<1>10. before \in Seq(Nibbles) /\ Len(before) = IsoOffset(m)
  <2>1. Joins(Nibbles, head, skip)
    BY Joined
  <2>2. Joins(Nibbles, brand, head \o skip)
    BY <1>7, <2>1, Joined DEF Joins
  <2> HIDE DEF brand
  <2>3. QED
    BY <1>3, <1>5, <1>7, <1>9, <2>1, <2>2 DEF IsoOffset, Joins, brand
<1>11. Upload!Written(m) = before \o mvhd \o tail
       /\ Upload!Written(m) = brand \o (IsoMoov(m.form, body) \o tail)
       /\ IsoMoov(m.form, body) \o tail \in Seq(Nibbles)
  <2>1. Upload!Written(m) = brand \o (head \o (skip \o mvhd)) \o tail
    BY <1>3, <1>5, <1>8
  <2> HIDE DEF mvhd, tail, brand, body
  <2>2. mvhd \in Seq(Nibbles) /\ tail \in Seq(Nibbles) /\ brand \in Seq(Nibbles) /\ body \in Seq(Nibbles)
    BY <1>2, <1>4, <1>6, <1>7 DEF mvhd, tail, brand
  <2>3. brand \o (head \o (skip \o mvhd)) = brand \o (head \o skip) \o mvhd
    BY ONLY <2>2, head \in Seq(Nibbles), skip \in Seq(Nibbles), SMTT(20)
  <2>4. IsoMoov(m.form, body) \in Seq(Nibbles)
    BY <1>5, <2>2
  <2>5. Upload!Written(m) = brand \o (head \o skip) \o mvhd \o tail
    BY <2>1, <2>3
  <2>6. Upload!Written(m) = brand \o IsoMoov(m.form, body) \o tail
    BY <1>8 DEF brand, tail
  <2>7. brand \o IsoMoov(m.form, body) \o tail = brand \o (IsoMoov(m.form, body) \o tail)
    BY ONLY <2>2, <2>4, SMTT(20)
  <2>8. IsoMoov(m.form, body) \o tail \in Seq(Nibbles)
    BY ONLY <2>2, <2>4
  <2>9. QED
    BY <2>5, <2>6, <2>7, <2>8
<1>12. IsoPieces(m, Upload!Written(m), before)
  BY <1>6, <1>10, <1>11 DEF IsoPieces
<1>13. QED
  BY <1>12

\* The brand is seen in the first cells, and no file begins like another format.
LEMMA BrandCells ==
  ASSUME NEW m, NEW f \in Seq(Nat), Part(f, 0, IsoBrand(m))
  PROVE  /\ Len(f) >= 1 => f[1] = 3
         /\ Len(f) >= 2 => f[2] = 9
         /\ Len(f) >= 3 => f[3] = IF m.format = "mov" THEN 12 ELSE 0
<1> DEFINE b == IsoBrand(m)
<1>1. Len(b) = 3 /\ b[1] = 3 /\ b[2] = 9 /\ b[3] = (IF m.format = "mov" THEN 12 ELSE 0)
  BY DEF IsoBrand
<1> HIDE DEF b
<1>2. \A i \in 1..3 : 0 + i <= Len(f) => f[0 + i] = b[i]
  BY <1>1 DEF Part, b
<1>3. 1 \in 1..3 /\ 2 \in 1..3 /\ 3 \in 1..3 /\ 0 + 1 = 1 /\ 0 + 2 = 2 /\ 0 + 3 = 3 /\ Len(f) \in Nat
  OBVIOUS
<1>4. QED
  BY ONLY <1>1, <1>2, <1>3

\* The duration of an ISO file is read as it was written once the mvhd has arrived.
LEMMA IsoReading ==
  ASSUME NEW m, IsoMedium(m), NEW f \in Seq(Nat), Part(f, 0, Upload!Written(m))
  PROVE  TrueDuration(Upload!ReadIsoBmffDuration(f), m, Len(f) = Len(Upload!Written(m)))
<1> DEFINE w == Upload!Written(m)
           n == Len(f)
           p == IsoOffset(m)
           s == MvhdSize(m)
           mvhd == IsoMvhd(m)
           tail == IsoTail(m)
<1>1. PICK before : IsoPieces(m, w, before)
  BY IsoLaidOut
<1>2. IsoFields(m)
  BY IsoHolds
<1>3. mvhd \in Seq(Nibbles) /\ Len(mvhd) = s /\ s \in 2..200 /\ p \in Nat /\ n \in Nat
  <2>1. mvhd \in Seq(Nibbles) /\ Len(mvhd) = s
    BY <1>2, MvhdIsWhole
  <2>2. s \in 2..200
    BY DEF MvhdSize
  <2>3. p \in Nat
    BY DEF IsoOffset, MoovHeader, Skipped
  <2>4. QED
    BY <2>1, <2>2, <2>3
<1>4. before \in Seq(Nibbles) /\ Len(before) = p /\ tail \in Seq(Nibbles) /\ w = before \o mvhd \o tail
  BY <1>1 DEF IsoPieces
<1> HIDE DEF mvhd, tail, p, s, n, w
<1>5. \A t : t \in Seq(Nibbles) => t \in Seq(Nat)
  BY NibblesAreNat
<1>6. Part(f, p, mvhd)
  <2>1. w = before \o (mvhd \o tail)
    BY ONLY <1>3, <1>4
  <2>2. Joins(Nibbles, mvhd, tail)
    BY <1>3, <1>4, Joined
  <2>3. Part(f, 0, before \o (mvhd \o tail))
    BY <2>1 DEF w
  <2>4. Follow(f, 0, before, p, mvhd \o tail)
    BY <1>4, <1>5, <2>2, <2>3, PartsFollow DEF Joins
  <2>5. Part(f, p, mvhd \o tail)
    BY <1>3, <2>4 DEF Follow
  <2>6. Follow(f, p, mvhd, s, tail)
    BY <1>3, <1>4, <1>5, <2>5, PartsFollow
  <2>7. QED
    BY <2>6 DEF Follow
<1>7. Len(w) = p + s + Len(tail) /\ Len(tail) \in Nat
  <2>1. Joins(Nibbles, before, mvhd)
    BY <1>3, <1>4, Joined
  <2>2. Joins(Nibbles, before \o mvhd, tail)
    BY <1>4, <2>1, Joined DEF Joins
  <2>3. QED
    BY <1>3, <1>4, <2>1, <2>2 DEF Joins
<1>8. PICK r : FindsMvhd(r, f)
  BY MvhdSearch
<1>9. Upload!FindMvhd(f, 0, n) = FoundAt(p, s, n)
  <2> DEFINE moov == IsoMoov(m.form, MoovBody(m.extra, mvhd))
             brand == IsoBrand(m)
             rest == MvhdRest(m)
  <2>1. w = brand \o (moov \o tail)
    BY <1>1 DEF IsoPieces, mvhd, tail, w
  <2>2. mvhd = <<s, 11>> \o rest /\ rest \in Seq(Nat) /\ Len(rest) = s - 2
    <3>1. rest \in Seq(Nibbles) /\ Len(rest) = s - 2
      BY <1>2, MvhdIsWhole DEF s
    <3>2. QED
      BY <1>5, <3>1 DEF mvhd, IsoMvhd, s
  <2>3. moov \in Seq(Nibbles)
    <3>1. MoovBody(m.extra, mvhd) \in Seq(Nibbles) /\ Len(MoovBody(m.extra, mvhd)) <= 13
      <4>1. PICK skip \in Seq(Nibbles) : MoovBody(m.extra, mvhd) = skip \o mvhd /\ Len(skip) = Skipped(m.extra)
        BY <1>2, <1>3, BodyLaidOut DEF IsoFields
      <4>2. Joins(Nibbles, skip, mvhd)
        BY <1>3, Joined
      <4>3. Skipped(m.extra) \in 0..3 /\ s <= 10
        BY DEF Skipped, s, MvhdSize
      <4>4. QED
        BY <1>3, <4>1, <4>2, <4>3 DEF Joins
    <3>2. PICK head \in Seq(Nibbles) :
            moov = head \o MoovBody(m.extra, mvhd) /\ Len(head) = MoovHeader(m.form)
      BY <1>2, <3>1, MoovLaidOut DEF IsoFields
    <3>3. Joins(Nibbles, head, MoovBody(m.extra, mvhd))
      BY <3>1, Joined
    <3>4. QED
      BY <3>2, <3>3 DEF Joins
  <2>4. brand \in Seq(Nibbles) /\ Len(brand) = 3
    <3>1. <<3, 9, 12>> \in Seq(Nibbles) /\ Len(<<3, 9, 12>>) = 3 /\ <<3, 9, 0>> \in Seq(Nibbles) /\ Len(<<3, 9, 0>>) = 3
      BY DEF Nibbles
    <3>2. QED
      BY <3>1 DEF IsoBrand
  <2> HIDE DEF moov, brand, rest
  <2>5. Joins(Nibbles, moov, tail)
    BY <1>4, <2>3, Joined
  <2>6. Part(f, 0, brand \o (moov \o tail))
    BY <2>1 DEF w
  <2>7. Follow(f, 0, brand, 3, moov \o tail)
    BY <1>5, <2>4, <2>5, <2>6, PartsFollow DEF Joins
  <2>8. Part(f, 3, moov \o tail)
    BY <2>7 DEF Follow
  <2>9. Follow(f, 3, moov, Len(moov), tail)
    BY <1>4, <1>5, <2>3, <2>8, PartsFollow
  <2>10. Part(f, 3, IsoMoov(m.form, MoovBody(m.extra, <<s, 11>> \o rest)))
    BY <2>2, <2>9 DEF Follow, moov
  <2>11. r[<<3, n>>] = FoundAt(3 + MoovHeader(m.form) + Skipped(m.extra), s, n)
    <3> DEFINE o == 3
               form == m.form
               extra == m.extra
    <3>1. form \in {"plain", "open", "extended"} /\ extra \in BOOLEAN /\ s \in Nat /\ s >= 2 /\ s <= 200 /\ o \in Nat
      BY <1>2, <1>3 DEF IsoFields
    <3>2. Part(f, o, IsoMoov(form, MoovBody(extra, <<s, 11>> \o rest)))
      BY <2>10
    <3> HIDE DEF o, form, extra
    <3>3. r[<<o, Len(f)>>] = FoundAt(o + MoovHeader(form) + Skipped(extra), s, Len(f))
      BY <1>8, <2>2, <3>1, <3>2, MvhdInMoov
    <3>4. QED
      BY <3>3 DEF o, form, extra, n
  <2>12. Part(f, 0, brand)
    BY <2>7 DEF Follow
  <2> DEFINE size == 3
             type == 9
  <2>13. Part(f, 0, <<size, type>>)
    <3>1. /\ Len(f) >= 1 => f[1] = 3
          /\ Len(f) >= 2 => f[2] = 9
      BY <2>12, BrandCells DEF brand
    <3>2. Len(<<size, type>>) = 2 /\ <<size, type>>[1] = 3 /\ <<size, type>>[2] = 9
      OBVIOUS
    <3>3. QED
      BY <3>1, <3>2 DEF Part
  <2>14. size \in Nat /\ size >= 2 /\ size = 3 /\ type \in Nat /\ type \notin {10, 11}
    OBVIOUS
  <2> HIDE DEF size, type
  <2>15. PlainVisit(r, f, 0, n, size, type)
    BY <1>3, <1>8, <2>13, <2>14, PlainBox DEF n
  <2>16. Upload!FindMvhd(f, 0, n) = r[<<0, n>>]
    BY <1>3, <1>8 DEF FindsMvhd
  <2>17. p >= 3 /\ p = 3 + MoovHeader(m.form) + Skipped(m.extra)
    BY DEF p, IsoOffset, MoovHeader, Skipped
  <2>18. r[<<0, n>>] = IF 3 > n THEN -1 ELSE r[<<3, n>>]
    BY <2>14, <2>15 DEF PlainVisit
  <2>19. QED
    BY <1>3, <2>11, <2>16, <2>17, <2>18 DEF FoundAt
<1>10. Upload!ReadIsoBmffDuration(f) = Upload!MvhdDuration(f, FoundAt(p, s, n))
  BY <1>9 DEF Upload!ReadIsoBmffDuration, n
<1>11. Upload!Duration(m) = Upload!Read(m.x, m.y) /\ m.x \in Nat /\ m.y \in Nat
  BY <1>2 DEF Upload!Duration, IsoMedium, IsoFields
<1>12. CASE p + s <= n
  <2>1. Upload!MvhdDuration(f, p) = IF m.y = 0 \/ m.x = 0 THEN Upload!Null ELSE Upload!Read(m.x, m.y)
    BY <1>2, <1>3, <1>6, <1>12, TimesAreRead DEF mvhd, s, n
  <2>2. FoundAt(p, s, n) = p
    BY <1>12 DEF FoundAt
  <2>3. QED
    BY <1>10, <1>11, <2>1, <2>2 DEF TrueDuration, Upload!Read, Upload!Null
<1>13. CASE ~(p + s <= n)
  <2>1. n # Len(w)
    BY <1>3, <1>7, <1>13
  <2>2. Upload!MvhdDuration(f, FoundAt(p, s, n)) = Upload!Null
    BY <1>13 DEF FoundAt, Upload!MvhdDuration
  <2>3. QED
    BY <1>10, <2>1, <2>2 DEF TrueDuration, n, w
<1>14. QED
  BY <1>12, <1>13

\* The cells of t lie in f from offset o on.
Lies(f, o, t) == Upload!Has(f, o, Len(t)) /\ \A i \in 1..Len(t) : f[o + i] = t[i]

\* A slice is the cells that lie there.
Sliced(f, o, e, t) == Upload!Slice(f, o, e) = t <=> Lies(f, o, t)

\* Two sequences with the same cells are the same.
LEMMA SameSequence ==
  ASSUME NEW s \in Seq(Nat), NEW t \in Seq(Nat), Len(s) = Len(t), \A i \in 1..Len(s) : s[i] = t[i]
  PROVE  s = t
OBVIOUS

\* The first cell of a join is that of its first sequence.
LEMMA FirstOfJoin ==
  ASSUME NEW s \in Seq(Nat), NEW t \in Seq(Nat), Len(s) > 0
  PROVE  (s \o t)[1] = s[1]
OBVIOUS

\* A slice of a file equals a sequence exactly when the sequence lies there.
LEMMA SliceLies ==
  ASSUME NEW f \in Seq(Nat), NEW o \in Nat, NEW t \in Seq(Nat), Len(t) > 0, NEW e, e = o + Len(t)
  PROVE  Sliced(f, o, e, t)
<1> SUFFICES Upload!Slice(f, o, e) = t <=> Lies(f, o, t)
  BY DEF Sliced
<1> DEFINE k == Len(t)
           b == IF e < Len(f) THEN e ELSE Len(f)
           s == Upload!Slice(f, o, e)
<1>0. Len(f) \in Nat /\ k \in Nat /\ k > 0 /\ e \in Nat /\ e = o + k /\ b \in Nat
  OBVIOUS
<1>1. s = SubSeq(f, o + 1, b)
  BY DEF Upload!Slice
<1>2. CASE Upload!Has(f, o, k)
  <2>1. b = e /\ e <= Len(f)
    BY <1>0, <1>2 DEF Upload!Has
  <2>2. s \in Seq(Nat) /\ Len(s) = k /\ \A i \in 1..k : s[i] = f[o + i]
    <3>1. s = SubSeq(f, o + 1, e)
      BY <1>1, <2>1
    <3> HIDE DEF s, b, k
    <3>2. s \in Seq(Nat)
      BY <1>0, <2>1, <3>1
    <3>3. Len(s) = k
      BY <1>0, <2>1, <3>1
    <3>4. ASSUME NEW i \in 1..k PROVE s[i] = f[o + i]
      <4>1. i \in 1..(e - (o + 1) + 1) /\ (o + 1) + i - 1 = o + i
        BY <1>0
      <4>2. s[i] = f[(o + 1) + i - 1]
        BY <1>0, <2>1, <3>1, <4>1
      <4>3. QED
        BY <4>1, <4>2
    <3>5. QED
      BY <3>2, <3>3, <3>4
  <2> HIDE DEF s, b
  <2>3. s = t <=> \A i \in 1..k : s[i] = t[i]
    <3>1. (\A i \in 1..k : s[i] = t[i]) => s = t
      BY <1>0, <2>2, SameSequence
    <3>2. QED
      BY <3>1
  <2>4. QED
    BY <1>2, <2>2, <2>3 DEF Lies, s
<1>3. CASE ~Upload!Has(f, o, k)
  <2>1. b = Len(f) /\ Len(f) < o + k
    BY <1>0, <1>3 DEF Upload!Has
  <2>2. Len(s) < k
    <3> HIDE DEF b, s
    <3>1. CASE o + 1 <= b
      <4>1. Len(s) = b - (o + 1) + 1
        BY <1>0, <1>1, <2>1, <3>1
      <4>2. QED
        BY <1>0, <2>1, <3>1, <4>1
    <3>2. CASE ~(o + 1 <= b)
      <4>1. Len(s) = 0
        BY <1>0, <1>1, <2>1, <3>2
      <4>2. QED
        BY <1>0, <4>1
    <3>3. QED
      BY <3>1, <3>2
  <2>3. s # t
    BY <1>0, <2>2
  <2>4. QED
    BY <1>3, <2>3 DEF Lies
<1>4. QED
  BY <1>2, <1>3

\* The first cell tells the formats of images apart.
FirstTells(f) ==
  /\ ~(Len(f) > 0 /\ f[1] = 137) => Upload!InspectPng(f) = Upload!NoImage
  /\ ~(Len(f) > 0 /\ f[1] = 71) => Upload!InspectGif(f) = Upload!NoImage
  /\ ~(Len(f) > 0 /\ f[1] = 255) => Upload!InspectJpeg(f) = Upload!NoImage
  /\ ~(Len(f) > 0 /\ f[1] = 82) => Upload!InspectWebp(f) = Upload!NoImage

BeginsOtherwise(f, t) == ~(Len(f) > 0 /\ f[1] = t[1])

\* Each image parser knows its files by their first cell.
LEMMA FirstCell ==
  ASSUME NEW f \in Seq(Nat)
  PROVE  FirstTells(f)
<1>1. ASSUME NEW t \in Seq(Nat), Len(t) > 0, BeginsOtherwise(f, t)
      PROVE  Upload!Slice(f, 0, Len(t)) # t
  <2>0. ~(Len(f) > 0 /\ f[1] = t[1])
    BY <1>1 DEF BeginsOtherwise
  <2>1. Len(t) = 0 + Len(t)
    BY <1>1
  <2>2. Sliced(f, 0, Len(t), t)
    BY <1>1, <2>1, SliceLies
  <2>3. ~Lies(f, 0, t)
    <3>1. SUFFICES ASSUME Lies(f, 0, t) PROVE FALSE
      OBVIOUS
    <3>2. 1 \in 1..Len(t) /\ Len(f) > 0 /\ 0 + 1 = 1
      BY <1>1, <3>1 DEF Lies, Upload!Has
    <3>3. f[1] = t[1]
      BY <3>1, <3>2 DEF Lies
    <3>4. QED
      BY <2>0, <3>2, <3>3
  <2>4. QED
    BY <2>2, <2>3 DEF Sliced
<1>2. ASSUME ~(Len(f) > 0 /\ f[1] = 137) PROVE Upload!InspectPng(f) = Upload!NoImage
  <2> DEFINE t == Upload!PngSignature
  <2>1. t \in Seq(Nat) /\ Len(t) = 8 /\ t[1] = 137
    BY DEF Upload!PngSignature
  <2> HIDE DEF t
  <2>2. Upload!Slice(f, 0, 8) # t
    <3>1. Len(t) > 0 /\ BeginsOtherwise(f, t)
      BY <1>2, <2>1 DEF BeginsOtherwise
    <3>2. Upload!Slice(f, 0, Len(t)) # t
      BY <1>1, <2>1, <3>1
    <3>3. QED
      BY <2>1, <3>2
  <2>3. QED
    BY <2>2 DEF Upload!InspectPng, t
<1>3. ASSUME ~(Len(f) > 0 /\ f[1] = 71) PROVE Upload!InspectGif(f) = Upload!NoImage
  <2> DEFINE t == Upload!GifSignature
  <2>1. t \in Seq(Nat) /\ Len(t) = 6 /\ t[1] = 71
    BY DEF Upload!GifSignature
  <2> HIDE DEF t
  <2>2. Upload!Slice(f, 0, 6) # t
    <3>1. Len(t) > 0 /\ BeginsOtherwise(f, t)
      BY <1>3, <2>1 DEF BeginsOtherwise
    <3>2. Upload!Slice(f, 0, Len(t)) # t
      BY <1>1, <2>1, <3>1
    <3>3. QED
      BY <2>1, <3>2
  <2>3. QED
    BY <2>2 DEF Upload!InspectGif, t
<1>4. ASSUME ~(Len(f) > 0 /\ f[1] = 255) PROVE Upload!InspectJpeg(f) = Upload!NoImage
  <2> DEFINE t == <<255, 216, 255>>
  <2>1. t \in Seq(Nat) /\ Len(t) = 3 /\ t[1] = 255
    OBVIOUS
  <2> HIDE DEF t
  <2>2. Upload!Slice(f, 0, 3) # t
    <3>1. Len(t) > 0 /\ BeginsOtherwise(f, t)
      BY <1>4, <2>1 DEF BeginsOtherwise
    <3>2. Upload!Slice(f, 0, Len(t)) # t
      BY <1>1, <2>1, <3>1
    <3>3. QED
      BY <2>1, <3>2
  <2>3. QED
    BY <2>2 DEF Upload!InspectJpeg, t
<1>5. ASSUME ~(Len(f) > 0 /\ f[1] = 82) PROVE Upload!InspectWebp(f) = Upload!NoImage
  <2>1. SUFFICES ASSUME Upload!Has(f, 0, 16) PROVE Upload!Slice(f, 0, 2) \o Upload!Slice(f, 8, 10) # Upload!WebpTag
    BY DEF Upload!InspectWebp
  <2> DEFINE s == Upload!Slice(f, 0, 2)
             u == Upload!Slice(f, 8, 10)
  <2>2. Len(f) \in Nat /\ Len(f) >= 16
    BY <2>1 DEF Upload!Has
  <2>3. s = SubSeq(f, 1, 2) /\ u = SubSeq(f, 9, 10)
    BY <2>2, SMTT(20) DEF Upload!Slice
  <2> HIDE DEF s, u
  <2>4. s \in Seq(Nat) /\ Len(s) = 2 /\ s[1] = f[1]
    BY <2>2, <2>3
  <2>5. u \in Seq(Nat)
    BY <2>2, <2>3
  <2>6. (s \o u)[1] = s[1]
    <3>1. Len(s) > 0
      BY <2>4
    <3>2. QED
      BY <2>4, <2>5, <3>1, FirstOfJoin
  <2>7. f[1] # 82
    BY <1>5, <2>2
  <2>8. Upload!WebpTag[1] = 82
    BY DEF Upload!WebpTag
  <2>9. QED
    BY <2>4, <2>6, <2>7, <2>8 DEF s, u
<1>6. QED
  BY <1>2, <1>3, <1>4, <1>5 DEF FirstTells

\* A file of video cells is no image.
LEMMA VideoIsNoImage ==
  ASSUME NEW f \in Seq(Nat), Len(f) > 0 => f[1] \in Nibbles
  PROVE  Upload!InspectImageBuffer(f).size = Upload!Null
<1>1. FirstTells(f)
  BY FirstCell
<1>2. Len(f) > 0 => f[1] \notin {137, 71, 255, 82}
  BY SMTT(20) DEF Nibbles
<1>3. QED
  BY <1>1, <1>2 DEF FirstTells, Upload!InspectImageBuffer, Upload!OrElse, Upload!NoImage

\* Only a file that begins with the EBML id is a WebM one.
LEMMA OnlyEbmlIsWebm ==
  ASSUME NEW f \in Seq(Nat), ~Lies(f, 0, <<1, 10, 13, 15>>)
  PROVE  ~Upload!DetectWebm(f) /\ Upload!Header(f) = Upload!NoElement
<1> DEFINE t == <<1, 10, 13, 15>>
<1>1. t \in Seq(Nat) /\ Len(t) = 4
  OBVIOUS
<1> HIDE DEF t
<1>2. ~Lies(f, 0, t) /\ 4 = 0 + Len(t)
  BY <1>1 DEF t
<1>3. Upload!Slice(f, 0, 4) # t
  <2>1. Sliced(f, 0, 4, t)
    <3>1. Len(t) = 0 + Len(t) /\ Len(t) > 0 /\ Len(t) = 4
      BY <1>1
    <3>2. Sliced(f, 0, Len(t), t)
      BY <1>1, <3>1, SliceLies
    <3>3. QED
      BY <3>1, <3>2
  <2>2. QED
    BY <1>2, <2>1 DEF Sliced
<1>4. Upload!Header(f) = Upload!NoElement
  BY <1>3 DEF Upload!Header, Upload!EbmlId, t
<1>5. QED
  BY <1>4 DEF Upload!DetectWebm, Upload!FindIn, Upload!IsWebmText

\* Only a file that begins with "RIFF" is an AVI one.
LEMMA OnlyRiffIsAvi ==
  ASSUME NEW f \in Seq(Nat), Upload!DetectAvi(f)
  PROVE  Len(f) >= 6 /\ f[1] = 8 /\ f[2] = 1
<1> DEFINE t == <<8, 1>>
<1>1. t \in Seq(Nat) /\ Len(t) = 2 /\ t[1] = 8 /\ t[2] = 1
  OBVIOUS
<1>2. Upload!Has(f, 0, 6) /\ Upload!Slice(f, 0, 2) = t
  BY DEF Upload!DetectAvi, Upload!Tag, Upload!Wide, Upload!Riff
<1> HIDE DEF t
<1>3. 2 = 0 + Len(t)
  BY <1>1
<1>4. Lies(f, 0, t)
  <2>1. Sliced(f, 0, 2, t)
    <3>1. Len(t) = 0 + Len(t) /\ Len(t) > 0 /\ Len(t) = 2
      BY <1>1
    <3>2. Sliced(f, 0, Len(t), t)
      BY <1>1, <3>1, SliceLies
    <3>3. QED
      BY <3>1, <3>2
  <2>2. QED
    BY <1>2, <2>1 DEF Sliced
<1>5. 1 \in 1..Len(t) /\ 2 \in 1..Len(t) /\ 0 + 1 = 1 /\ 0 + 2 = 2
  BY <1>1
<1>6. f[1] = 8 /\ f[2] = 1
  BY <1>1, <1>4, <1>5 DEF Lies
<1>7. QED
  BY <1>2, <1>6 DEF Upload!Has

\* An ISO file is seen for what it is once its brand has arrived.
LEMMA IsoIsDetected ==
  ASSUME NEW m, m.format \in {"mp4", "mov"}, NEW f \in Seq(Nat), Part(f, 0, IsoBrand(m))
  PROVE  Upload!DetectVideoFormat(f) = IF Len(f) >= 3 THEN m.format ELSE "none"
<1>0. Len(f) \in Nat
  OBVIOUS
<1>1. CASE Len(f) >= 3
  <2>1. f[2] = 9 /\ f[3] = IF m.format = "mov" THEN 12 ELSE 0
    BY <1>0, <1>1, BrandCells
  <2>2. Upload!Has(f, 0, 3) /\ Upload!At(f, 1) = 9 /\ Upload!At(f, 2) = IF m.format = "mov" THEN 12 ELSE 0
    BY <1>0, <1>1, <2>1 DEF Upload!Has, Upload!At
  <2>3. QED
    BY <1>1, <2>2 DEF Upload!DetectVideoFormat, Upload!Ftyp, Upload!QuickTime
<1>2. CASE ~(Len(f) >= 3)
  <2>1. ~Upload!Has(f, 0, 3)
    BY <1>0, <1>2 DEF Upload!Has
  <2>2. ~Lies(f, 0, <<1, 10, 13, 15>>)
    <3>1. Len(<<1, 10, 13, 15>>) = 4
      OBVIOUS
    <3>2. QED
      BY <1>0, <1>2, <3>1 DEF Lies, Upload!Has
  <2>3. ~Upload!DetectWebm(f)
    BY <2>2, OnlyEbmlIsWebm
  <2>4. ~Upload!DetectAvi(f)
    BY <1>0, <1>2, OnlyRiffIsAvi
  <2>5. QED
    BY <1>2, <2>1, <2>3, <2>4 DEF Upload!DetectVideoFormat
<1>3. QED
  BY <1>1, <1>2

\* The first cell of an id tells its length.
IsId(id) ==
  /\ id \in Seq(Nibbles) /\ Len(id) \in 1..4 /\ id[1] \in 1..15
  /\ Upload!LeadingZeroBits(id[1]) + 1 = Len(id)

\* Each identifier is one to four nibbles, as many as its first one tells.
LEMMA Ids ==
  /\ IsId(Upload!EbmlId) /\ IsId(Upload!SegmentId) /\ IsId(Upload!InfoId) /\ IsId(Upload!TimecodeScaleId)
  /\ IsId(Upload!DocTypeId) /\ IsId(Upload!DurationId) /\ IsId(<<4, 13>>) /\ IsId(<<14>>)
<1>1. /\ Upload!LeadingZeroBits(1) = 3 /\ Upload!LeadingZeroBits(2) = 2
      /\ Upload!LeadingZeroBits(4) = 1 /\ Upload!LeadingZeroBits(14) = 0
  BY LeadingZeros
<1>2. IsId(<<1, 10, 13, 15>>) /\ IsId(<<1, 8, 5, 6>>) /\ IsId(<<1, 5, 4, 9>>)
  BY <1>1 DEF IsId, Nibbles
<1>3. IsId(<<2, 10, 13>>) /\ IsId(<<4, 2>>) /\ IsId(<<4, 8>>) /\ IsId(<<4, 13>>) /\ IsId(<<14>>)
  BY <1>1 DEF IsId, Nibbles
<1>4. QED
  BY <1>2, <1>3 DEF Upload!EbmlId, Upload!SegmentId, Upload!InfoId, Upload!TimecodeScaleId,
                    Upload!DocTypeId, Upload!DurationId

\* A size is read as it was written.
VintIs(n) ==
  /\ Upload!Vint(n) \in Seq(Nibbles) /\ Len(Upload!Vint(n)) \in 1..2
  /\ n < 7 => Upload!Vint(n) = <<8 + n>> /\ Len(Upload!Vint(n)) = 1
  /\ n >= 7 => Upload!Vint(n) = <<4 + n \div 16, n % 16>> /\ Len(Upload!Vint(n)) = 2

\* A short variable-length integer is one or two nibbles.
LEMMA VintCells ==
  ASSUME NEW n \in 0..62
  PROVE  VintIs(n)
<1>1. CASE n < 7
  <2>1. 8 + n \in Nibbles
    BY <1>1 DEF Nibbles
  <2>2. Upload!Vint(n) = <<8 + n>>
    BY <1>1 DEF Upload!Vint
  <2>3. <<8 + n>> \in Seq(Nibbles) /\ Len(<<8 + n>>) = 1
    BY <2>1
  <2>4. QED
    BY <1>1, <2>2, <2>3 DEF VintIs
<1>2. CASE n >= 7
  <2>1. 4 + n \div 16 \in Nibbles /\ n % 16 \in Nibbles
    BY <1>2 DEF Nibbles
  <2>2. Upload!Vint(n) = <<4 + n \div 16, n % 16>>
    BY <1>2 DEF Upload!Vint, Upload!Base
  <2>3. <<4 + n \div 16, n % 16>> \in Seq(Nibbles) /\ Len(<<4 + n \div 16, n % 16>>) = 2
    BY <2>1
  <2>4. QED
    BY <1>2, <2>2, <2>3 DEF VintIs
<1>3. QED
  BY <1>1, <1>2

SizeRead(f, p, n) ==
  Upload!ReadVintSize(f, p) = IF p + Len(Upload!Vint(n)) <= Len(f)
                              THEN [value |-> n, length |-> Len(Upload!Vint(n))] ELSE Upload!NoSize

\* A size is read as it is written.
LEMMA SizeIsRead ==
  ASSUME NEW f \in Seq(Nibbles), NEW p \in Nat, NEW n \in 0..62, Part(f, p, Upload!Vint(n))
  PROVE  SizeRead(f, p, n)
<1>0. f \in Seq(Nat) /\ Len(f) \in Nat
  BY NibblesAreNat
<1>1. CASE ~(p + 1 <= Len(f))
  <2>1. ~Upload!Has(f, p, 1)
    BY <1>1 DEF Upload!Has
  <2>2. Len(Upload!Vint(n)) \in 1..2
    BY VintCells DEF VintIs
  <2>3. Upload!ReadVintSize(f, p) = Upload!NoSize
    BY <2>1 DEF Upload!ReadVintSize
  <2>4. ~(p + Len(Upload!Vint(n)) <= Len(f))
    <3>1. Len(Upload!Vint(n)) > 0 /\ Len(Upload!Vint(n)) \in Nat
      BY ONLY <2>2
    <3>2. QED
      BY ONLY p \in Nat, <1>0, <1>1, <3>1
  <2>5. QED
    BY <2>3, <2>4 DEF SizeRead
<1>2. CASE p + 1 <= Len(f) /\ n < 7
  <2>1. Upload!Vint(n) = <<8 + n>> /\ Len(Upload!Vint(n)) = 1
    BY <1>2, VintCells DEF VintIs
  <2>2. f[p + 1] = 8 + n
    <3>1. 1 \in 1..Len(Upload!Vint(n)) /\ Upload!Vint(n)[1] = 8 + n
      BY <2>1
    <3>2. QED
      BY <1>2, <3>1 DEF Part
  <2>3. Upload!Has(f, p, 1) /\ Upload!At(f, p) = 8 + n
    BY <1>2, <2>2 DEF Upload!Has, Upload!At
  <2>4. Upload!LeadingZeroBits(8 + n) = 0
    <3>1. 8 + n \in 0..15 /\ 8 + n \in 8..15
      BY <1>2
    <3>2. QED
      BY <3>1, LeadingZeros
  <2>5. Upload!ReadVintSize(f, p) = Upload!VintOf(f, p, 1)
    BY <2>3, <2>4 DEF Upload!ReadVintSize
  <2>6. Upload!BE(f, p, 1, 16) = 8 + n
    <3>1. IsBig(Upload!BE(f, p, 1, 16), f, p, 1, 16)
      BY <1>0, <2>3, BigNumbers
    <3>2. QED
      BY <2>2, <3>1 DEF IsBig
  <2>7. 2^(4 - 1) * 16^(1 - 1) = 8
    OBVIOUS
  <2>8. Upload!VintOf(f, p, 1) = [value |-> 8 + n - 8, length |-> 1]
    BY <2>3, <2>6, <2>7 DEF Upload!VintOf, Upload!Cells, Upload!Base
  <2>9. 8 + n - 8 = n
    OBVIOUS
  <2>10. QED
    BY <1>2, <2>1, <2>5, <2>8, <2>9 DEF SizeRead
<1>3. CASE p + 1 <= Len(f) /\ n >= 7
  <2> DEFINE q == n \div 16
             z == n % 16
  <2>0. q \in 0..3 /\ z \in 0..15 /\ (4 + q) * 16 + z - 64 = n
    OBVIOUS
  <2>1. Upload!Vint(n) = <<4 + q, z>> /\ Len(Upload!Vint(n)) = 2
    BY <1>3, VintCells DEF VintIs
  <2> HIDE DEF q, z
  <2>2. f[p + 1] = 4 + q /\ (p + 2 <= Len(f) => f[p + 2] = z)
    <3>1. 1 \in 1..Len(Upload!Vint(n)) /\ Upload!Vint(n)[1] = 4 + q
      BY <2>1
    <3>2. 2 \in 1..Len(Upload!Vint(n)) /\ Upload!Vint(n)[2] = z
      BY <2>1
    <3>3. f[p + 1] = 4 + q
      BY <1>3, <3>1 DEF Part
    <3>4. p + 2 <= Len(f) => f[p + 2] = z
      BY <3>2 DEF Part
    <3>5. QED
      BY <3>3, <3>4
  <2>3. Upload!Has(f, p, 1) /\ Upload!At(f, p) = 4 + q
    BY <1>3, <2>2 DEF Upload!Has, Upload!At
  <2>4. Upload!LeadingZeroBits(4 + q) = 1
    <3>1. 4 + q \in 0..15 /\ 4 + q \in 4..7
      BY <2>0
    <3>2. QED
      BY <3>1, LeadingZeros
  <2>5. Upload!ReadVintSize(f, p) = Upload!VintOf(f, p, 2)
    BY <2>3, <2>4 DEF Upload!ReadVintSize
  <2>6. CASE p + 2 <= Len(f)
    <3>1. Upload!Has(f, p, 2)
      BY <2>6 DEF Upload!Has
    <3>2. IsBig(Upload!BE(f, p, 2, 16), f, p, 2, 16)
      BY <1>0, <3>1, BigNumbers
    <3>3. Upload!BE(f, p, 2, 16) = (4 + q) * 16 + z
      BY <2>2, <2>6, <3>2 DEF IsBig
    <3>4. 2^(4 - 2) * 16^(2 - 1) = 64
      OBVIOUS
    <3> DEFINE v == (4 + q) * 16 + z
    <3> HIDE DEF v
    <3>v. Upload!BE(f, p, 2, 16) = v
      BY <3>3 DEF v
    <3>5. Upload!VintOf(f, p, 2) = [value |-> v - 64, length |-> 2]
      BY <3>1, <3>v, <3>4 DEF Upload!VintOf, Upload!Cells, Upload!Base
    <3>6. QED
      BY <2>0, <2>1, <2>5, <2>6, <3>5 DEF SizeRead, v
  <2>7. CASE ~(p + 2 <= Len(f))
    <3>1. ~Upload!Has(f, p, 2)
      BY <2>7 DEF Upload!Has
    <3>2. Upload!VintOf(f, p, 2) = Upload!NoSize
      BY <3>1 DEF Upload!VintOf
    <3>3. QED
      BY <2>1, <2>5, <2>7, <3>2 DEF SizeRead
  <2>8. QED
    BY <2>6, <2>7
<1>4. QED
  BY <1>1, <1>2, <1>3

\* An element, up to its size.
ElementHead(f, o, id) ==
  Upload!ReadEbmlElement(f, o) =
    IF o + Len(id) <= Len(f)
    THEN Upload!Contents(f, id, o + Len(id), Upload!ReadVintSize(f, o + Len(id))) ELSE Upload!NoElement

\* An identifier is read as it is written.
LEMMA HeadIsRead ==
  ASSUME NEW f \in Seq(Nibbles), NEW o \in Nat, NEW id, IsId(id), Part(f, o, id)
  PROVE  ElementHead(f, o, id)
<1>0. f \in Seq(Nat) /\ Len(f) \in Nat /\ id \in Seq(Nat) /\ Len(id) > 0 /\ Len(id) \in Nat
  <2>1. Len(id) \in 1..4
    BY DEF IsId
  <2>2. Len(id) > 0 /\ Len(id) \in Nat
    BY ONLY <2>1, SMTT(20)
  <2>3. QED
    BY <2>2, NibblesAreNat DEF IsId
<1>1. CASE ~(o + 1 <= Len(f))
  <2>1. ~Upload!Has(f, o, 1) /\ ~(o + Len(id) <= Len(f))
    BY <1>0, <1>1 DEF Upload!Has
  <2>2. QED
    BY <2>1 DEF ElementHead, Upload!ReadEbmlElement
<1>2. CASE o + 1 <= Len(f)
  <2>1. f[o + 1] = id[1]
    BY <1>0, <1>2 DEF Part
  <2>2. Upload!Has(f, o, 1) /\ Upload!At(f, o) = id[1] /\ id[1] # 0
    BY <1>2, <2>1 DEF Upload!Has, Upload!At, IsId
  <2>3. Upload!ReadEbmlElement(f, o) = Upload!ElementAt(f, o, Len(id))
    BY <2>2 DEF IsId, Upload!ReadEbmlElement
  <2>4. CASE ~(o + Len(id) <= Len(f))
    BY <2>3, <2>4 DEF ElementHead, Upload!ElementAt, Upload!Has
  <2>5. CASE o + Len(id) <= Len(f)
    <3>1. Lies(f, o, id)
      <4>1. \A i \in 1..Len(id) : o + i <= Len(f)
        BY <1>0, <2>5
      <4>2. QED
        BY <2>5, <4>1 DEF Lies, Part, Upload!Has
    <3>2. Sliced(f, o, o + Len(id), id)
      BY <1>0, SliceLies
    <3>3. Upload!Slice(f, o, o + Len(id)) = id
      BY <3>1, <3>2 DEF Sliced
    <3>4. QED
      BY <2>3, <2>5, <3>3 DEF ElementHead, Upload!ElementAt, Upload!Has
  <2>6. QED
    BY <2>4, <2>5
<1>3. QED
  BY <1>1, <1>2

\* An element that was written at offset o, with h cells before its n contents.
Seen(f, o, id, h, n) ==
  Upload!ReadEbmlElement(f, o) =
    IF o + h <= Len(f) THEN [id |-> id, dataStart |-> o + h, next |-> o + h + n] ELSE Upload!NoElement

HeadLength(id, body) == Len(id) + Len(Upload!Vint(Len(body)))

ElementFits(f, o, id, body) ==
  /\ HeadLength(id, body) \in 2..6
  /\ Upload!Element(id, body) \in Seq(Nibbles)
  /\ Len(Upload!Element(id, body)) = HeadLength(id, body) + Len(body)
  /\ Part(f, o, Upload!Element(id, body)) =>
       /\ Seen(f, o, id, HeadLength(id, body), Len(body))
       /\ Part(f, o, id) /\ Part(f, o + HeadLength(id, body), body)

\* An element that lies in a file is read as it was written.
LEMMA ElementIsSeen ==
  ASSUME NEW f \in Seq(Nibbles), NEW o \in Nat, NEW id, IsId(id), NEW body \in Seq(Nibbles), Len(body) <= 62
  PROVE  ElementFits(f, o, id, body)
<1> DEFINE n == Len(body)
           v == Upload!Vint(n)
           h == HeadLength(id, body)
<1>1. n \in 0..62 /\ n \in Nat
  <2>1. Len(body) \in Nat /\ Len(body) <= 62
    OBVIOUS
  <2>2. \A a \in Nat : a <= 62 => a \in 0..62
    OBVIOUS
  <2>3. QED
    BY ONLY <2>1, <2>2
<1> HIDE DEF n
<1>2. VintIs(n)
  BY <1>1, VintCells
<1>3. v \in Seq(Nibbles) /\ Len(v) \in 1..2
  BY <1>2 DEF VintIs
<1>4. id \in Seq(Nibbles) /\ Len(id) \in 1..4
  BY DEF IsId
<1> HIDE DEF v
<1>5. h = Len(id) + Len(v)
  BY DEF HeadLength, n, v
<1> HIDE DEF h
<1>6. Joins(Nibbles, v, body) /\ Joins(Nibbles, id, v)
  BY <1>3, <1>4, Joined
<1>7. Joins(Nibbles, id \o v, body)
  BY <1>6, Joined DEF Joins
<1>8. Upload!Element(id, body) = id \o v \o body
  BY DEF Upload!Element, n, v
<1>9. h \in 2..6 /\ Len(id) \in Nat /\ Len(v) \in Nat /\ Len(f) \in Nat /\ Len(id) > 0 /\ Len(v) > 0
  <2>1. \A a \in 1..4, b \in 1..2 : a + b \in 2..6 /\ a \in Nat /\ b \in Nat /\ a > 0 /\ b > 0
    OBVIOUS
  <2>2. Len(f) \in Nat
    OBVIOUS
  <2>3. QED
    BY ONLY <1>3, <1>4, <1>5, <2>1, <2>2
<1>10. Upload!Element(id, body) \in Seq(Nibbles) /\ Len(Upload!Element(id, body)) = h + n
  BY <1>5, <1>6, <1>7, <1>8 DEF Joins, n
<1>11. ASSUME Part(f, o, Upload!Element(id, body))
       PROVE  Seen(f, o, id, h, n) /\ Part(f, o, id) /\ Part(f, o + h, body)
  <2>1. f \in Seq(Nat) /\ id \in Seq(Nat) /\ v \in Seq(Nat) /\ body \in Seq(Nat) /\ v \o body \in Seq(Nat)
    BY <1>3, <1>4, <1>6, NibblesAreNat DEF Joins
  <2>2. id \o v \o body = id \o (v \o body)
    <3>1. Regroups(id, v, body)
      BY <1>3, <1>4, Regrouped
    <3>2. QED
      BY <3>1 DEF Regroups
  <2>3. Part(f, o, id \o (v \o body))
    BY <1>8, <1>11, <2>2
  <2>4. Follow(f, o, id, Len(id), v \o body)
    BY <2>1, <2>3, PartsFollow
  <2>5. o + Len(id) \in Nat /\ o + Len(id) + Len(v) = o + h
    BY <1>5, <1>9
  <2>6. Follow(f, o + Len(id), v, Len(v), body)
    BY <2>1, <2>4, <2>5, PartsFollow DEF Follow
  <2>7. Part(f, o, id) /\ Part(f, o + Len(id), v) /\ Part(f, o + h, body)
    BY <2>4, <2>5, <2>6 DEF Follow
  <2>8. ElementHead(f, o, id)
    BY <2>7, HeadIsRead
  <2>9. SizeRead(f, o + Len(id), n)
    BY <1>1, <2>5, <2>7, SizeIsRead DEF v
  <2> DEFINE size == Upload!ReadVintSize(f, o + Len(id))
  <2>10. size = IF o + h <= Len(f) THEN [value |-> n, length |-> Len(v)] ELSE Upload!NoSize
    BY <2>5, <2>9 DEF SizeRead, v
  <2>11. Upload!ReadEbmlElement(f, o) =
           IF o + Len(id) <= Len(f) THEN Upload!Contents(f, id, o + Len(id), size) ELSE Upload!NoElement
    BY <2>8 DEF ElementHead
  <2> HIDE DEF size
  <2>12. CASE ~(o + h <= Len(f))
    <3>1. Upload!Contents(f, id, o + Len(id), size) = Upload!NoElement
      BY <2>10, <2>12 DEF Upload!Contents
    <3>2. QED
      BY <2>7, <2>11, <2>12, <3>1 DEF Seen
  <2>13. CASE o + h <= Len(f)
    <3>1. o + Len(id) <= Len(f)
      BY <1>9, <2>5, <2>13
    <3>2. size = [value |-> n, length |-> Len(v)]
      BY <2>10, <2>13
    <3>3. size # Upload!NoSize
      BY <1>9, <3>2 DEF Upload!NoSize
    <3>4. ~Upload!IsUnknownVintSize(size)
      <4>1. Upload!IsUnknownVintSize(size) <=> Len(v) >= 4 - 1 \/ n = 2^((4 - 1) * Len(v)) - 1
        BY <3>2 DEF Upload!IsUnknownVintSize, Upload!Cells
      <4>2. CASE n < 7
        <5>1. Len(v) = 1 /\ 2^((4 - 1) * 1) - 1 = 7
          BY <1>2, <4>2 DEF VintIs, v
        <5>2. QED
          BY <1>1, <4>1, <4>2, <5>1
      <4>3. CASE n >= 7
        <5>1. Len(v) = 2 /\ 2^((4 - 1) * 2) - 1 = 63
          BY <1>2, <4>3 DEF VintIs, v
        <5>2. QED
          BY <1>1, <4>1, <4>3, <5>1
      <4>4. QED
        BY <1>1, <4>2, <4>3
    <3>5. Upload!Contents(f, id, o + Len(id), size) =
            [id |-> id, dataStart |-> o + Len(id) + Len(v), next |-> o + Len(id) + Len(v) + n]
      BY <3>2, <3>3, <3>4 DEF Upload!Contents
    <3>6. QED
      BY <2>5, <2>7, <2>11, <2>13, <3>1, <3>5 DEF Seen
  <2>14. QED
    BY <2>12, <2>13
<1>12. QED
  BY <1>9, <1>10, <1>11 DEF ElementFits, h, n

\* The same for an element of unknown size.
OpenSeen(f, o, id) ==
  Upload!ReadEbmlElement(f, o) =
    IF o + Len(id) + 1 <= Len(f) THEN [id |-> id, dataStart |-> o + Len(id) + 1, next |-> Len(f)]
    ELSE Upload!NoElement

\* An element of unknown size extends to the end of the file.
LEMMA OpenElementIsSeen ==
  ASSUME NEW f \in Seq(Nibbles), NEW o \in Nat, NEW id, IsId(id), Part(f, o, id), Part(f, o + Len(id), << 15 >>)
  PROVE  OpenSeen(f, o, id)
<1> DEFINE p == o + Len(id)
<1>0. p \in Nat /\ Len(f) \in Nat /\ f \in Seq(Nat)
  <2>1. Len(id) \in Nat
    BY DEF IsId
  <2>2. QED
    BY <2>1, NibblesAreNat
<1>1. ElementHead(f, o, id)
  BY HeadIsRead
<1>2. Part(f, p, <<15>>)
  OBVIOUS
<1> HIDE DEF p
<1>3. CASE ~(p + 1 <= Len(f))
  <2>1. Upload!ReadVintSize(f, p) = Upload!NoSize
    BY <1>3 DEF Upload!ReadVintSize, Upload!Has
  <2>2. Upload!Contents(f, id, p, Upload!NoSize) = Upload!NoElement
    BY DEF Upload!Contents
  <2>3. QED
    BY <1>1, <1>3, <2>1, <2>2 DEF OpenSeen, ElementHead, p
<1>4. CASE p + 1 <= Len(f)
  <2>1. f[p + 1] = 15
    <3>1. 1 \in 1..Len(<<15>>) /\ <<15>>[1] = 15
      OBVIOUS
    <3>2. QED
      BY <1>2, <1>4, <3>1 DEF Part
  <2>2. Upload!Has(f, p, 1) /\ Upload!At(f, p) = 15
    BY <1>4, <2>1 DEF Upload!Has, Upload!At
  <2>3. Upload!LeadingZeroBits(15) = 0
    BY LeadingZeros
  <2>4. Upload!ReadVintSize(f, p) = Upload!VintOf(f, p, 1)
    BY <2>2, <2>3 DEF Upload!ReadVintSize
  <2>5. Upload!BE(f, p, 1, 16) = 15
    <3>1. IsBig(Upload!BE(f, p, 1, 16), f, p, 1, 16)
      BY <1>0, <2>2, BigNumbers
    <3>2. QED
      BY <2>1, <3>1 DEF IsBig
  <2>6. 2^(4 - 1) * 16^(1 - 1) = 8 /\ 2^((4 - 1) * 1) - 1 = 7 /\ 15 - 8 = 7
    OBVIOUS
  <2>7. Upload!VintOf(f, p, 1) = [value |-> 7, length |-> 1]
    BY <2>2, <2>5, <2>6 DEF Upload!VintOf, Upload!Cells, Upload!Base
  <2> DEFINE size == Upload!ReadVintSize(f, p)
  <2>8. size = [value |-> 7, length |-> 1]
    BY <2>4, <2>7
  <2>9. size # Upload!NoSize /\ Upload!IsUnknownVintSize(size)
    BY <2>6, <2>8 DEF Upload!NoSize, Upload!IsUnknownVintSize, Upload!Cells
  <2>10. Upload!Contents(f, id, p, size) = [id |-> id, dataStart |-> p + 1, next |-> Len(f)]
    BY <2>8, <2>9 DEF Upload!Contents
  <2>11. p <= Len(f)
    BY <1>0, <1>4
  <2>12. QED
    BY <1>1, <1>4, <2>10, <2>11 DEF OpenSeen, ElementHead, p
<1>5. QED
  BY <1>3, <1>4

\* What the search for an element makes of the one it reads.
Sought(r, f, id, end, o) ==
  LET e == Upload!ReadEbmlElement(f, o)
  IN  /\ o + 2 > end \/ ~Upload!Has(f, o, 2) \/ e = Upload!NoElement => r[o] = Upload!NoElement
      /\ ~(o + 2 > end) /\ Upload!Has(f, o, 2) /\ e # Upload!NoElement =>
           r[o] = IF e.id = id THEN e ELSE r[e.next]

\* A search among elements finds the one it is at or goes on after it.
LEMMA SearchStep ==
  ASSUME NEW f, NEW id, NEW end \in Nat, NEW r, FindsElements(r, f, id, end), NEW o \in Nat
  PROVE  Sought(r, f, id, end, o)
<1>1. r[o] = Upload!ElementFrom(f, id, o, end, r)
  BY DEF FindsElements
<1> DEFINE e == Upload!ReadEbmlElement(f, o)
<1>2. r[o] = IF o + 2 > end \/ ~Upload!Has(f, o, 2) THEN Upload!NoElement
             ELSE IF e = Upload!NoElement \/ e.id = id THEN e ELSE r[e.next]
  BY <1>1 DEF Upload!ElementFrom
<1> HIDE DEF e
<1>3. QED
  BY <1>2 DEF Sought, e

\* A number is read as it was written.
NumberFits(v, width) ==
  /\ Upload!Big(v, width, 16) \in Seq(Nibbles) /\ Len(Upload!Big(v, width, 16)) = width
  /\ \A f \in Seq(Nat), o \in Nat :
       Part(f, o, Upload!Big(v, width, 16)) /\ o + width <= Len(f) => Upload!BE(f, o, width, 16) = v

\* A number of one or two cells is read as it is written.
LEMMA NumberIsRead ==
  ASSUME NEW width \in {1, 2}, NEW v \in Nat, width = 1 => v < 16, width = 2 => v < 256
  PROVE  NumberFits(v, width)
<1>1. InCells(v)
  BY TwoCells
<1>2. High(v) \in Nibbles /\ Low(v) \in Nibbles
  BY <1>1 DEF InCells, Nibbles
<1> DEFINE s == Upload!Big(v, width, 16)
<1>3. CASE width = 1
  <2>1. s = <<Low(v)>> /\ Low(v) = v
    BY <1>1, <1>3 DEF InCells
  <2> HIDE DEF s
  <2>2. s \in Seq(Nibbles) /\ Len(s) = 1 /\ s[1] = v
    <3>1. <<Low(v)>> \in Seq(Nibbles) /\ Len(<<Low(v)>>) = 1 /\ <<Low(v)>>[1] = Low(v)
      BY <1>2
    <3>2. QED
      BY <2>1, <3>1
  <2>3. ASSUME NEW f \in Seq(Nat), NEW o \in Nat, Part(f, o, s), o + 1 <= Len(f)
        PROVE  Upload!BE(f, o, 1, 16) = v
    <3>1. f[o + 1] = v
      <4>1. 1 \in 1..Len(s)
        BY <2>2
      <4>2. QED
        BY <2>2, <2>3, <4>1 DEF Part
    <3>2. IsBig(Upload!BE(f, o, 1, 16), f, o, 1, 16)
      BY <2>3, BigNumbers DEF Upload!Has
    <3>3. QED
      BY <3>1, <3>2 DEF IsBig
  <2>4. QED
    BY <1>3, <2>2, <2>3 DEF s, NumberFits
<1>4. CASE width = 2
  <2>1. s = <<High(v), Low(v)>> /\ High(v) * 16 + Low(v) = v
    BY <1>1, <1>4 DEF InCells
  <2> HIDE DEF s
  <2>2. s \in Seq(Nibbles) /\ Len(s) = 2 /\ s[1] = High(v) /\ s[2] = Low(v)
    <3> DEFINE t == <<High(v), Low(v)>>
    <3>1. t \in Seq(Nibbles) /\ Len(t) = 2 /\ t[1] = High(v) /\ t[2] = Low(v)
      BY <1>2
    <3>2. s = t
      BY <2>1
    <3>3. QED
      BY <3>1, <3>2
  <2>3. ASSUME NEW f \in Seq(Nat), NEW o \in Nat, Part(f, o, s), o + 2 <= Len(f)
        PROVE  Upload!BE(f, o, 2, 16) = v
    <3>1. f[o + 1] = High(v) /\ f[o + 2] = Low(v)
      <4>1. 1 \in 1..Len(s) /\ 2 \in 1..Len(s)
        BY <2>2
      <4>2. o + 1 <= Len(f)
        BY <2>3
      <4>3. QED
        BY <2>2, <2>3, <4>1, <4>2 DEF Part
    <3>2. IsBig(Upload!BE(f, o, 2, 16), f, o, 2, 16)
      BY <2>3, BigNumbers DEF Upload!Has
    <3>3. QED
      BY <2>1, <3>1, <3>2 DEF IsBig
  <2>4. QED
    BY <1>4, <2>2, <2>3 DEF s, NumberFits
<1>5. QED
  BY <1>3, <1>4

WebmMedium(m) == Upload!Conforms(m) /\ m.format = "webm"

\* What the fields of a WebM file hold.
Width(m) == IF m.long = TRUE THEN 2 ELSE 1
WebmFields(m) ==
  /\ m.x \in Nat /\ m.y \in Nat /\ m.long \in BOOLEAN /\ m.extra \in BOOLEAN /\ m.form \in {"plain", "open"}
  /\ m.y > 0 /\ m.x \notin {15, 255}
  /\ Width(m) = 1 => m.x < 16 /\ m.y < 16
  /\ Width(m) = 2 => m.x < 256 /\ m.y < 256

\* A WebM medium that conforms has the fields its layout needs.
LEMMA WebmHolds ==
  ASSUME NEW m, WebmMedium(m)
  PROVE  WebmFields(m)
<1>1. /\ m.x \in Nat /\ m.y \in Nat /\ m.long \in BOOLEAN /\ m.extra \in BOOLEAN
      /\ m.form \in {"plain", "open", "extended"}
  BY DEF WebmMedium, Upload!Conforms
<1>2. /\ m.form # "extended" /\ {m.x, m.y} \subseteq 0..Upload!Ones(IF m.long THEN 2 ELSE 1) /\ m.y > 0
      /\ m.x \notin {Upload!Ones(1), Upload!Ones(2)}
  BY DEF WebmMedium, Upload!Conforms, Upload!Wide, Upload!Narrow
<1>3. Upload!Ones(2) = 255 /\ Upload!Ones(1) = 15
  BY DEF Upload!Ones, Upload!Base
<1>4. QED
  BY <1>1, <1>2, <1>3 DEF WebmFields, Width

\* The pieces of a WebM file.
Void == Upload!Element(<<4, 13>>, <<0>>)
VoidPart(m) == Upload!When(m.extra, Void)
Scale(m) == Upload!Element(Upload!TimecodeScaleId, Upload!Big(m.y, Width(m), 16))
ScalePart(m) == Upload!When(m.y # 2 \/ m.extra, Scale(m))
Length(m) == Upload!Element(Upload!DurationId, Upload!Big(m.x, Width(m), 16))
InfoBody(m) == VoidPart(m) \o (ScalePart(m) \o Length(m))
WebmInfo(m) == Upload!Element(Upload!InfoId, InfoBody(m))
Doc == Upload!Element(Upload!DocTypeId, Upload!WebmText)
Ebml == Upload!Element(Upload!EbmlId, Doc)
Between(m) == Upload!When(m.extra, Upload!Element(<<14>>, <<0, 0>>))
Segment(m) ==
  IF m.form = "open" THEN Upload!SegmentId \o <<15>> \o WebmInfo(m) ELSE Upload!Element(Upload!SegmentId, WebmInfo(m))

\* A WebM file is its header, what may come between, and its segment.
LEMMA WebmLaidOut ==
  ASSUME NEW m, WebmMedium(m)
  PROVE  Upload!Written(m) = Ebml \o Between(m) \o Segment(m)
<1>1. Upload!Written(m) = Upload!WebmFile(m)
  BY DEF WebmMedium, Upload!Written
<1>2. m.form # "late" /\ m.long \in BOOLEAN
  BY WebmHolds DEF WebmFields
<1>3. (IF m.long THEN Upload!Wide ELSE Upload!Narrow) = Width(m)
  BY <1>2 DEF Upload!Wide, Upload!Narrow, Width
<1>4. Upload!WebmFile(m) =
        Upload!Element(Upload!EbmlId, Upload!Element(Upload!DocTypeId, Upload!WebmText))
        \o Upload!When(m.extra, Upload!Element(<<14>>, <<0, 0>>))
        \o (IF m.form = "open" THEN Upload!SegmentId \o <<15>> \o WebmInfo(m) ELSE Upload!Element(Upload!SegmentId, WebmInfo(m)))
  BY <1>2, <1>3 DEF Upload!WebmFile, WebmInfo, InfoBody, VoidPart, Void, ScalePart, Scale, Length,
                    Upload!Base, Upload!DefaultScale
<1>5. QED
  BY <1>1, <1>4 DEF Ebml, Doc, Between, Segment

\* Each element is as long as its head and its contents, and short.
Fits(id, body) ==
  /\ IsId(id) /\ body \in Seq(Nibbles) /\ Len(body) <= 62
  /\ HeadLength(id, body) \in 2..6 /\ Upload!Element(id, body) \in Seq(Nibbles)
  /\ Len(Upload!Element(id, body)) = HeadLength(id, body) + Len(body)

\* An element is an identifier, a size of one cell or two, and its body.
LEMMA ElementsFit ==
  ASSUME NEW id, IsId(id), NEW body \in Seq(Nibbles), Len(body) <= 62
  PROVE  Fits(id, body)
<1>1. <<>> \in Seq(Nibbles) /\ 0 \in Nat
  OBVIOUS
<1>2. ElementFits(<<>>, 0, id, body)
  BY <1>1, ElementIsSeen
<1>3. QED
  BY <1>2 DEF ElementFits, Fits

WebmFits(m) ==
  /\ Fits(<<4, 13>>, <<0>>) /\ VoidPart(m) \in Seq(Nibbles)
  /\ Fits(Upload!TimecodeScaleId, Upload!Big(m.y, Width(m), 16)) /\ ScalePart(m) \in Seq(Nibbles)
  /\ Fits(Upload!DurationId, Upload!Big(m.x, Width(m), 16)) /\ Length(m) \in Seq(Nibbles)
  /\ Fits(Upload!InfoId, InfoBody(m)) /\ WebmInfo(m) \in Seq(Nibbles)
  /\ Fits(Upload!DocTypeId, Upload!WebmText) /\ Doc \in Seq(Nibbles) /\ Len(Doc) = 5
  /\ Fits(Upload!EbmlId, Doc) /\ Ebml \in Seq(Nibbles) /\ HeadLength(Upload!EbmlId, Doc) = 5
  /\ Fits(<<14>>, <<0, 0>>) /\ Between(m) \in Seq(Nibbles)
  /\ Fits(Upload!SegmentId, WebmInfo(m)) /\ Segment(m) \in Seq(Nibbles)

\* Each piece of a WebM file is of nibbles, and short enough for its size.
LEMMA WebmIsWhole ==
  ASSUME NEW m, WebmFields(m)
  PROVE  WebmFits(m)
<1>1. <<0>> \in Seq(Nibbles) /\ Len(<<0>>) <= 62 /\ <<0, 0>> \in Seq(Nibbles) /\ Len(<<0, 0>>) <= 62
      /\ <<>> \in Seq(Nibbles) /\ Len(<<0>>) = 1 /\ Len(<<>>) = 0
  BY DEF Nibbles
<1>2. Fits(<<4, 13>>, <<0>>) /\ Fits(<<14>>, <<0, 0>>)
  BY <1>1, Ids, ElementsFit
<1>3. Width(m) \in {1, 2} /\ Width(m) <= 2
  BY DEF Width
<1> DEFINE x == Upload!Big(m.x, Width(m), 16)
           y == Upload!Big(m.y, Width(m), 16)
<1>0. /\ m.x \in Nat /\ m.y \in Nat
      /\ Width(m) = 1 => m.x < 16 /\ m.y < 16
      /\ Width(m) = 2 => m.x < 256 /\ m.y < 256
  BY DEF WebmFields
<1>4. x \in Seq(Nibbles) /\ Len(x) <= 2
  <2>0. NumberFits(m.x, Width(m))
    BY <1>0, <1>3, NumberIsRead
  <2>1. x \in Seq(Nibbles) /\ Len(x) = Width(m)
    BY <2>0 DEF NumberFits
  <2>2. QED
    BY <1>3, <2>1
<1>5. y \in Seq(Nibbles) /\ Len(y) <= 2
  <2>0. NumberFits(m.y, Width(m))
    BY <1>0, <1>3, NumberIsRead
  <2>1. y \in Seq(Nibbles) /\ Len(y) = Width(m)
    BY <2>0 DEF NumberFits
  <2>2. QED
    BY <1>3, <2>1
<1> HIDE DEF x, y
<1>6. Fits(Upload!TimecodeScaleId, y) /\ Fits(Upload!DurationId, x)
  <2>1. Len(x) <= 62 /\ Len(y) <= 62
    BY <1>4, <1>5
  <2>2. QED
    BY <1>4, <1>5, <2>1, Ids, ElementsFit
<1>7. Scale(m) \in Seq(Nibbles) /\ Len(Scale(m)) <= 8 /\ Length(m) \in Seq(Nibbles) /\ Len(Length(m)) <= 8
  <2>1. Scale(m) = Upload!Element(Upload!TimecodeScaleId, y) /\ Length(m) = Upload!Element(Upload!DurationId, x)
    BY DEF Scale, Length, x, y
  <2>2. HeadLength(Upload!TimecodeScaleId, y) \in 2..6 /\ HeadLength(Upload!DurationId, x) \in 2..6
        /\ Len(x) \in Nat /\ Len(y) \in Nat
    BY <1>4, <1>5, <1>6 DEF Fits
  <2>3. \A a \in 2..6, b \in Nat : b <= 2 => a + b <= 8
    OBVIOUS
  <2>4. QED
    BY <1>4, <1>5, <1>6, <2>1, <2>2, <2>3 DEF Fits
<1>8. Void \in Seq(Nibbles) /\ Len(Void) <= 7
  <2>1. \A a \in 2..6 : a + 1 <= 7
    OBVIOUS
  <2>2. QED
    BY <1>1, <1>2, <2>1 DEF Void, Fits
<1>9. VoidPart(m) \in Seq(Nibbles) /\ Len(VoidPart(m)) <= 7
  BY <1>1, <1>8 DEF VoidPart, Upload!When
<1>10. ScalePart(m) \in Seq(Nibbles) /\ Len(ScalePart(m)) <= 8
  BY <1>1, <1>7 DEF ScalePart, Upload!When
<1>11. InfoBody(m) \in Seq(Nibbles) /\ Len(InfoBody(m)) <= 23
  <2>1. Joins(Nibbles, ScalePart(m), Length(m))
    BY <1>7, <1>10, Joined
  <2>2. Joins(Nibbles, VoidPart(m), ScalePart(m) \o Length(m))
    BY <1>9, <2>1, Joined DEF Joins
  <2>3. \A a, b, c \in Nat : a <= 7 /\ b <= 8 /\ c <= 8 => a + (b + c) <= 23
    OBVIOUS
  <2>4. QED
    BY <1>7, <1>9, <1>10, <2>1, <2>2, <2>3 DEF InfoBody, Joins
<1>12. Fits(Upload!InfoId, InfoBody(m))
  <2>1. Len(InfoBody(m)) <= 62
    <3>1. \A a \in Nat : a <= 23 => a <= 62
      OBVIOUS
    <3>2. Len(InfoBody(m)) \in Nat
      BY <1>11
    <3>3. QED
      BY <1>11, <3>1, <3>2
  <2>2. QED
    BY <1>11, <2>1, Ids, ElementsFit
<1>13. WebmInfo(m) \in Seq(Nibbles) /\ Len(WebmInfo(m)) <= 62
  <2>1. \A a \in 2..6, b \in Nat : b <= 23 => a + b <= 62
    OBVIOUS
  <2>2. Len(InfoBody(m)) \in Nat
    BY <1>11
  <2>3. QED
    BY <1>11, <1>12, <2>1, <2>2 DEF WebmInfo, Fits
<1>14. Fits(Upload!SegmentId, WebmInfo(m))
  BY <1>13, Ids, ElementsFit
<1>15. Fits(Upload!DocTypeId, Upload!WebmText) /\ Doc \in Seq(Nibbles) /\ Len(Doc) = 5
  <2>1. Upload!WebmText \in Seq(Nibbles) /\ Len(Upload!WebmText) = 2
    BY DEF Upload!WebmText, Nibbles
  <2>2. Fits(Upload!DocTypeId, Upload!WebmText)
    <3>1. Len(Upload!WebmText) <= 62
      BY <2>1
    <3>2. QED
      BY <2>1, <3>1, Ids, ElementsFit
  <2>3. Len(Upload!DocTypeId) = 2 /\ Len(Upload!Vint(2)) = 1
    <3>1. VintIs(2)
      BY VintCells
    <3>2. QED
      BY <3>1 DEF VintIs, Upload!DocTypeId
  <2>4. HeadLength(Upload!DocTypeId, Upload!WebmText) = 3
    <3>1. Len(Upload!Vint(Len(Upload!WebmText))) = 1
      BY <2>1, <2>3
    <3>2. QED
      BY <2>3, <3>1 DEF HeadLength
  <2>5. QED
    BY <2>1, <2>2, <2>4 DEF Fits, Doc
<1>16. Fits(Upload!EbmlId, Doc) /\ Ebml \in Seq(Nibbles) /\ HeadLength(Upload!EbmlId, Doc) = 5
  <2>1. Len(Doc) <= 62
    BY <1>15
  <2>2. Fits(Upload!EbmlId, Doc)
    BY <1>15, <2>1, Ids, ElementsFit
  <2>3. Len(Upload!EbmlId) = 4 /\ Len(Upload!Vint(5)) = 1
    <3>1. VintIs(5)
      BY VintCells
    <3>2. QED
      BY <3>1 DEF VintIs, Upload!EbmlId
  <2>4. QED
    <3>1. Len(Upload!Vint(Len(Doc))) = 1
      BY <1>15, <2>3
    <3>2. HeadLength(Upload!EbmlId, Doc) = 5
      BY <2>3, <3>1 DEF HeadLength
    <3>3. QED
      BY <2>2, <3>2 DEF Fits, Ebml
<1>17. Between(m) \in Seq(Nibbles)
  BY <1>1, <1>2 DEF Between, Upload!When, Fits
<1>18. Segment(m) \in Seq(Nibbles)
  <2>1. <<15>> \in Seq(Nibbles)
    BY DEF Nibbles
  <2>2. Upload!SegmentId \in Seq(Nibbles)
    BY Ids DEF IsId
  <2>3. Joins(Nibbles, Upload!SegmentId, <<15>>)
    BY <2>1, <2>2, Joined
  <2>4. Joins(Nibbles, Upload!SegmentId \o <<15>>, WebmInfo(m))
    BY <1>13, <2>3, Joined DEF Joins
  <2>5. QED
    BY <1>14, <2>4 DEF Segment, Fits, Joins
<1>19. QED
  BY <1>2, <1>6, <1>7, <1>9, <1>10, <1>12, <1>13, <1>14, <1>15, <1>16, <1>17, <1>18 DEF WebmFits, x, y

\* A file that holds the start of a WebM file, or all of it.
WebmStart(m, f) ==
  /\ f \in Seq(Nibbles) /\ Len(f) <= Len(Upload!Written(m)) /\ Part(f, 0, Upload!Written(m))

\* Where its elements are, as far as it goes.
BetweenLength(m) == IF m.extra = TRUE THEN 4 ELSE 0
SegmentHead(m) == IF m.form = "open" THEN 5 ELSE HeadLength(Upload!SegmentId, WebmInfo(m))
SegmentAt(m) == 10 + BetweenLength(m)
InfoAt(m) == SegmentAt(m) + SegmentHead(m)
InfoHead(m) == HeadLength(Upload!InfoId, InfoBody(m))
InfoEnd(m) == InfoAt(m) + InfoHead(m) + Len(InfoBody(m))

WebmPlaces(m, f) ==
  /\ Part(f, 0, Ebml) /\ Part(f, 10, Between(m)) /\ Part(f, SegmentAt(m), Segment(m))
  /\ Part(f, InfoAt(m), WebmInfo(m)) /\ Part(f, InfoAt(m) + InfoHead(m), InfoBody(m))
  /\ Len(f) <= InfoEnd(m) /\ Len(Upload!Written(m)) = InfoEnd(m)
  /\ SegmentHead(m) \in 2..6 /\ InfoHead(m) \in 2..6 /\ Len(InfoBody(m)) \in Nat

\* What comes between the header and the segment is of nibbles.
LEMMA BetweenFits ==
  ASSUME NEW m, WebmFields(m)
  PROVE  Between(m) \in Seq(Nibbles) /\ Len(Between(m)) = BetweenLength(m) /\ HeadLength(<<14>>, <<0, 0>>) = 2
<1>1. Fits(<<14>>, <<0, 0>>) /\ Between(m) \in Seq(Nibbles)
  BY WebmIsWhole DEF WebmFits
<1> DEFINE id == <<14>>
           body == <<0, 0>>
<1>2. Len(id) = 1 /\ Len(body) = 2
  OBVIOUS
<1>3. VintIs(2)
  BY VintCells
<1>4. Len(Upload!Vint(2)) = 1
  BY <1>3 DEF VintIs
<1>5. HeadLength(id, body) = 2
  <2>1. Len(Upload!Vint(Len(body))) = 1
    BY <1>2, <1>4
  <2> HIDE DEF id, body
  <2>2. QED
    BY <1>2, <2>1 DEF HeadLength
<1>6. Len(Upload!Element(id, body)) = 4
  BY <1>1, <1>2, <1>5 DEF Fits
<1>7. m.extra = TRUE => Between(m) = Upload!Element(id, body)
  BY DEF Between, Upload!When
<1>8. m.extra # TRUE => Between(m) = <<>>
  BY DEF WebmFields, Between, Upload!When
<1> HIDE DEF id, body
<1>9. Len(Between(m)) = BetweenLength(m)
  BY <1>6, <1>7, <1>8 DEF BetweenLength
<1>10. QED
  BY <1>1, <1>5, <1>9 DEF id, body

\* The segment is its head and what it holds.
SegmentFits(m, f) ==
  /\ SegmentHead(m) \in 2..6 /\ Len(Segment(m)) = SegmentHead(m) + Len(WebmInfo(m))
  /\ Part(f, SegmentAt(m), Segment(m)) =>
       Part(f, SegmentAt(m) + SegmentHead(m), WebmInfo(m))

\* The segment is of nibbles, and its body follows its head.
LEMMA SegmentIsWhole ==
  ASSUME NEW m, WebmFields(m), NEW f \in Seq(Nibbles)
  PROVE  SegmentFits(m, f)
<1> DEFINE o == SegmentAt(m)
           info == WebmInfo(m)
           id == Upload!SegmentId
<1>0. o \in Nat /\ f \in Seq(Nat)
  BY NibblesAreNat DEF SegmentAt, BetweenLength
<1>1. Fits(id, info) /\ info \in Seq(Nibbles)
  BY WebmIsWhole DEF WebmFits
<1> HIDE DEF o
<1>2. CASE m.form # "open"
  <2>1. Segment(m) = Upload!Element(id, info) /\ SegmentHead(m) = HeadLength(id, info)
    BY <1>2 DEF Segment, SegmentHead
  <2>2. IsId(id) /\ Len(info) <= 62
    BY <1>1 DEF Fits
  <2> HIDE DEF id, info
  <2>3. ElementFits(f, o, id, info)
    BY <1>0, <1>1, <2>2, ElementIsSeen
  <2>4. QED
    BY <2>1, <2>3 DEF ElementFits, SegmentFits, o, info
<1>3. CASE m.form = "open"
  <2> DEFINE mark == <<15>>
  <2>1. Segment(m) = id \o mark \o info /\ SegmentHead(m) = 5
    BY <1>3 DEF Segment, SegmentHead
  <2>2. mark \in Seq(Nibbles) /\ Len(mark) = 1
    BY DEF Nibbles
  <2>3. id \in Seq(Nibbles) /\ Len(id) = 4
    <3>1. id \in Seq(Nibbles)
      BY Ids DEF IsId
    <3>2. Len(id) = 4
      BY DEF Upload!SegmentId
    <3>3. QED
      BY <3>1, <3>2
  <2> HIDE DEF id, info, mark
  <2>4. Joins(Nibbles, id, mark)
    BY <2>2, <2>3, Joined
  <2> DEFINE head == id \o mark
  <2>5. head \in Seq(Nibbles) /\ Len(head) = 5
    BY <2>2, <2>3, <2>4 DEF Joins
  <2>6. Segment(m) = head \o info
    BY <2>1
  <2> HIDE DEF head
  <2>7. Joins(Nibbles, head, info)
    BY <1>1, <2>5, Joined
  <2>8. head \in Seq(Nat) /\ info \in Seq(Nat)
    BY <1>1, <2>5, NibblesAreNat
  <2>9. Part(f, o, Segment(m)) => Part(f, o + 5, info)
    <3>1. SUFFICES ASSUME Part(f, o, head \o info) PROVE Part(f, o + 5, info)
      BY <2>6
    <3>2. Follow(f, o, head, 5, info)
      BY <1>0, <2>5, <2>8, <3>1, PartsFollow
    <3>3. QED
      BY <3>2 DEF Follow
  <2>10. Len(Segment(m)) = 5 + Len(info)
    BY <2>5, <2>6, <2>7 DEF Joins
  <2>11. QED
    BY <2>1, <2>9, <2>10 DEF SegmentFits, o, info
<1>4. QED
  BY <1>2, <1>3

\* In a file that begins like a WebM medium each piece lies where it was written.
LEMMA WebmPlaced ==
  ASSUME NEW m, WebmMedium(m), NEW f, WebmStart(m, f)
  PROVE  WebmPlaces(m, f)
<1> DEFINE w == Upload!Written(m)
           between == Between(m)
           segment == Segment(m)
           s == SegmentAt(m)
           b == BetweenLength(m)
<1>1. WebmFields(m)
  BY WebmHolds
<1>2. WebmFits(m)
  BY <1>1, WebmIsWhole
<1>3. f \in Seq(Nibbles) /\ f \in Seq(Nat) /\ Part(f, 0, w) /\ Len(f) <= Len(w)
  BY NibblesAreNat DEF WebmStart
<1>4. w = Ebml \o between \o segment
  BY WebmLaidOut
<1>5. Ebml \in Seq(Nibbles) /\ Len(Ebml) = 10 /\ between \in Seq(Nibbles) /\ segment \in Seq(Nibbles)
  <2>1. Fits(Upload!EbmlId, Doc) /\ HeadLength(Upload!EbmlId, Doc) = 5 /\ Len(Doc) = 5
    BY <1>2 DEF WebmFits
  <2>2. Ebml \in Seq(Nibbles) /\ Len(Ebml) = 5 + 5
    BY <2>1 DEF Fits, Ebml
  <2>3. QED
    BY <1>2, <2>2 DEF WebmFits
<1>6. Len(between) = b /\ s = 10 + b /\ b \in Nat
  BY <1>1, BetweenFits DEF SegmentAt, BetweenLength
<1>7. SegmentFits(m, f)
  BY <1>1, <1>3, SegmentIsWhole
<1> HIDE DEF w, between, segment, s, b
<1>8. Part(f, 0, Ebml) /\ Part(f, 10, between) /\ Part(f, s, segment)
  <2>1. Ebml \o between \o segment = Ebml \o (between \o segment)
    BY ONLY <1>5
  <2>2. Joins(Nibbles, between, segment)
    BY <1>5, Joined
  <2>3. Ebml \in Seq(Nat) /\ between \in Seq(Nat) /\ segment \in Seq(Nat) /\ between \o segment \in Seq(Nat)
    BY <1>5, <2>2, NibblesAreNat DEF Joins
  <2>4. Part(f, 0, Ebml \o (between \o segment))
    BY <1>3, <1>4, <2>1
  <2> DEFINE a == 0
             c == 10
  <2>5. a \in Nat /\ c \in Nat /\ Part(f, a, Ebml \o (between \o segment)) /\ Len(Ebml) = c /\ a + c = c
    BY <1>5, <2>4
  <2> HIDE DEF a, c
  <2>6. Follow(f, a, Ebml, c, between \o segment)
    BY <1>3, <2>3, <2>5, PartsFollow
  <2>7. Part(f, c, between \o segment)
    BY <2>5, <2>6 DEF Follow
  <2>8. Follow(f, c, between, b, segment)
    BY <1>3, <1>6, <2>3, <2>5, <2>7, PartsFollow
  <2>9. Part(f, a, Ebml) /\ Part(f, c, between) /\ Part(f, c + b, segment)
    BY <2>6, <2>8 DEF Follow
  <2>10. QED
    BY <1>6, <2>9 DEF a, c
<1>9. Part(f, InfoAt(m), WebmInfo(m))
  BY <1>7, <1>8 DEF SegmentFits, InfoAt, segment, s
<1>10. InfoAt(m) \in Nat /\ SegmentHead(m) \in 2..6 /\ s \in Nat
  <2>1. SegmentHead(m) \in 2..6
    BY <1>7 DEF SegmentFits
  <2>2. InfoAt(m) = s + SegmentHead(m) /\ s \in Nat
    BY <1>6 DEF InfoAt, s
  <2>3. QED
    BY <2>1, <2>2
<1>11. InfoBody(m) \in Seq(Nibbles) /\ Len(InfoBody(m)) <= 62 /\ IsId(Upload!InfoId)
       /\ InfoHead(m) \in 2..6 /\ Len(WebmInfo(m)) = InfoHead(m) + Len(InfoBody(m))
  <2>1. Fits(Upload!InfoId, InfoBody(m))
    BY <1>2 DEF WebmFits
  <2>2. QED
    BY <2>1 DEF Fits, InfoHead, WebmInfo
<1>12. Part(f, InfoAt(m) + InfoHead(m), InfoBody(m))
  <2>1. ElementFits(f, InfoAt(m), Upload!InfoId, InfoBody(m))
    BY <1>3, <1>10, <1>11, ElementIsSeen
  <2>2. QED
    BY <1>9, <2>1 DEF ElementFits, InfoHead, WebmInfo
<1>13. Len(w) = InfoEnd(m)
  <2>1. Joins(Nibbles, Ebml, between)
    BY <1>5, Joined
  <2>2. Joins(Nibbles, Ebml \o between, segment)
    BY <1>5, <2>1, Joined DEF Joins
  <2>3. Len(w) = 10 + b + (SegmentHead(m) + (InfoHead(m) + Len(InfoBody(m))))
    BY <1>4, <1>5, <1>6, <1>7, <1>11, <2>1, <2>2 DEF Joins, SegmentFits, segment
  <2>4. Len(InfoBody(m)) \in Nat
    BY <1>11
  <2>5. InfoEnd(m) = 10 + b + SegmentHead(m) + InfoHead(m) + Len(InfoBody(m))
    BY DEF InfoEnd, InfoAt, SegmentAt, b
  <2>6. SegmentHead(m) \in Nat /\ InfoHead(m) \in Nat
    BY <1>10, <1>11
  <2>7. \A k, h, g, l \in Nat : 10 + k + (h + (g + l)) = 10 + k + h + g + l
    OBVIOUS
  <2>8. QED
    BY <1>6, <2>3, <2>4, <2>5, <2>6, <2>7
<1>14. Len(InfoBody(m)) \in Nat /\ Len(f) <= InfoEnd(m) /\ Len(Upload!Written(m)) = InfoEnd(m)
  BY <1>3, <1>11, <1>13 DEF w
<1>15. QED
  BY <1>8, <1>9, <1>10, <1>11, <1>12, <1>14 DEF WebmPlaces, between, segment, s

\* What is seen of the header and of the DocType in it.
EbmlHeader == [id |-> Upload!EbmlId, dataStart |-> 5, next |-> 10]
DocType == [id |-> Upload!DocTypeId, dataStart |-> 8, next |-> 10]
HeaderSeen(f) ==
  /\ Part(f, 0, Upload!EbmlId) /\ Part(f, 8, Upload!WebmText)
  /\ Upload!ReadEbmlElement(f, 0) = IF 5 <= Len(f) THEN EbmlHeader ELSE Upload!NoElement
  /\ Upload!ReadEbmlElement(f, 5) = IF 8 <= Len(f) THEN DocType ELSE Upload!NoElement

\* The EBML header and the DocType in it are found.
LEMMA HeaderIsSeen ==
  ASSUME NEW m, WebmFields(m), NEW f \in Seq(Nibbles), Part(f, 0, Ebml)
  PROVE  HeaderSeen(f)
<1>1. WebmFits(m)
  BY WebmIsWhole
<1> DEFINE a == 0
           c == 5
           t == Upload!WebmText
           id == Upload!EbmlId
           it == Upload!DocTypeId
<1>2. Fits(id, Doc) /\ HeadLength(id, Doc) = 5 /\ Len(Doc) = 5 /\ Fits(it, t)
  BY <1>1 DEF WebmFits
<1>3. Len(t) = 2 /\ HeadLength(it, t) = 3
  <2>1. Len(Upload!WebmText) = 2
    BY DEF Upload!WebmText
  <2>2. VintIs(2)
    BY VintCells
  <2>3. Len(Upload!Vint(2)) = 1
    BY <2>2 DEF VintIs
  <2>4. Len(Upload!Vint(Len(Upload!WebmText))) = 1
    BY <2>1, <2>3
  <2>5. Len(Upload!DocTypeId) = 2
    BY DEF Upload!DocTypeId
  <2>6. HeadLength(Upload!DocTypeId, Upload!WebmText) = 3
    BY <2>4, <2>5 DEF HeadLength
  <2>7. QED
    BY <2>1, <2>6
<1>4. a \in Nat /\ c \in Nat /\ a + 5 = c /\ c + 3 = 8
  OBVIOUS
<1>5. Part(f, a, Upload!Element(id, Doc)) /\ Doc = Upload!Element(it, t)
  BY DEF Ebml, Doc
<1> HIDE DEF a, c, t, id, it
<1>6. ElementFits(f, a, id, Doc)
  BY <1>2, <1>4, ElementIsSeen DEF Fits
<1>7. ElementFits(f, c, it, t)
  BY <1>2, <1>4, ElementIsSeen DEF Fits
<1>8. Seen(f, a, id, 5, 5) /\ Part(f, c, Doc) /\ Part(f, a, id)
  BY <1>2, <1>4, <1>5, <1>6 DEF ElementFits
<1>9. Seen(f, c, it, 3, 2) /\ Part(f, 8, t)
  BY <1>3, <1>4, <1>5, <1>7, <1>8 DEF ElementFits
<1>10. QED
  BY <1>8, <1>9 DEF HeaderSeen, Seen, EbmlHeader, DocType, a, c, t, id, it

\* A WebM file is known as one once its DocType has arrived.
WebmIsKnown(f) ==
  /\ Upload!Header(f) = IF 5 <= Len(f) THEN EbmlHeader ELSE Upload!NoElement
  /\ Upload!DetectVideoFormat(f) = IF Len(f) >= 10 THEN "webm" ELSE "none"

\* A file with that header is taken for WebM.
LEMMA WebmIsDetected ==
  ASSUME NEW f \in Seq(Nibbles), HeaderSeen(f)
  PROVE  WebmIsKnown(f)
<1> DEFINE id == Upload!EbmlId
           t == Upload!WebmText
           h == Upload!Header(f)
           d == Upload!FindIn(f, Upload!DocTypeId, h)
<1>0. f \in Seq(Nat) /\ Len(f) \in Nat /\ id \in Seq(Nat) /\ Len(id) = 4 /\ t \in Seq(Nat) /\ Len(t) = 2
      /\ id[1] = 1 /\ id[2] = 10
  BY NibblesAreNat DEF Upload!EbmlId, Upload!WebmText
<1>1. Part(f, 0, id) /\ Part(f, 8, t)
  BY DEF HeaderSeen
<1>2. EbmlHeader # Upload!NoElement /\ DocType # Upload!NoElement
  BY DEF EbmlHeader, DocType, Upload!NoElement
<1>3. Upload!Slice(f, 0, 4) = id <=> 4 <= Len(f)
  <2> HIDE DEF id
  <2> DEFINE a == 0
             e == 4
  <2>1. a \in Nat /\ e = a + Len(id) /\ Len(id) > 0
    BY <1>0
  <2> HIDE DEF a, e
  <2>2. Sliced(f, a, e, id)
    BY <1>0, <2>1, SliceLies
  <2>3. Lies(f, 0, id) <=> 4 <= Len(f)
    BY <1>0, <1>1 DEF Lies, Part, Upload!Has
  <2>4. QED
    BY <2>2, <2>3 DEF Sliced, a, e
<1>4. h = IF 5 <= Len(f) THEN EbmlHeader ELSE Upload!NoElement
  <2>1. Upload!ReadEbmlElement(f, 0) = IF 5 <= Len(f) THEN EbmlHeader ELSE Upload!NoElement
    BY DEF HeaderSeen
  <2>2. 5 <= Len(f) => 4 <= Len(f)
    BY <1>0
  <2>3. QED
    BY <1>3, <2>1, <2>2 DEF Upload!Header
<1>5. Upload!Slice(f, 8, 10) = t <=> 10 <= Len(f)
  <2> HIDE DEF t
  <2> DEFINE a == 8
             e == 10
  <2>1. a \in Nat /\ e = a + Len(t) /\ Len(t) > 0
    BY <1>0
  <2> HIDE DEF a, e
  <2>2. Sliced(f, a, e, t)
    BY <1>0, <2>1, SliceLies
  <2>3. Lies(f, 8, t) <=> 10 <= Len(f)
    BY <1>0, <1>1 DEF Lies, Part, Upload!Has
  <2>4. QED
    BY <2>2, <2>3 DEF Sliced, a, e
<1>6. d = IF 8 <= Len(f) THEN DocType ELSE Upload!NoElement
  <2>1. CASE ~(5 <= Len(f))
    <3>1. ~(8 <= Len(f))
      BY <1>0, <2>1
    <3>2. QED
      BY <1>4, <2>1, <3>1 DEF Upload!FindIn
  <2>2. CASE 5 <= Len(f)
    <3> DEFINE end == Upload!Smaller(10, Len(f))
               it == Upload!DocTypeId
               o == 5
    <3>1. h = EbmlHeader
      BY <1>4, <2>2
    <3>2. d = Upload!FindElement(f, it, 5, end)
      BY <1>2, <3>1 DEF Upload!FindIn, EbmlHeader
    <3>3. end \in Nat /\ (8 <= Len(f) => ~(5 + 2 > end) /\ 5 + 2 <= Len(f))
      BY <1>0 DEF Upload!Smaller
    <3>4. Upload!ReadEbmlElement(f, o) = IF 8 <= Len(f) THEN DocType ELSE Upload!NoElement
      BY DEF HeaderSeen
    <3>5. o \in Nat
      OBVIOUS
    <3> HIDE DEF end, it, h, d
    <3>6. PICK r : FindsElements(r, f, it, end)
      BY <3>3, ElementSearch
    <3>7. d = r[o]
      BY <3>2, <3>6 DEF FindsElements
    <3> HIDE DEF o
    <3>8. Sought(r, f, it, end, o)
      BY <3>3, <3>5, <3>6, SearchStep
    <3>9. CASE 8 <= Len(f)
      <4>1. ~(o + 2 > end) /\ Upload!Has(f, o, 2)
        BY <3>3, <3>9 DEF o, Upload!Has
      <4>2. r[o] = IF DocType.id = it THEN DocType ELSE r[DocType.next]
        BY <1>2, <3>4, <3>8, <3>9, <4>1 DEF Sought
      <4>3. DocType.id = it
        BY DEF DocType, it
      <4>4. QED
        BY <3>7, <3>9, <4>2, <4>3
    <3>10. CASE ~(8 <= Len(f))
      BY <3>4, <3>7, <3>8, <3>10 DEF Sought
    <3>11. QED
      BY <3>9, <3>10
  <2>3. QED
    BY <2>1, <2>2
<1>7. Upload!DetectWebm(f) <=> 10 <= Len(f)
  <2>1. Upload!DetectWebm(f) <=> d # Upload!NoElement /\ Upload!Slice(f, d.dataStart, d.next) = t
    BY DEF Upload!DetectWebm, Upload!IsWebmText
  <2> HIDE DEF d, h
  <2>2. CASE 8 <= Len(f)
    <3>1. d = DocType /\ d.dataStart = 8 /\ d.next = 10
      BY <1>6, <2>2 DEF DocType
    <3>2. QED
      BY <1>2, <1>5, <2>1, <3>1
  <2>3. CASE ~(8 <= Len(f))
    <3>1. d = Upload!NoElement /\ ~(10 <= Len(f))
      BY <1>0, <1>6, <2>3
    <3>2. QED
      BY <2>1, <3>1
  <2>4. QED
    BY <2>2, <2>3
<1>8. ~(Upload!Has(f, 0, 3) /\ Upload!At(f, 1) = 9)
  <2>1. Upload!Has(f, 0, 3) => f[2] = 10
    <3>1. 2 \in 1..Len(id) /\ id[2] = 10
      BY <1>0
    <3>2. Upload!Has(f, 0, 3) => 0 + 2 <= Len(f)
      BY <1>0 DEF Upload!Has
    <3>3. Upload!Has(f, 0, 3) => f[0 + 2] = id[2]
      BY <1>1, <3>1, <3>2 DEF Part
    <3>4. QED
      BY <3>1, <3>3
  <2>2. Upload!At(f, 1) = f[2]
    BY DEF Upload!At
  <2>3. QED
    BY <2>1, <2>2
<1>9. ~Upload!DetectAvi(f)
  <2>1. SUFFICES ASSUME Upload!DetectAvi(f) PROVE FALSE
    OBVIOUS
  <2>2. Len(f) >= 6 /\ f[1] = 8
    BY <1>0, <2>1, OnlyRiffIsAvi
  <2>3. 1 \in 1..Len(id) /\ id[1] = 1 /\ 0 + 1 <= Len(f)
    BY <1>0, <2>2
  <2>4. f[0 + 1] = 1
    BY <1>1, <2>3 DEF Part
  <2>5. QED
    BY <2>2, <2>4
<1>10. Upload!DetectVideoFormat(f) = IF Len(f) >= 10 THEN "webm" ELSE "none"
  <2>1. Len(f) >= 10 <=> 10 <= Len(f)
    BY <1>0
  <2>2. QED
    BY <1>7, <1>8, <1>9, <2>1 DEF Upload!DetectVideoFormat, Upload!Ftyp
<1>11. QED
  BY <1>4, <1>10 DEF WebmIsKnown

\* The element that is read at an offset, h cells of head before its contents.
Headed(f, o, h, e) ==
  /\ Upload!ReadEbmlElement(f, o) = IF o + h <= Len(f) THEN e ELSE Upload!NoElement
  /\ o \in Nat /\ h \in 2..6 /\ e # Upload!NoElement

\* A search finds an element that lies where it begins, and looks past another.
Located(f, id, o, h, e) ==
  /\ e.id = id => Upload!FindElement(f, id, o, Len(f)) = Upload!ReadEbmlElement(f, o)
  /\ e.id # id => Upload!FindElement(f, id, o, Len(f)) =
                    IF o + h <= Len(f) THEN Upload!FindElement(f, id, e.next, Len(f)) ELSE Upload!NoElement

\* A search gives the element it is at, or what it finds after it.
LEMMA Locating ==
  ASSUME NEW f \in Seq(Nibbles), NEW id, NEW o, NEW h, NEW e, Headed(f, o, h, e), e.next \in Nat
  PROVE  Located(f, id, o, h, e)
<1> DEFINE n == Len(f)
<1>0. n \in Nat /\ o \in Nat /\ h \in Nat /\ h >= 2
  BY DEF Headed
<1> HIDE DEF n
<1>1. PICK r : FindsElements(r, f, id, n)
  BY <1>0, ElementSearch
<1>2. Upload!FindElement(f, id, o, n) = r[o] /\ Upload!FindElement(f, id, e.next, n) = r[e.next]
  BY <1>0, <1>1 DEF FindsElements
<1>3. Sought(r, f, id, n, o)
  BY <1>0, <1>1, SearchStep
<1>4. CASE o + h <= n
  <2>1. Upload!ReadEbmlElement(f, o) = e /\ e # Upload!NoElement
    BY <1>4 DEF Headed, n
  <2>2. ~(o + 2 > n)
    BY <1>0, <1>4
  <2>3. Upload!Has(f, o, 2)
    BY <1>0, <2>2 DEF Upload!Has, n
  <2>4. r[o] = IF e.id = id THEN e ELSE r[e.next]
    BY <1>3, <2>1, <2>2, <2>3 DEF Sought
  <2>5. QED
    BY <1>2, <1>4, <2>1, <2>4 DEF Located, n
<1>5. CASE ~(o + h <= n)
  <2>1. Upload!ReadEbmlElement(f, o) = Upload!NoElement
    BY <1>5 DEF Headed, n
  <2>2. r[o] = Upload!NoElement
    BY <1>3, <2>1 DEF Sought
  <2>3. QED
    BY <1>2, <1>5, <2>1, <2>2 DEF Located, n
<1>6. QED
  BY <1>4, <1>5

\* The segment and the Info in it, as they are read.
TheSegment(m, f) ==
  [id |-> Upload!SegmentId, dataStart |-> InfoAt(m), next |-> IF m.form = "open" THEN Len(f) ELSE InfoEnd(m)]
TheInfo(m) ==
  [id |-> Upload!InfoId, dataStart |-> InfoAt(m) + InfoHead(m), next |-> InfoEnd(m)]
TheVoid == [id |-> <<14>>, dataStart |-> 12, next |-> 14]

\* The segment is read from where it was written.
LEMMA SegmentIsSeen ==
  ASSUME NEW m, WebmFields(m), NEW f \in Seq(Nibbles), WebmPlaces(m, f)
  PROVE  Headed(f, SegmentAt(m), SegmentHead(m), TheSegment(m, f))
<1> DEFINE s == SegmentAt(m)
           info == WebmInfo(m)
           id == Upload!SegmentId
<1>0. s \in Nat
  BY DEF SegmentAt, BetweenLength
<1>1. Part(f, s, Segment(m)) /\ SegmentHead(m) \in 2..6
  BY DEF WebmPlaces
<1>2. TheSegment(m, f) # Upload!NoElement
  <2>1. id # <<>>
    BY DEF Upload!SegmentId
  <2>2. TheSegment(m, f).id # Upload!NoElement.id
    BY <2>1 DEF TheSegment, Upload!NoElement
  <2>3. QED
    BY <2>2
<1>3. Fits(id, info) /\ info \in Seq(Nibbles) /\ IsId(id) /\ Len(info) <= 62
  BY WebmIsWhole DEF WebmFits, Fits
<1>4. InfoAt(m) + Len(info) = InfoEnd(m)
  <2>1. Fits(Upload!InfoId, InfoBody(m))
    BY WebmIsWhole DEF WebmFits
  <2>2. Len(info) = InfoHead(m) + Len(InfoBody(m))
    BY <2>1 DEF Fits, WebmInfo, InfoHead
  <2>3. InfoAt(m) \in Nat /\ InfoHead(m) \in Nat /\ Len(InfoBody(m)) \in Nat
    <3>1. InfoHead(m) \in Nat /\ SegmentHead(m) \in Nat /\ Len(InfoBody(m)) \in Nat
      BY DEF WebmPlaces
    <3>2. InfoAt(m) = s + SegmentHead(m)
      BY DEF InfoAt
    <3>3. QED
      BY <1>0, <3>1, <3>2
  <2>4. QED
    BY <2>2, <2>3 DEF InfoEnd
<1> HIDE DEF s, id, info
<1>5. CASE m.form # "open"
  <2>1. Segment(m) = Upload!Element(id, info) /\ SegmentHead(m) = HeadLength(id, info)
    BY <1>5 DEF Segment, SegmentHead, id, info
  <2>2. ElementFits(f, s, id, info)
    BY <1>0, <1>3, ElementIsSeen
  <2>3. Seen(f, s, id, SegmentHead(m), Len(info))
    BY <1>1, <2>1, <2>2 DEF ElementFits
  <2>4. InfoAt(m) = s + SegmentHead(m)
    BY DEF InfoAt, s
  <2>5. TheSegment(m, f) = [id |-> id, dataStart |-> s + SegmentHead(m), next |-> s + SegmentHead(m) + Len(info)]
    BY <1>4, <1>5, <2>4 DEF TheSegment, id
  <2>6. QED
    BY <1>0, <1>1, <1>2, <2>3, <2>5 DEF Headed, Seen, s
<1>6. CASE m.form = "open"
  <2> DEFINE mark == <<15>>
  <2>1. Segment(m) = id \o mark \o info /\ SegmentHead(m) = 5
    BY <1>6 DEF Segment, SegmentHead, id, info
  <2>2. mark \in Seq(Nibbles) /\ Len(mark) = 1 /\ id \in Seq(Nibbles) /\ Len(id) = 4
    BY <1>3 DEF Nibbles, IsId, id, Upload!SegmentId
  <2> HIDE DEF mark
  <2>3. id \o mark \o info = id \o (mark \o info)
    BY ONLY <1>3, <2>2
  <2>4. Joins(Nibbles, mark, info)
    BY <1>3, <2>2, Joined
  <2>5. id \in Seq(Nat) /\ mark \in Seq(Nat) /\ info \in Seq(Nat) /\ mark \o info \in Seq(Nat) /\ f \in Seq(Nat)
    BY <1>3, <2>2, <2>4, NibblesAreNat DEF Joins
  <2>6. Part(f, s, id \o (mark \o info))
    BY <1>1, <2>1, <2>3
  <2>7. Follow(f, s, id, 4, mark \o info)
    BY <1>0, <2>2, <2>5, <2>6, PartsFollow
  <2> DEFINE p == s + 4
  <2>8. p \in Nat /\ Part(f, p, mark \o info) /\ Part(f, s, id)
    BY <1>0, <2>7 DEF Follow
  <2> HIDE DEF p
  <2>9. Follow(f, p, mark, 1, info)
    BY <2>2, <2>5, <2>8, PartsFollow
  <2>10. Part(f, s + Len(id), <<15>>)
    BY <2>2, <2>9 DEF Follow, p, mark
  <2>11. OpenSeen(f, s, id)
    BY <1>0, <1>3, <2>8, <2>10, OpenElementIsSeen
  <2>12. s + Len(id) + 1 = s + SegmentHead(m)
    BY <1>0, <2>1, <2>2
  <2>13. InfoAt(m) = s + SegmentHead(m)
    BY DEF InfoAt, s
  <2>14. TheSegment(m, f) = [id |-> id, dataStart |-> s + SegmentHead(m), next |-> Len(f)]
    BY <1>6, <2>13 DEF TheSegment, id
  <2>15. QED
    BY <1>0, <1>1, <1>2, <2>11, <2>12, <2>14 DEF Headed, OpenSeen, s
<1>7. QED
  BY <1>5, <1>6

\* The Info is found once its head has arrived.
InfoFound(m, f) ==
  Upload!FindIn(f, Upload!InfoId, Upload!FindIn(f, Upload!SegmentId, Upload!Body(f, EbmlHeader))) =
    IF InfoAt(m) + InfoHead(m) <= Len(f) THEN TheInfo(m) ELSE Upload!NoElement

\* The Info element is found in the segment.
LEMMA InfoIsFound ==
  ASSUME NEW m, WebmFields(m), NEW f \in Seq(Nibbles), WebmPlaces(m, f), Len(f) >= 10
  PROVE  InfoFound(m, f)
<1> DEFINE n == Len(f)
           s == SegmentAt(m)
           h == SegmentHead(m)
           i == InfoAt(m)
           g == InfoHead(m)
           id == Upload!SegmentId
           it == Upload!InfoId
           a == Upload!FindIn(f, id, Upload!Body(f, EbmlHeader))
<1>0. n \in Nat /\ n >= 10 /\ s \in Nat /\ s >= 10 /\ h \in 2..6 /\ g \in 2..6 /\ i \in Nat /\ i = s + h /\ n <= InfoEnd(m)
      /\ InfoEnd(m) \in Nat /\ f \in Seq(Nat)
  <2>1. n \in Nat /\ n >= 10 /\ s \in Nat /\ s >= 10
    BY DEF SegmentAt, BetweenLength
  <2>2. h \in 2..6 /\ g \in 2..6 /\ n <= InfoEnd(m) /\ Len(InfoBody(m)) \in Nat
    BY DEF WebmPlaces
  <2>3. i = s + h
    BY DEF InfoAt
  <2>4. InfoEnd(m) = i + g + Len(InfoBody(m))
    BY DEF InfoEnd
  <2> HIDE DEF n, s, h, i, g
  <2>5. i \in Nat
    BY <2>1, <2>2, <2>3
  <2>6. InfoEnd(m) \in Nat
    BY <2>2, <2>4, <2>5
  <2>7. QED
    BY <2>1, <2>2, <2>3, <2>5, <2>6, NibblesAreNat
<1>1. Headed(f, s, h, TheSegment(m, f)) /\ TheSegment(m, f).id = id /\ TheSegment(m, f).next \in Nat
  <2>1. TheSegment(m, f).next \in Nat
    BY <1>0 DEF TheSegment
  <2>2. QED
    BY <2>1, SegmentIsSeen DEF TheSegment
<1>2. Headed(f, i, g, TheInfo(m)) /\ TheInfo(m).id = it /\ TheInfo(m).next \in Nat
  <2>1. Fits(it, InfoBody(m))
    BY WebmIsWhole DEF WebmFits
  <2>2. ElementFits(f, i, it, InfoBody(m))
    BY <1>0, <2>1, ElementIsSeen DEF Fits
  <2>3. Part(f, i, Upload!Element(it, InfoBody(m)))
    BY DEF WebmPlaces, WebmInfo
  <2>4. Seen(f, i, it, g, Len(InfoBody(m)))
    BY <2>2, <2>3 DEF ElementFits, InfoHead
  <2>5. TheInfo(m) = [id |-> it, dataStart |-> i + g, next |-> i + g + Len(InfoBody(m))]
    BY DEF TheInfo, InfoEnd
  <2>6. TheInfo(m).id # Upload!NoElement.id
    BY DEF TheInfo, Upload!NoElement, Upload!InfoId
  <2>7. TheInfo(m).id = it /\ TheInfo(m).next \in Nat
    BY <1>0 DEF TheInfo
  <2>8. QED
    BY <1>0, <2>4, <2>5, <2>6, <2>7 DEF Headed, Seen
<1> HIDE DEF n, s, h, i, g, id, it, a
<1>3. Upload!FindElement(f, id, s, n) = IF i <= n THEN TheSegment(m, f) ELSE Upload!NoElement
  <2>1. Located(f, id, s, h, TheSegment(m, f))
    BY <1>1, Locating
  <2>2. QED
    BY <1>0, <1>1, <2>1 DEF Located, Headed, n
<1>4. Upload!FindElement(f, it, i, n) = IF i + g <= n THEN TheInfo(m) ELSE Upload!NoElement
  <2>1. Located(f, it, i, g, TheInfo(m))
    BY <1>2, Locating
  <2>2. QED
    BY <1>0, <1>2, <2>1 DEF Located, Headed, n
<1>5. a = Upload!FindElement(f, id, 10, n)
  <2>1. Upload!Body(f, EbmlHeader) = [id |-> Upload!EbmlId, dataStart |-> 10, next |-> n]
    <3>1. Upload!Smaller(10, n) = 10
      <4>1. n \in Nat /\ n >= 10
        BY <1>0
      <4>2. 10 < n \/ n = 10
        BY ONLY <4>1
      <4>3. QED
        BY ONLY <4>2 DEF Upload!Smaller
    <3>2. QED
      BY <3>1 DEF Upload!Body, EbmlHeader, n
  <2>2. Upload!Body(f, EbmlHeader) # Upload!NoElement
    <3>1. Upload!EbmlId # <<>>
      BY DEF Upload!EbmlId
    <3>2. Upload!Body(f, EbmlHeader).id # Upload!NoElement.id
      BY <2>1, <3>1 DEF Upload!NoElement
    <3>3. QED
      BY <3>2
  <2>3. Upload!Smaller(n, n) = n
    BY DEF Upload!Smaller
  <2>4. QED
    BY <2>1, <2>2, <2>3 DEF Upload!FindIn, a, n
<1>6. a = IF i <= n THEN TheSegment(m, f) ELSE Upload!NoElement
  <2>1. CASE m.extra # TRUE
    <3>0. BetweenLength(m) = 0
      BY <2>1, Zenon DEF BetweenLength
    <3>1. s = 10
      BY <3>0 DEF s, SegmentAt
    <3>2. QED
      BY <1>3, <1>5, <3>1
  <2>2. CASE m.extra = TRUE
    <3> DEFINE v == <<14>>
               body == <<0, 0>>
               o == 10
    <3>1. s = 14
      BY <2>2 DEF s, SegmentAt, BetweenLength
    <3>2. Fits(v, body) /\ HeadLength(v, body) = 2 /\ Len(body) = 2 /\ v # id /\ v # <<>> /\ o \in Nat
      <4>1. Len(v) = 1 /\ Len(id) = 4 /\ Len(<<>>) = 0
        BY DEF id, Upload!SegmentId
      <4>2. v # id /\ v # <<>>
        BY <4>1
      <4>3. QED
        BY <4>2, BetweenFits, WebmIsWhole DEF WebmFits
    <3>3. Part(f, o, Upload!Element(v, body))
      BY <2>2 DEF WebmPlaces, Between, Upload!When
    <3> HIDE DEF v, body, o
    <3>4. ElementFits(f, o, v, body)
      BY <3>2, ElementIsSeen DEF Fits
    <3>5. Seen(f, o, v, 2, 2)
      BY <3>2, <3>3, <3>4 DEF ElementFits
    <3>6. TheVoid = [id |-> v, dataStart |-> o + 2, next |-> o + 2 + 2]
      BY DEF TheVoid, v, o
    <3>7. TheVoid # Upload!NoElement /\ TheVoid.id # id /\ TheVoid.next = 14 /\ TheVoid.next \in Nat
      <4>1. TheVoid.id = v /\ TheVoid.next = 14 /\ Upload!NoElement.id = <<>>
        BY <3>6 DEF TheVoid, Upload!NoElement
      <4>2. QED
        BY <3>2, <4>1
    <3> DEFINE two == 2
    <3>8. Headed(f, o, two, TheVoid)
      BY <3>2, <3>5, <3>6, <3>7 DEF Headed, Seen
    <3> HIDE DEF two
    <3>9. Located(f, id, o, two, TheVoid)
      BY <3>7, <3>8, Locating
    <3>10. Upload!FindElement(f, id, o, n) =
             IF o + two <= n THEN Upload!FindElement(f, id, 14, n) ELSE Upload!NoElement
      BY <3>7, <3>9 DEF Located, n
    <3>11. i <= n => o + two <= n
      <4>1. h \in Nat
        BY <1>0
      <4>2. QED
        BY <1>0, <3>1, <4>1 DEF o, two
    <3>12. QED
      BY <1>3, <1>5, <3>1, <3>10, <3>11 DEF o
  <2>3. QED
    BY <2>1, <2>2
<1>7. CASE i <= n
  <2>1. a = TheSegment(m, f) /\ a # Upload!NoElement
    BY <1>1, <1>6, <1>7 DEF Headed
  <2>2. a.dataStart = i /\ Upload!Smaller(a.next, n) = n
    <3>1. a.dataStart = i /\ a.next = (IF m.form = "open" THEN n ELSE InfoEnd(m))
      BY <2>1 DEF TheSegment, i, n
    <3>2. QED
      BY <1>0, <3>1 DEF Upload!Smaller
  <2>3. Upload!FindIn(f, it, a) = Upload!FindElement(f, it, i, n)
    BY <2>1, <2>2 DEF Upload!FindIn, n
  <2>4. QED
    BY <1>4, <2>3 DEF InfoFound, a, i, g, n, id, it
<1>8. CASE ~(i <= n)
  <2>1. a = Upload!NoElement
    BY <1>6, <1>8
  <2>2. Upload!FindIn(f, it, a) = Upload!NoElement
    BY <2>1 DEF Upload!FindIn
  <2>3. ~(i + g <= n)
    <3>1. g \in Nat
      BY <1>0
    <3>2. QED
      BY <1>0, <1>8, <3>1
  <2>4. QED
    BY <2>2, <2>3 DEF InfoFound, a, i, g, n, id, it
<1>9. QED
  BY <1>7, <1>8

\* An element of Info, as it is passed.
ThisElement(o, id, body) ==
  [id |-> id, dataStart |-> o + HeadLength(id, body), next |-> o + HeadLength(id, body) + Len(body)]
Passes(r, f, o, scale, id, body) ==
  r[<<o, scale, 0>>] =
    IF o + HeadLength(id, body) + Len(body) <= Len(f)
    THEN r[Past(f, ThisElement(o, id, body), <<o, scale, 0>>)] ELSE Upload!Null

\* r reads an Info that reaches to the end of the file.
ReadsLast(r, f) ==
  \A p \in Upload!Progress : r[p] = InfoStep(f, p, Len(f), r)

\* Reading Info goes past an element that fits, to what follows it.
LEMMA PassingElement ==
  ASSUME NEW f \in Seq(Nibbles), NEW r, ReadsLast(r, f), NEW o \in Nat, NEW scale \in Nat,
         NEW id, NEW body \in Seq(Nibbles), Fits(id, body), Part(f, o, Upload!Element(id, body))
  PROVE  Passes(r, f, o, scale, id, body)
<1> DEFINE n == Len(f)
           h == HeadLength(id, body)
           l == o + h + Len(body)
           p == <<o, scale, 0>>
           e == Upload!ReadEbmlElement(f, o)
<1>1. ElementFits(f, o, id, body)
  BY ElementIsSeen DEF Fits
<1>2. Seen(f, o, id, h, Len(body)) /\ h \in 2..6
  BY <1>1 DEF ElementFits
<1>3. n \in Nat /\ h \in Nat /\ h >= 2 /\ l \in Nat /\ Len(body) \in Nat
  <2>1. h \in Nat /\ h >= 2 /\ Len(body) \in Nat /\ n \in Nat
    BY <1>2
  <2> HIDE DEF h, n
  <2>2. QED
    BY <2>1
<1>4. p \in Upload!Progress /\ p[1] = o /\ p[2] = scale /\ p[3] = 0
  BY DEF Upload!Progress
<1>5. r[p] = InfoStep(f, p, n, r)
  BY <1>4 DEF ReadsLast
<1>6. id # <<>>
  <2>1. Len(id) \in 1..4
    BY DEF Fits, IsId
  <2>2. \A k \in 1..4 : k # 0
    OBVIOUS
  <2>4. Len(id) # 0
    BY ONLY <2>1, <2>2
  <2>5. QED
    BY <2>4
<1> HIDE DEF p, n, h
<1>7. CASE ~(l <= n)
  <2>1. CASE o + 2 > n
    BY <1>4, <1>5, <1>7, <2>1 DEF InfoStep, Upload!NoDuration, Passes, p, n, h
  <2>2. CASE ~(o + 2 > n)
    <3>1. e = Upload!NoElement \/ e.next > n
      <4>1. CASE o + h <= n
        <5>1. e.next = l
          BY <1>2, <4>1 DEF Seen, n
        <5>2. QED
          BY <1>3, <1>7, <5>1
      <4>2. CASE ~(o + h <= n)
        BY <1>2, <4>2 DEF Seen, n
      <4>3. QED
        BY <4>1, <4>2
    <3> HIDE DEF e
    <3>2. InfoStep(f, p, n, r) = Upload!Null
      BY <1>4, <2>2, <3>1 DEF InfoStep, e, n
    <3>3. QED
      BY <1>5, <1>7, <3>2 DEF Passes, p, n, h
  <2>3. QED
    BY <2>1, <2>2
<1>8. CASE l <= n
  <2>1. o + h <= n /\ ~(o + 2 > n)
    BY <1>3, <1>8
  <2>2. e = ThisElement(o, id, body)
    BY <1>2, <2>1 DEF Seen, ThisElement, n, h
  <2>3. e # Upload!NoElement /\ ~(e.next > n)
    <3>1. e.id = id /\ e.next = l
      BY <2>2 DEF ThisElement, h
    <3>2. e # Upload!NoElement
      BY <1>6, <3>1 DEF Upload!NoElement
    <3>3. QED
      BY <1>3, <1>8, <3>1, <3>2
  <2> HIDE DEF e
  <2>4. InfoStep(f, p, n, r) = r[Past(f, e, p)]
    BY <1>4, <2>1, <2>3 DEF InfoStep, e, n
  <2>5. QED
    BY <1>5, <1>8, <2>2, <2>4 DEF Passes, p, n, h
<1>9. QED
  BY <1>7, <1>8

\* What an Info that has arrived as a whole gives.
Final(m, f) ==
  IF Len(f) = InfoEnd(m) /\ m.x # 0 THEN Upload!Read(m.x * m.y, 4) ELSE Upload!Null
Gives(r, m, f, o, scale) == r[<<o, scale, 0>>] = Final(m, f)

\* The duration is last.
LEMMA LengthIsTaken ==
  ASSUME NEW m, WebmFields(m), NEW f \in Seq(Nibbles), NEW r, ReadsLast(r, f), Len(f) <= InfoEnd(m),
         NEW o \in Nat, Part(f, o, Length(m)), o + Len(Length(m)) = InfoEnd(m)
  PROVE  Gives(r, m, f, o, m.y)
<1> DEFINE x == Upload!Big(m.x, Width(m), 16)
           id == Upload!DurationId
           h == HeadLength(id, x)
           e == ThisElement(o, id, x)
           n == Len(f)
           b == Width(m)
           p == <<o, m.y, 0>>
<1>1. Fits(id, x)
  BY WebmIsWhole DEF WebmFits
<1>2. m.x \in Nat /\ m.y \in Nat /\ m.x \notin {15, 255} /\ b \in {1, 2} /\ NumberFits(m.x, b)
  <2>1. /\ m.x \in Nat /\ m.y \in Nat /\ m.x \notin {15, 255}
        /\ b = 1 => m.x < 16
        /\ b = 2 => m.x < 256
    BY DEF WebmFields
  <2>2. b \in {1, 2}
    BY DEF Width
  <2> HIDE DEF b
  <2>3. NumberFits(m.x, b)
    BY <2>1, <2>2, NumberIsRead
  <2>4. QED
    BY <2>1, <2>2, <2>3
<1>3. x \in Seq(Nibbles) /\ Len(x) = b
  BY <1>2 DEF NumberFits
<1>4. f \in Seq(Nat) /\ n \in Nat /\ n <= InfoEnd(m)
  BY NibblesAreNat
<1>5. Part(f, o, Upload!Element(id, x)) /\ Len(Upload!Element(id, x)) = h + b /\ h \in Nat
      /\ o + Len(Upload!Element(id, x)) = InfoEnd(m)
  BY <1>1, <1>3 DEF Length, Fits
<1>6. Passes(r, f, o, m.y, id, x)
  BY <1>1, <1>2, <1>3, <1>5, PassingElement
<1>7. Part(f, o + h, x)
  <2> HIDE DEF x, id
  <2>1. ElementFits(f, o, id, x)
    BY <1>1, ElementIsSeen DEF Fits
  <2>2. QED
    BY <1>5, <2>1 DEF ElementFits
<1> HIDE DEF x, id, h, n, b
<1>8. o + h + b = InfoEnd(m) /\ o + h \in Nat /\ b \in Nat
  BY <1>2, <1>5
<1>9. CASE n # InfoEnd(m)
  <2>1. ~(o + h + b <= n)
    BY <1>4, <1>8, <1>9
  <2>2. r[<<o, m.y, 0>>] = Upload!Null
    BY <1>3, <1>6, <2>1 DEF Passes, h, n
  <2>3. Final(m, f) = Upload!Null
    BY <1>9 DEF Final, n
  <2>4. QED
    BY <2>2, <2>3 DEF Gives
<1>10. CASE n = InfoEnd(m)
  <2>1. o + h + b <= n
    BY <1>4, <1>8, <1>10
  <2>2. r[<<o, m.y, 0>>] = r[Past(f, e, p)]
    BY <1>3, <1>6, <2>1 DEF Passes, h, n
  <2>3. Upload!BE(f, o + h, b, 16) = m.x
    BY <1>2, <1>4, <1>7, <1>8, <2>1 DEF NumberFits, x, b, n
  <2>4. e.id = id /\ e.dataStart = o + h /\ e.next = o + h + b
    BY <1>3 DEF ThisElement, h
  <2>5. e.next - e.dataStart = b
    BY <1>8, <2>4
  <2>6. id # Upload!TimecodeScaleId
    <3>1. id[1] = 4 /\ Upload!TimecodeScaleId[1] = 2
      BY DEF id, Upload!DurationId, Upload!TimecodeScaleId
    <3>2. id[1] # Upload!TimecodeScaleId[1]
      BY <3>1
    <3>3. QED
      BY <3>2, Zenon
  <2> HIDE DEF e
  <2>7. NumberOf(f, e, Upload!TimecodeScaleId, m.y) = m.y
    BY <2>4, <2>6 DEF NumberOf
  <2>8. NumberOf(f, e, Upload!DurationId, 0) = m.x
    BY <1>2, <2>3, <2>4, <2>5 DEF NumberOf, id
  <2>9. Past(f, e, p) = <<InfoEnd(m), m.y, m.x>>
    BY <1>8, <2>4, <2>7, <2>8 DEF Past
  <2> DEFINE q == <<InfoEnd(m), m.y, m.x>>
  <2>10. InfoEnd(m) \in Nat
    BY <1>4, <1>10
  <2>11. q \in Upload!Progress /\ q[1] = InfoEnd(m) /\ q[2] = m.y /\ q[3] = m.x
    BY <1>2, <2>10 DEF Upload!Progress
  <2> HIDE DEF q
  <2>12. r[q] = InfoStep(f, q, n, r)
    BY <2>11 DEF ReadsLast, n
  <2>13. q[1] + 2 > n
    BY <1>10, <2>10, <2>11
  <2>14. r[q] = IF m.x \in Upload!NoDuration THEN Upload!Null ELSE Upload!Read(m.x * m.y, 4)
    BY <2>11, <2>12, <2>13 DEF InfoStep
  <2>15. Upload!NoDuration = {0, 15, 255}
    BY DEF Upload!NoDuration, Upload!Ones, Upload!Base, Upload!Narrow, Upload!Wide
  <2>16. m.x \in Upload!NoDuration <=> m.x = 0
    BY <1>2, <2>15
  <2>17. r[q] = IF m.x = 0 THEN Upload!Null ELSE Upload!Read(m.x * m.y, 4)
    BY <2>14, <2>16
  <2>18. r[q] = Final(m, f)
    BY <1>10, <2>17 DEF Final, n
  <2>19. QED
    BY <2>2, <2>9, <2>18 DEF Gives, q
<1>11. QED
  BY <1>9, <1>10

\* The scale, where it is written, comes before it.
LEMMA ScaleIsTaken ==
  ASSUME NEW m, WebmFields(m), NEW f \in Seq(Nibbles), NEW r, ReadsLast(r, f), Len(f) <= InfoEnd(m),
         NEW o \in Nat, Part(f, o, ScalePart(m) \o Length(m)),
         o + Len(ScalePart(m)) + Len(Length(m)) = InfoEnd(m)
  PROVE  Gives(r, m, f, o, 2)
<1> DEFINE y == Upload!Big(m.y, Width(m), 16)
           id == Upload!TimecodeScaleId
           h == HeadLength(id, y)
           e == ThisElement(o, id, y)
           n == Len(f)
           b == Width(m)
           s == ScalePart(m)
           l == Length(m)
           p == <<o, 2, 0>>
<1>1. WebmFits(m)
  BY WebmIsWhole
<1>2. Fits(id, y) /\ s \in Seq(Nibbles) /\ l \in Seq(Nibbles)
  BY <1>1 DEF WebmFits
<1>3. m.y \in Nat /\ b \in {1, 2} /\ NumberFits(m.y, b) /\ m.extra \in BOOLEAN
  <2>1. /\ m.y \in Nat /\ m.extra \in BOOLEAN
        /\ b = 1 => m.y < 16
        /\ b = 2 => m.y < 256
    BY DEF WebmFields
  <2>2. b \in {1, 2}
    BY DEF Width
  <2> HIDE DEF b
  <2>3. NumberFits(m.y, b)
    BY <2>1, <2>2, NumberIsRead
  <2>4. QED
    BY <2>1, <2>2, <2>3
<1>4. f \in Seq(Nat) /\ n \in Nat /\ n <= InfoEnd(m)
  BY NibblesAreNat
<1>5. Part(f, o, s) /\ Part(f, o + Len(s), l) /\ Len(s) \in Nat
  <2> HIDE DEF s, l
  <2>1. s \in Seq(Nat) /\ l \in Seq(Nat)
    BY <1>2, NibblesAreNat
  <2>2. Part(f, o, s \o l)
    BY DEF s, l
  <2>3. Follow(f, o, s, Len(s), l)
    BY <1>4, <2>1, <2>2, PartsFollow
  <2>4. QED
    BY <1>2, <2>3 DEF Follow
<1>6. Gives(r, m, f, o + Len(s), m.y)
  <2>1. o + Len(s) + Len(l) = InfoEnd(m)
    OBVIOUS
  <2> DEFINE c == o + Len(s)
  <2>2. c \in Nat /\ Part(f, c, Length(m)) /\ c + Len(Length(m)) = InfoEnd(m)
    <3>1. Len(s) \in Nat
      BY <1>5
    <3> HIDE DEF s
    <3>2. QED
      BY <1>5, <2>1, <3>1
  <2> HIDE DEF c, s, l
  <2>3. Gives(r, m, f, c, m.y)
    BY <2>2, LengthIsTaken
  <2>4. QED
    BY <2>3 DEF c
<1>7. CASE ~(m.y # 2 \/ m.extra)
  <2>1. s = <<>> /\ m.y = 2
    BY <1>7 DEF ScalePart, Upload!When
  <2>2. o + Len(s) = o
    BY <2>1
  <2>3. QED
    BY <1>6, <2>1, <2>2
<1>8. CASE m.y # 2 \/ m.extra
  <2>1. s = Upload!Element(id, y)
    BY <1>8 DEF ScalePart, Upload!When, Scale
  <2>2. y \in Seq(Nibbles) /\ Len(y) = b /\ Len(s) = h + b /\ h \in Nat
    BY <1>2, <1>3, <2>1 DEF NumberFits, Fits
  <2> DEFINE two == 2
  <2> HIDE DEF two, y, id, s, h, b, n
  <2>0. two \in Nat
    BY DEF two
  <2>3. Passes(r, f, o, two, id, y)
    BY <1>2, <1>5, <2>0, <2>1, <2>2, PassingElement
  <2>4. Part(f, o + h, y)
    <3>1. ElementFits(f, o, id, y)
      BY <1>2, ElementIsSeen DEF Fits
    <3>2. QED
      BY <1>5, <2>1, <3>1 DEF ElementFits, h
  <2>5. o + Len(s) = o + h + b /\ o + h \in Nat /\ b \in Nat
    BY <1>3, <2>2
  <2>6. r[p] = IF o + h + b <= n THEN r[Past(f, e, p)] ELSE Upload!Null
    BY <2>2, <2>3 DEF Passes, h, n, two
  <2>7. CASE ~(o + h + b <= n)
    <3>1. Len(l) \in Nat
      BY <1>2
    <3>2. InfoEnd(m) = o + h + b + Len(l)
      BY <2>5 DEF s
    <3>3. n # InfoEnd(m)
      <4>1. \A i, j \in Nat : n = i + j => i <= n
        OBVIOUS
      <4>2. o + h + b \in Nat
        BY <2>5
      <4>3. QED
        BY <2>7, <3>1, <3>2, <4>1, <4>2
    <3>4. Final(m, f) = Upload!Null
      BY <3>3 DEF Final, n
    <3>5. QED
      BY <2>6, <2>7, <3>4 DEF Gives
  <2>8. CASE o + h + b <= n
    <3>1. Upload!BE(f, o + h, b, 16) = m.y
      BY <1>3, <1>4, <2>4, <2>5, <2>8 DEF NumberFits, y, b, n
    <3>2. e.id = id /\ e.dataStart = o + h /\ e.next = o + h + b
      BY <2>2 DEF ThisElement, h
    <3>3. e.next - e.dataStart = b
      BY <2>5, <3>2
    <3>4. id # Upload!DurationId
      <4>1. id[1] = 2 /\ Upload!DurationId[1] = 4
        BY DEF id, Upload!DurationId, Upload!TimecodeScaleId
      <4>2. id[1] # Upload!DurationId[1]
        BY <4>1
      <4>3. QED
        BY <4>2, Zenon
    <3> HIDE DEF e
    <3>5. NumberOf(f, e, Upload!TimecodeScaleId, 2) = m.y
      BY <1>3, <3>1, <3>2, <3>3 DEF NumberOf, id
    <3>6. NumberOf(f, e, Upload!DurationId, 0) = 0
      BY <3>2, <3>4 DEF NumberOf
    <3>7. Past(f, e, p) = <<o + Len(s), m.y, 0>>
      BY <2>5, <3>2, <3>5, <3>6 DEF Past
    <3>8. r[p] = r[<<o + Len(s), m.y, 0>>]
      BY <2>6, <2>8, <3>7
    <3>9. QED
      BY <1>6, <3>8 DEF Gives, s
  <2>9. QED
    BY <2>7, <2>8
<1>9. QED
  BY <1>7, <1>8

\* What is to be skipped comes first.
LEMMA InfoIsTaken ==
  ASSUME NEW m, WebmFields(m), NEW f \in Seq(Nibbles), NEW r, ReadsLast(r, f), Len(f) <= InfoEnd(m),
         NEW o \in Nat, Part(f, o, InfoBody(m)), o + Len(InfoBody(m)) = InfoEnd(m)
  PROVE  Gives(r, m, f, o, 2)
<1> DEFINE id == <<4, 13>>
           z == <<0>>
           h == HeadLength(id, z)
           e == ThisElement(o, id, z)
           n == Len(f)
           v == VoidPart(m)
           s == ScalePart(m)
           l == Length(m)
           p == <<o, 2, 0>>
<1>1. WebmFits(m)
  BY WebmIsWhole
<1>2. Fits(id, z) /\ v \in Seq(Nibbles) /\ s \in Seq(Nibbles) /\ l \in Seq(Nibbles)
  BY <1>1 DEF WebmFits
<1>3. m.extra \in BOOLEAN
  BY DEF WebmFields
<1>4. f \in Seq(Nat) /\ n \in Nat /\ n <= InfoEnd(m)
  BY NibblesAreNat
<1>5. z \in Seq(Nibbles) /\ Len(z) = 1 /\ Len(id) = 2
  BY DEF Nibbles
<1>6. v = Upload!When(m.extra, Upload!Element(id, z))
  BY DEF VoidPart, Void
<1> HIDE DEF v, s, l, id, z, n
<1>7. Joins(Nibbles, s, l)
  BY <1>2, Joined
<1>8. Joins(Nibbles, v, s \o l)
  BY <1>2, <1>7, Joined DEF Joins
<1>9. Part(f, o, v) /\ Part(f, o + Len(v), s \o l) /\ Len(v) \in Nat
  <2>1. v \in Seq(Nat) /\ s \o l \in Seq(Nat)
    BY <1>2, <1>7, NibblesAreNat DEF Joins
  <2>2. Part(f, o, v \o (s \o l))
    BY DEF InfoBody, v, s, l
  <2>3. Follow(f, o, v, Len(v), s \o l)
    BY <1>4, <2>1, <2>2, PartsFollow
  <2>4. QED
    BY <1>2, <2>3 DEF Follow
<1>10. o + Len(v) + Len(s) + Len(l) = InfoEnd(m) /\ Len(s) \in Nat /\ Len(l) \in Nat
  <2>1. Len(InfoBody(m)) = Len(v) + (Len(s) + Len(l))
    BY <1>7, <1>8 DEF Joins, InfoBody, v, s, l
  <2>2. Len(v) \in Nat /\ Len(s) \in Nat /\ Len(l) \in Nat
    BY <1>2
  <2>3. QED
    BY <2>1, <2>2
<1>11. Gives(r, m, f, o + Len(v), 2)
  <2> DEFINE c == o + Len(v)
  <2>1. c \in Nat /\ Part(f, c, ScalePart(m) \o Length(m)) /\ c + Len(ScalePart(m)) + Len(Length(m)) = InfoEnd(m)
    BY <1>9, <1>10 DEF s, l
  <2> HIDE DEF c
  <2>2. Gives(r, m, f, c, 2)
    BY <2>1, ScaleIsTaken
  <2>3. QED
    BY <2>2 DEF c
<1>12. CASE ~m.extra
  <2>1. v = <<>>
    BY <1>6, <1>12 DEF Upload!When
  <2>2. o + Len(v) = o
    BY <2>1
  <2>3. QED
    BY <1>11, <2>2
<1>13. CASE m.extra
  <2>1. v = Upload!Element(id, z)
    BY <1>6, <1>13 DEF Upload!When
  <2>2. Len(v) = h + 1 /\ h \in Nat
    BY <1>2, <1>5, <2>1 DEF Fits
  <2> DEFINE two == 2
  <2> HIDE DEF two, h
  <2>0. two \in Nat
    BY DEF two
  <2>3. Passes(r, f, o, two, id, z)
    BY <1>2, <1>5, <1>9, <2>0, <2>1, PassingElement
  <2>4. o + Len(v) = o + h + 1 /\ o + h + 1 \in Nat
    BY <2>2
  <2>5. r[p] = IF o + h + 1 <= n THEN r[Past(f, e, p)] ELSE Upload!Null
    BY <1>5, <2>3 DEF Passes, h, n, two
  <2>6. CASE ~(o + h + 1 <= n)
    <3>1. n # InfoEnd(m)
      <4>1. \A i, j, k \in Nat : n = i + j + k => i <= n
        OBVIOUS
      <4>2. InfoEnd(m) = (o + h + 1) + Len(s) + Len(l)
        BY <1>10, <2>4
      <4>3. QED
        BY <1>10, <2>4, <2>6, <4>1, <4>2
    <3>2. Final(m, f) = Upload!Null
      BY <3>1 DEF Final, n
    <3>3. QED
      BY <2>5, <2>6, <3>2 DEF Gives
  <2>7. CASE o + h + 1 <= n
    <3>1. e.id = id /\ e.next = o + Len(v)
      BY <1>5, <2>4 DEF ThisElement, h
    <3>2. id \notin {Upload!TimecodeScaleId, Upload!DurationId}
      <4>1. id[2] = 13 /\ Upload!TimecodeScaleId[2] = 10 /\ Upload!DurationId[2] = 8
        BY DEF id, Upload!DurationId, Upload!TimecodeScaleId
      <4>2. id[2] # Upload!TimecodeScaleId[2] /\ id[2] # Upload!DurationId[2]
        BY <4>1
      <4>3. QED
        BY <4>2, Zenon
    <3> HIDE DEF e
    <3>3. \A i, old : NumberOf(f, e, i, old) = old
      BY <3>1, <3>2 DEF NumberOf
    <3>4. Past(f, e, p) = <<o + Len(v), 2, 0>>
      BY <3>1, <3>3 DEF Past
    <3>5. QED
      BY <1>11, <2>5, <2>7, <3>4 DEF Gives
  <2>8. QED
    BY <2>6, <2>7
<1>14. QED
  BY <1>3, <1>12, <1>13

\* The duration of a WebM file is read as it was written once all of it has arrived.
LEMMA WebmReading ==
  ASSUME NEW m, WebmMedium(m), NEW f, WebmStart(m, f), Len(f) >= 10
  PROVE  TrueDuration(Upload!ReadWebmDuration(f), m, Len(f) = Len(Upload!Written(m)))
<1>1. WebmFields(m) /\ WebmPlaces(m, f) /\ f \in Seq(Nibbles)
  BY WebmHolds, WebmPlaced DEF WebmStart
<1>2. Upload!Header(f) = EbmlHeader
  <2>1. HeaderSeen(f)
    BY <1>1, HeaderIsSeen DEF WebmPlaces
  <2>2. WebmIsKnown(f)
    BY <1>1, <2>1, WebmIsDetected
  <2>3. Len(f) \in Nat
    BY <1>1
  <2>4. 5 <= Len(f)
    BY <2>3
  <2>5. QED
    BY <2>2, <2>4 DEF WebmIsKnown
<1> DEFINE d == Upload!ReadWebmDuration(f)
           o == InfoAt(m) + InfoHead(m)
           info == IF o <= Len(f) THEN TheInfo(m) ELSE Upload!NoElement
<1>3. d = Upload!ReadInfo(f, info)
  <2>1. InfoFound(m, f)
    BY <1>1, InfoIsFound
  <2>2. QED
    BY <1>2, <2>1 DEF Upload!ReadWebmDuration, InfoFound
<1>4. InfoAt(m) \in Nat /\ o \in Nat /\ Len(InfoBody(m)) \in Nat /\ InfoEnd(m) = o + Len(InfoBody(m))
      /\ Len(f) \in Nat /\ Len(f) <= InfoEnd(m) /\ Len(Upload!Written(m)) = InfoEnd(m)
  <2>1. SegmentHead(m) \in Nat /\ InfoHead(m) \in Nat /\ Len(InfoBody(m)) \in Nat
    BY <1>1 DEF WebmPlaces
  <2>2. SegmentAt(m) \in Nat
    BY DEF SegmentAt, BetweenLength
  <2>3. InfoAt(m) \in Nat
    BY <2>1, <2>2 DEF InfoAt
  <2>4. o \in Nat
    BY <2>1, <2>3
  <2>5. QED
    BY <1>1, <2>1, <2>3, <2>4 DEF WebmPlaces, InfoEnd
<1> HIDE DEF d, o, info
<1>5. d = Final(m, f)
  <2>1. CASE ~(o <= Len(f))
    <3>1. info = Upload!NoElement
      BY <2>1 DEF info
    <3>2. Upload!ReadInfo(f, Upload!NoElement) = Upload!Null
      BY Zenon DEF Upload!ReadInfo
    <3>3. Len(f) # InfoEnd(m)
      BY <1>4, <2>1
    <3>4. QED
      BY <1>3, <3>1, <3>2, <3>3 DEF Final
  <2>2. CASE o <= Len(f)
    <3>1. info = [id |-> Upload!InfoId, dataStart |-> o, next |-> InfoEnd(m)]
      BY <2>2 DEF info, TheInfo, o
    <3>2. info \in Elements /\ info # Upload!NoElement
      <4>1. Upload!InfoId \in Seq(Nat) /\ Upload!InfoId # <<>> /\ InfoEnd(m) \in Nat
        BY <1>4 DEF Upload!InfoId
      <4>2. info.id # Upload!NoElement.id
        BY <3>1, <4>1 DEF Upload!NoElement
      <4>3. QED
        BY <1>4, <3>1, <4>1, <4>2 DEF Elements
    <3>3. PICK r : ReadsInfo(r, f, info)
      BY <1>1, <3>2, InfoReading
    <3>4. Upload!Smaller(info.next, Len(f)) = Len(f)
      <4>1. info.next = InfoEnd(m) /\ InfoEnd(m) \in Nat
        BY <1>4, <3>1
      <4>2. QED
        BY <1>4, <4>1 DEF Upload!Smaller
    <3>5. ReadsLast(r, f)
      BY <3>3, <3>4 DEF ReadsInfo, ReadsLast
    <3>6. d = r[<<o, 2, 0>>]
      BY <1>3, <3>1, <3>2, <3>3 DEF ReadsInfo
    <3>7. Part(f, o, InfoBody(m))
      BY <1>1 DEF WebmPlaces, o
    <3>8. Gives(r, m, f, o, 2)
      BY <1>1, <1>4, <3>5, <3>7, InfoIsTaken
    <3>9. QED
      BY <3>6, <3>8 DEF Gives
  <2>3. QED
    BY <2>1, <2>2
<1>6. Upload!Duration(m) = Upload!Read(m.x * m.y, 4)
  BY DEF WebmMedium, Upload!Duration, Upload!ScalesPerSecond
<1>7. m.x \in Nat /\ m.y \in Nat /\ m.y > 0
  BY <1>1 DEF WebmFields
<1>8. m.x * m.y \in Nat /\ (m.x = 0 => m.x * m.y = 0) /\ (m.x # 0 => m.x * m.y > 0)
  <2>1. \A x, y \in Nat : x > 0 /\ y > 0 => x * y > 0
    OBVIOUS
  <2>2. m.x = 0 => m.x * m.y = 0
    BY <1>7
  <2>3. m.x # 0 => m.x > 0
    BY <1>7
  <2>4. QED
    BY <1>7, <2>1, <2>2, <2>3, Product
<1> DEFINE v == m.x * m.y
<1> HIDE DEF v
<1>9. QED
  <2>1. Upload!Duration(m) = [is |-> "read", num |-> v, den |-> 4]
    BY <1>6 DEF v, Upload!Read
  <2>2. d = IF Len(f) = Len(Upload!Written(m)) /\ m.x # 0 THEN Upload!Duration(m) ELSE Upload!Null
    BY <1>4, <1>5, <1>6 DEF Final
  <2>3. v \in Nat /\ (m.x = 0 => v = 0) /\ (m.x # 0 => v > 0)
    BY <1>8 DEF v
  <2>4. QED
    BY <2>1, <2>2, <2>3 DEF TrueDuration, d

AviMedium(m) == Upload!Conforms(m) /\ m.format = "avi"

\* What the fields of an AVI file hold.
AviFields(m) ==
  m.x \in Nat /\ m.y \in Nat /\ m.x < 256 /\ m.y < 256 /\ m.extra \in BOOLEAN

\* An AVI medium that conforms has the fields its layout needs.
LEMMA AviHolds ==
  ASSUME NEW m, AviMedium(m)
  PROVE  AviFields(m)
<1>1. m.x \in Nat /\ m.y \in Nat /\ m.extra \in BOOLEAN /\ {m.x, m.y} \subseteq 0..Upload!Ones(2)
  BY DEF AviMedium, Upload!Conforms, Upload!Wide
<1>2. Upload!Ones(2) = 255
  BY DEF Upload!Ones, Upload!Base
<1>3. QED
  BY <1>1, <1>2 DEF AviFields

\* Tags are told apart by their second cell.
IsTag(tag) == tag \in Seq(Nibbles) /\ Len(tag) = 2
JunkTag == <<8, 6>>

\* The tags of RIFF are two cells each and differ.
LEMMA Tags ==
  /\ IsTag(Upload!Riff) /\ IsTag(Upload!AviTag) /\ IsTag(Upload!List) /\ IsTag(Upload!Hdrl) /\ IsTag(Upload!Avih)
  /\ IsTag(JunkTag)
  /\ Upload!List # Upload!Avih /\ JunkTag # Upload!List /\ JunkTag # Upload!Avih /\ Upload!Riff[1] = 8 /\ Upload!Riff[2] = 1
<1>1. IsTag(<<8, 1>>) /\ IsTag(<<8, 2>>) /\ IsTag(<<8, 3>>) /\ IsTag(<<8, 4>>) /\ IsTag(<<8, 5>>) /\ IsTag(<<8, 6>>)
  BY DEF IsTag, Nibbles
<1>2. <<8, 3>> # <<8, 5>> /\ <<8, 6>> # <<8, 3>> /\ <<8, 6>> # <<8, 5>>
  OBVIOUS
<1>3. QED
  BY <1>1, <1>2 DEF Upload!Riff, Upload!AviTag, Upload!List, Upload!Hdrl, Upload!Avih, JunkTag

\* A tag is read where it was written.
LEMMA TagIsRead ==
  ASSUME NEW f \in Seq(Nat), NEW o \in Nat, NEW tag, IsTag(tag), Part(f, o, tag), o + 2 <= Len(f)
  PROVE  Upload!Tag(f, o) = tag
<1> DEFINE e == o + 2
<1>1. tag \in Seq(Nat) /\ Len(tag) = 2 /\ Len(tag) > 0 /\ e = o + Len(tag) /\ Len(f) \in Nat
  BY NibblesAreNat DEF IsTag
<1> HIDE DEF e
<1>2. Sliced(f, o, e, tag)
  BY <1>1, SliceLies
<1>3. Lies(f, o, tag)
  BY <1>1 DEF Lies, Part, Upload!Has
<1>4. Upload!Slice(f, o, e) = tag
  BY <1>2, <1>3 DEF Sliced
<1>5. QED
  BY <1>4 DEF Upload!Tag, Upload!Wide, e

\* A little-endian number is read as it was written.
LittleFits(v) ==
  /\ Upload!Little(v, 2, 16) \in Seq(Nibbles) /\ Len(Upload!Little(v, 2, 16)) = 2
  /\ \A f \in Seq(Nat), o \in Nat :
       Part(f, o, Upload!Little(v, 2, 16)) /\ o + 2 <= Len(f) => Upload!LE(f, o, 2, 16) = v

\* A little-endian number of two cells is read as it is written.
LEMMA LittleIsRead ==
  ASSUME NEW v \in Nat, v < 256
  PROVE  LittleFits(v)
<1> DEFINE s == Upload!Little(v, 2, 16)
<1>1. InCells(v)
  BY TwoCells
<1>2. High(v) \in Nibbles /\ Low(v) \in Nibbles /\ s = <<Low(v), High(v)>> /\ High(v) * 16 + Low(v) = v
  BY <1>1 DEF InCells, Nibbles
<1> HIDE DEF s
<1>3. s \in Seq(Nibbles) /\ Len(s) = 2 /\ s[1] = Low(v) /\ s[2] = High(v)
  <2> DEFINE t == <<Low(v), High(v)>>
  <2>1. t \in Seq(Nibbles) /\ Len(t) = 2 /\ t[1] = Low(v) /\ t[2] = High(v)
    BY <1>2
  <2>2. s = t
    BY <1>2
  <2>3. QED
    BY <2>1, <2>2
<1>4. ASSUME NEW f \in Seq(Nat), NEW o \in Nat, Part(f, o, s), o + 2 <= Len(f)
      PROVE  Upload!LE(f, o, 2, 16) = v
  <2>1. f[o + 1] = Low(v) /\ f[o + 2] = High(v)
    <3>1. 1 \in 1..Len(s) /\ 2 \in 1..Len(s) /\ o + 1 <= Len(f)
      BY <1>3, <1>4
    <3>2. QED
      BY <1>3, <1>4, <3>1 DEF Part
  <2>2. Upload!Has(f, o, 2)
    BY <1>4 DEF Upload!Has
  <2>3. IsLittle(Upload!LE(f, o, 2, 16), f, o, 2, 16)
    BY <2>2, LittleNumbers
  <2>4. QED
    BY <1>2, <2>1, <2>3 DEF IsLittle
<1>5. QED
  BY <1>3, <1>4 DEF LittleFits, s

\* A chunk is read as it was written.
ChunkLength(body) == 4 + Len(body) + (Len(body) % 2)
ChunkFits(tag, body) ==
  /\ Upload!Chunk(tag, body) \in Seq(Nibbles)
  /\ Len(Upload!Chunk(tag, body)) = ChunkLength(body)
  /\ \A f \in Seq(Nat), o \in Nat :
       Part(f, o, Upload!Chunk(tag, body)) =>
         /\ o + 4 <= Len(f) => Upload!Tag(f, o) = tag /\ ChunkSize(f, o) = Len(body)
         /\ Part(f, o + 4, body)

\* A chunk that was written is read as its tag, its size and its body.
LEMMA ChunkIsRead ==
  ASSUME NEW tag, IsTag(tag), NEW body \in Seq(Nibbles), Len(body) < 256
  PROVE  ChunkFits(tag, body)
<1> DEFINE n == Len(body)
           size == Upload!Little(n, 2, 16)
           pad == Upload!When(n % 2 = 1, <<0>>)
<1>1. n \in Nat /\ n < 256
  OBVIOUS
<1> HIDE DEF n
<1>2. LittleFits(n)
  BY <1>1, LittleIsRead
<1>3. size \in Seq(Nibbles) /\ Len(size) = 2 /\ tag \in Seq(Nibbles) /\ Len(tag) = 2
  BY <1>2 DEF LittleFits, IsTag
<1>4. pad \in Seq(Nibbles) /\ Len(pad) = n % 2
  <2>1. <<0>> \in Seq(Nibbles) /\ Len(<<0>>) = 1 /\ <<>> \in Seq(Nibbles) /\ Len(<<>>) = 0
    BY DEF Nibbles
  <2>2. n % 2 \in 0..1
    BY <1>1
  <2>3. CASE n % 2 = 1
    BY <2>1, <2>3 DEF Upload!When
  <2>4. CASE n % 2 # 1
    BY <2>1, <2>2, <2>4 DEF Upload!When
  <2>5. QED
    BY <2>3, <2>4
<1>5. Upload!Chunk(tag, body) = tag \o size \o body \o pad
  BY DEF Upload!Chunk, Upload!Wide, Upload!Base, n
<1> HIDE DEF size, pad
<1>6. Joins(Nibbles, body, pad) /\ Joins(Nibbles, tag, size)
  BY <1>3, <1>4, Joined
<1>7. Joins(Nibbles, size, body \o pad) /\ Joins(Nibbles, tag \o size, body)
  BY <1>3, <1>6, Joined DEF Joins
<1>8. Joins(Nibbles, tag, size \o (body \o pad)) /\ Joins(Nibbles, tag \o size \o body, pad)
  BY <1>3, <1>4, <1>7, Joined DEF Joins
<1>9. Upload!Chunk(tag, body) \in Seq(Nibbles)
  BY <1>5, <1>8 DEF Joins
<1>10. Len(Upload!Chunk(tag, body)) = ChunkLength(body)
  <2>1. Len(tag \o size) = 4
    BY <1>3, <1>6 DEF Joins
  <2>2. Len(tag \o size \o body) = 4 + n
    BY <1>7, <2>1 DEF Joins, n
  <2>3. QED
    BY <1>4, <1>5, <1>8, <2>2 DEF Joins, ChunkLength, n
<1>11. ASSUME NEW f \in Seq(Nat), NEW o \in Nat, Part(f, o, Upload!Chunk(tag, body))
       PROVE  /\ o + 4 <= Len(f) => Upload!Tag(f, o) = tag /\ ChunkSize(f, o) = n
              /\ Part(f, o + 4, body)
  <2>1. tag \o size \o body \o pad = tag \o (size \o (body \o pad))
    <3>1. Regroups(tag, size, body \o pad)
      BY <1>3, <1>4, <1>6, Regrouped DEF Joins
    <3>2. Regroups(tag \o size, body, pad)
      BY <1>3, <1>4, <1>6, Regrouped DEF Joins
    <3>3. QED
      BY <3>1, <3>2 DEF Regroups
  <2>2. tag \in Seq(Nat) /\ size \in Seq(Nat) /\ body \in Seq(Nat) /\ pad \in Seq(Nat)
        /\ body \o pad \in Seq(Nat) /\ size \o (body \o pad) \in Seq(Nat)
    BY <1>3, <1>4, <1>6, <1>7, NibblesAreNat DEF Joins
  <2>3. Part(f, o, tag \o (size \o (body \o pad)))
    BY <1>5, <1>11, <2>1
  <2>4. Follow(f, o, tag, 2, size \o (body \o pad))
    BY <1>3, <2>2, <2>3, PartsFollow
  <2> DEFINE p == o + 2
             q == o + 4
  <2>5. p \in Nat /\ q \in Nat /\ q = p + 2 /\ Part(f, p, size \o (body \o pad)) /\ Part(f, o, tag)
    BY <2>4 DEF Follow
  <2>6. q <= Len(f) => p <= Len(f)
    OBVIOUS
  <2> HIDE DEF p, q
  <2>7. Follow(f, p, size, 2, body \o pad)
    BY <1>3, <2>2, <2>5, PartsFollow
  <2>8. Part(f, p, size) /\ Part(f, q, body \o pad)
    BY <2>5, <2>7 DEF Follow
  <2>9. Follow(f, q, body, n, pad)
    BY <2>2, <2>5, <2>8, PartsFollow DEF n
  <2>10. q <= Len(f) => Upload!LE(f, p, 2, 16) = n
    BY <1>2, <2>5, <2>8 DEF LittleFits, size
  <2>11. q <= Len(f) => Upload!Tag(f, o) = tag
    BY <2>5, <2>6, TagIsRead DEF p
  <2>12. QED
    BY <2>9, <2>10, <2>11 DEF Follow, ChunkSize, p, q
<1>12. QED
  BY <1>9, <1>10, <1>11 DEF ChunkFits, n

\* The pieces of an AVI file.
AvihBody(m) == Upload!Little(m.x, 2, 16) \o Upload!Big(0, 6, 16) \o Upload!Little(m.y, 2, 16)
AvihChunk(m) == Upload!Chunk(Upload!Avih, AvihBody(m))
Junk == Upload!Chunk(JunkTag, <<0, 0, 0>>)
JunkPart(m) == Upload!When(m.extra, Junk)
HdrlBody(m) == Upload!Hdrl \o JunkPart(m) \o AvihChunk(m)
AviHead == Upload!Riff \o <<0, 0>> \o Upload!AviTag
AviData(m) == IF m.form = "open" THEN AvihChunk(m) ELSE Upload!Chunk(Upload!List, HdrlBody(m))

JunkLength(m) == IF m.extra = TRUE THEN 8 ELSE 0
HdrlLength(m) == 16 + JunkLength(m)
DataLength(m) == IF m.form = "open" THEN 14 ELSE 4 + HdrlLength(m)

AviWhole(m) ==
  /\ AvihBody(m) \in Seq(Nibbles) /\ Len(AvihBody(m)) = 10
  /\ AvihChunk(m) \in Seq(Nibbles) /\ Len(AvihChunk(m)) = 14 /\ ChunkFits(Upload!Avih, AvihBody(m))
  /\ ChunkFits(JunkTag, <<0, 0, 0>>)
  /\ JunkPart(m) \in Seq(Nibbles) /\ Len(JunkPart(m)) = JunkLength(m)
  /\ HdrlBody(m) \in Seq(Nibbles) /\ Len(HdrlBody(m)) = HdrlLength(m) /\ ChunkFits(Upload!List, HdrlBody(m))
  /\ AviData(m) \in Seq(Nibbles) /\ Len(AviData(m)) = DataLength(m)
  /\ AviHead \in Seq(Nibbles) /\ Len(AviHead) = 6
  /\ Upload!Big(0, 6, 16) \in Seq(Nibbles) /\ Len(Upload!Big(0, 6, 16)) = 6

\* Six cells of padding.
LEMMA Zeros == Upload!Big(0, 6, 16) \in Seq(Nibbles) /\ Len(Upload!Big(0, 6, 16)) = 6
<1> DEFINE g == [i \in 1..6 |-> IF 6 - i > 3 THEN 0 ELSE (0 \div 16^(6 - i)) % 16]
<1>1. Upload!Big(0, 6, 16) = g
  BY DEF Upload!Big
<1>2. \A i \in 1..6 : g[i] \in Nibbles
  <2>1. 16^(6 - 3) = 4096 /\ 16^(6 - 4) = 256 /\ 16^(6 - 5) = 16 /\ 16^(6 - 6) = 1
    OBVIOUS
  <2>2. 0 \div 4096 = 0 /\ 0 \div 256 = 0 /\ 0 \div 16 = 0 /\ 0 \div 1 = 0 /\ 0 % 16 = 0
    OBVIOUS
  <2>3. g[1] = 0 /\ g[2] = 0
    OBVIOUS
  <2>4. g[3] = 0 /\ g[4] = 0 /\ g[5] = 0 /\ g[6] = 0
    BY <2>1, <2>2
  <2> HIDE DEF g
  <2>5. QED
    BY <2>3, <2>4 DEF Nibbles
<1>3. g = [i \in 1..6 |-> g[i]] /\ 6 \in Nat
  OBVIOUS
<1> HIDE DEF g
<1>4. g \in Seq(Nibbles) /\ Len(g) = 6
  BY <1>2, <1>3
<1>5. QED
  BY <1>1, <1>4

\* Each piece of an AVI file is of nibbles, and of a known length.
LEMMA AviIsWhole ==
  ASSUME NEW m, AviFields(m)
  PROVE  AviWhole(m)
<1> DEFINE x == Upload!Little(m.x, 2, 16)
           y == Upload!Little(m.y, 2, 16)
           z == Upload!Big(0, 6, 16)
           zero == <<0, 0, 0>>
           pair == <<0, 0>>
           body == AvihBody(m)
           avih == AvihChunk(m)
           junk == JunkPart(m)
           hdrl == HdrlBody(m)
           riff == Upload!Riff
           avi == Upload!AviTag
           tag == Upload!Hdrl
<1>1. x \in Seq(Nibbles) /\ Len(x) = 2 /\ y \in Seq(Nibbles) /\ Len(y) = 2
  <2>1. LittleFits(m.x) /\ LittleFits(m.y)
    BY LittleIsRead DEF AviFields
  <2>2. QED
    BY <2>1 DEF LittleFits
<1>2. z \in Seq(Nibbles) /\ Len(z) = 6
  BY Zeros
<1>3. zero \in Seq(Nibbles) /\ Len(zero) = 3 /\ pair \in Seq(Nibbles) /\ Len(pair) = 2
      /\ <<>> \in Seq(Nibbles) /\ Len(<<>>) = 0
  BY DEF Nibbles
<1>4. riff \in Seq(Nibbles) /\ Len(riff) = 2 /\ avi \in Seq(Nibbles) /\ Len(avi) = 2 /\ tag \in Seq(Nibbles) /\ Len(tag) = 2
  BY Tags DEF IsTag
<1>5. body = x \o z \o y /\ hdrl = tag \o junk \o avih /\ AviHead = riff \o pair \o avi
  BY DEF AvihBody, HdrlBody, AviHead
<1> HIDE DEF x, y, z, zero, pair, body, avih, junk, hdrl, riff, avi, tag
<1>6. body \in Seq(Nibbles) /\ Len(body) = 10
  <2>1. Joins(Nibbles, x, z)
    BY <1>1, <1>2, Joined
  <2>2. Joins(Nibbles, x \o z, y)
    BY <1>1, <2>1, Joined DEF Joins
  <2>3. QED
    BY <1>1, <1>2, <1>5, <2>1, <2>2 DEF Joins
<1>7. AviHead \in Seq(Nibbles) /\ Len(AviHead) = 6
  <2>1. Joins(Nibbles, riff, pair)
    BY <1>3, <1>4, Joined
  <2>2. Joins(Nibbles, riff \o pair, avi)
    BY <1>4, <2>1, Joined DEF Joins
  <2>3. QED
    BY <1>3, <1>4, <1>5, <2>1, <2>2 DEF Joins
<1>8. ChunkFits(Upload!Avih, body) /\ avih \in Seq(Nibbles) /\ Len(avih) = 14
  <2>1. ChunkFits(Upload!Avih, body)
    <3>1. Len(body) < 256
      BY <1>6
    <3>2. QED
      BY <1>6, <3>1, Tags, ChunkIsRead
  <2>2. avih = Upload!Chunk(Upload!Avih, body)
    BY DEF avih, AvihChunk, body
  <2>3. ChunkLength(body) = 14
    BY <1>6 DEF ChunkLength
  <2>4. QED
    BY <2>1, <2>2, <2>3 DEF ChunkFits
<1>9. ChunkFits(JunkTag, zero) /\ junk \in Seq(Nibbles) /\ Len(junk) = JunkLength(m)
  <2>1. ChunkFits(JunkTag, zero)
    <3>1. Len(zero) < 256
      BY <1>3
    <3>2. QED
      BY <1>3, <3>1, Tags, ChunkIsRead
  <2>2. Upload!Chunk(JunkTag, zero) \in Seq(Nibbles) /\ Len(Upload!Chunk(JunkTag, zero)) = 8
    <3>1. ChunkLength(zero) = 8
      BY <1>3 DEF ChunkLength
    <3>2. QED
      BY <2>1, <3>1 DEF ChunkFits
  <2>3. junk = IF m.extra = TRUE THEN Upload!Chunk(JunkTag, zero) ELSE <<>>
    BY DEF AviFields, junk, JunkPart, Junk, Upload!When, zero
  <2>4. CASE m.extra = TRUE
    <3>1. junk = Upload!Chunk(JunkTag, zero) /\ JunkLength(m) = 8
      BY <2>3, <2>4 DEF JunkLength
    <3>2. QED
      BY <2>1, <2>2, <3>1
  <2>5. CASE ~(m.extra = TRUE)
    <3>1. junk = <<>> /\ JunkLength(m) = 0
      BY <2>3, <2>5, Zenon DEF JunkLength
    <3>2. QED
      BY <1>3, <2>1, <3>1
  <2>6. QED
    BY <2>4, <2>5
<1>10. JunkLength(m) \in {0, 8} /\ JunkLength(m) \in Nat
  BY DEF JunkLength
<1>11. hdrl \in Seq(Nibbles) /\ Len(hdrl) = HdrlLength(m) /\ HdrlLength(m) \in {16, 24}
  <2>1. Joins(Nibbles, tag, junk)
    BY <1>4, <1>9, Joined
  <2>2. Joins(Nibbles, tag \o junk, avih)
    BY <1>8, <2>1, Joined DEF Joins
  <2>3. Len(hdrl) = 2 + JunkLength(m) + 14
    BY <1>4, <1>5, <1>8, <1>9, <2>1, <2>2 DEF Joins
  <2>4. QED
    BY <1>5, <1>10, <2>2, <2>3 DEF Joins, HdrlLength
<1>12. ChunkFits(Upload!List, hdrl)
  <2>1. Len(hdrl) < 256
    BY <1>11
  <2>2. QED
    BY <1>11, <2>1, Tags, ChunkIsRead
<1>13. AviData(m) \in Seq(Nibbles) /\ Len(AviData(m)) = DataLength(m)
  <2>1. CASE m.form = "open"
    BY <1>8, <2>1 DEF AviData, DataLength, avih
  <2>2. CASE m.form # "open"
    <3>1. ChunkLength(hdrl) = 4 + HdrlLength(m)
      <4>1. 16 % 2 = 0 /\ 24 % 2 = 0
        OBVIOUS
      <4>2. Len(hdrl) % 2 = 0 /\ Len(hdrl) \in Nat
        BY <1>11, <4>1
      <4>3. QED
        BY <1>11, <4>2 DEF ChunkLength
    <3>2. AviData(m) = Upload!Chunk(Upload!List, hdrl) /\ DataLength(m) = 4 + HdrlLength(m)
      BY <2>2 DEF AviData, DataLength, hdrl
    <3>3. QED
      BY <1>12, <3>1, <3>2 DEF ChunkFits
  <2>3. QED
    BY <2>1, <2>2
<1>14. QED
  BY <1>2, <1>6, <1>7, <1>8, <1>9, <1>11, <1>12, <1>13
     DEF AviWhole, z, zero, body, avih, junk, hdrl

\* An AVI file is its header, perhaps a junk chunk, and its list.
LEMMA AviLaidOut ==
  ASSUME NEW m, AviMedium(m)
  PROVE  /\ Upload!Written(m) = AviHead \o JunkPart(m) \o AviData(m)
         /\ Len(Upload!Written(m)) = 6 + JunkLength(m) + DataLength(m)
         /\ Upload!Written(m) \in Seq(Nibbles)
<1>1. Upload!Written(m) = Upload!AviFile(m)
  BY DEF AviMedium, Upload!Written
<1>2. Upload!Wide = 2 /\ Upload!Base = 16 /\ 3 * Upload!Wide = 6
  BY DEF Upload!Wide, Upload!Base
<1>3. Upload!AviFile(m) =
        Upload!Riff \o <<0, 0>> \o Upload!AviTag \o JunkPart(m)
        \o (IF m.form = "open" THEN AvihChunk(m)
            ELSE Upload!Chunk(Upload!List, Upload!Hdrl \o JunkPart(m) \o AvihChunk(m)))
  BY <1>2 DEF Upload!AviFile, AvihChunk, AvihBody, JunkPart, Junk, JunkTag
<1>4. Upload!Written(m) = AviHead \o JunkPart(m) \o AviData(m)
  BY <1>1, <1>3 DEF AviHead, AviData, HdrlBody
<1>5. AviWhole(m)
  BY AviHolds, AviIsWhole
<1>6. Joins(Nibbles, AviHead, JunkPart(m))
  BY <1>5, Joined DEF AviWhole
<1>7. Joins(Nibbles, AviHead \o JunkPart(m), AviData(m))
  BY <1>5, <1>6, Joined DEF AviWhole, Joins
<1>8. QED
  BY <1>4, <1>5, <1>6, <1>7 DEF AviWhole, Joins

\* A file that holds the start of an AVI file, and where its chunks are.
AviPlaces(m, f) ==
  /\ Part(f, 0, Upload!Riff) /\ Part(f, 4, Upload!AviTag)
  /\ Part(f, 6, JunkPart(m)) /\ Part(f, 6 + JunkLength(m), AviData(m))

\* In a file that begins like an AVI medium each piece lies where it was written.
LEMMA AviPlaced ==
  ASSUME NEW m, AviMedium(m), NEW f \in Seq(Nat), Part(f, 0, Upload!Written(m))
  PROVE  AviPlaces(m, f)
<1> DEFINE head == AviHead
           junk == JunkPart(m)
           data == AviData(m)
           riff == Upload!Riff
           avi == Upload!AviTag
           pair == <<0, 0>>
           a == 0
           b == 2
           c == 4
           d == 6
           j == JunkLength(m)
<1>1. /\ head \in Seq(Nibbles) /\ Len(head) = d /\ junk \in Seq(Nibbles) /\ Len(junk) = j /\ data \in Seq(Nibbles)
      /\ riff \in Seq(Nibbles) /\ Len(riff) = b /\ avi \in Seq(Nibbles)
      /\ pair \in Seq(Nibbles) /\ Len(pair) = 2
  <2>1. AviWhole(m)
    BY AviHolds, AviIsWhole
  <2>2. pair \in Seq(Nibbles) /\ Len(pair) = 2
    BY DEF Nibbles
  <2>3. QED
    BY <2>1, <2>2, Tags DEF AviWhole, IsTag
<1>2. a \in Nat /\ b \in Nat /\ c \in Nat /\ d \in Nat /\ a + d = d /\ a + b = b /\ b + 2 = c /\ j \in Nat
  BY DEF JunkLength
<1>3. Part(f, a, head \o junk \o data) /\ head = riff \o pair \o avi
  BY AviLaidOut DEF AviHead
<1> HIDE DEF head, junk, data, riff, avi, pair, a, b, c, d, j
<1>4. Regroups(head, junk, data) /\ Regroups(riff, pair, avi)
  BY <1>1, Regrouped
<1>5. Joins(Nibbles, junk, data) /\ Joins(Nibbles, pair, avi)
  BY <1>1, Joined
<1>6. /\ head \in Seq(Nat) /\ junk \in Seq(Nat) /\ data \in Seq(Nat) /\ riff \in Seq(Nat)
      /\ avi \in Seq(Nat) /\ pair \in Seq(Nat)
      /\ junk \o data \in Seq(Nat) /\ pair \o avi \in Seq(Nat)
  BY <1>1, <1>5, NibblesAreNat DEF Joins
<1>7. Follow(f, a, head, d, junk \o data)
  BY <1>1, <1>2, <1>3, <1>4, <1>6, PartsFollow DEF Regroups
<1>8. Part(f, a, riff \o (pair \o avi)) /\ Part(f, d, junk \o data)
  BY <1>2, <1>3, <1>4, <1>7 DEF Follow, Regroups
<1>9. Follow(f, d, junk, j, data)
  BY <1>1, <1>2, <1>6, <1>8, PartsFollow
<1>10. Follow(f, a, riff, b, pair \o avi)
  BY <1>1, <1>2, <1>6, <1>8, PartsFollow
<1>11. Follow(f, b, pair, 2, avi)
  <2>1. Part(f, b, pair \o avi)
    BY <1>2, <1>10 DEF Follow
  <2>2. Len(pair) = 2
    BY <1>1
  <2> DEFINE k == 2
  <2>3. Len(pair) = k
    BY <2>2
  <2> HIDE DEF k
  <2>4. Follow(f, b, pair, k, avi)
    BY <1>2, <1>6, <2>1, <2>3, PartsFollow
  <2>5. QED
    BY <2>4 DEF k
<1>12. QED
  BY <1>2, <1>9, <1>10, <1>11 DEF Follow, AviPlaces, junk, data, riff, avi, a, b, c, d, j

\* r reads the chunks of f.
Walks(r, f) == \A p \in Upload!Loops : r[p] = ChunkStep(f, p, r)

\* A loop that has no room for a chunk finds nothing.
Stops(r, f, o, e, b) == o + 4 > e => r[<<o, e, b>>] = Upload!Null

\* The walk over chunks stops where no header fits.
LEMMA NoMoreChunks ==
  ASSUME NEW f, NEW r, Walks(r, f), NEW o \in Nat, NEW e \in Nat, NEW b \in BOOLEAN
  PROVE  Stops(r, f, o, e, b)
<1> DEFINE p == <<o, e, b>>
<1>1. p \in Upload!Loops /\ p[1] = o /\ p[2] = e
  BY DEF Upload!Loops
<1> HIDE DEF p
<1>2. r[p] = ChunkStep(f, p, r)
  BY <1>1 DEF Walks
<1>3. o + 4 > e => ChunkStep(f, p, r) = Upload!Null
  BY <1>1 DEF ChunkStep
<1>4. QED
  BY <1>2, <1>3 DEF Stops, p

\* A chunk whose header has arrived.
Chunked(r, f, o, e, b, inner, size) ==
  r[<<o, e, b>>] = IF inner # Upload!Null \/ size = 0 THEN inner
                   ELSE r[<<Upload!NextChunk(o + 4, size), e, b>>]

\* The walk over chunks reads the one it is at, and goes on after it.
LEMMA OneChunk ==
  ASSUME NEW f \in Seq(Nat), NEW r, Walks(r, f), NEW o \in Nat, NEW e \in Nat, NEW b \in BOOLEAN,
         o + 4 <= e, e <= Len(f)
  PROVE  Chunked(r, f, o, e, b, InChunk(f, <<o, e, b>>, r), ChunkSize(f, o))
<1> DEFINE p == <<o, e, b>>
<1>0. Len(f) \in Nat
  OBVIOUS
<1>1. p \in Upload!Loops /\ p[1] = o /\ p[2] = e /\ p[3] = b
  BY DEF Upload!Loops
<1>2. ~(o + 4 > e) /\ ~(o + 4 > Len(f))
  BY <1>0
<1> HIDE DEF p
<1>3. r[p] = ChunkStep(f, p, r)
  BY <1>1 DEF Walks
<1>4. AfterChunk(f, p) = <<Upload!NextChunk(o + 4, ChunkSize(f, o)), e, b>>
  BY <1>1 DEF AfterChunk
<1>5. ChunkStep(f, p, r) =
        IF InChunk(f, p, r) # Upload!Null \/ ChunkSize(f, o) = 0 THEN InChunk(f, p, r) ELSE r[AfterChunk(f, p)]
  BY <1>1, <1>2 DEF ChunkStep
<1>6. QED
  BY <1>3, <1>4, <1>5 DEF Chunked, p

\* Junk is passed over.
Passed(r, o, j, e, b) == r[<<o, e, b>>] = r[<<o + j, e, b>>]

\* A junk chunk is passed.
LEMMA JunkIsPassed ==
  ASSUME NEW m, AviFields(m), NEW f \in Seq(Nat), NEW r, Walks(r, f), NEW o \in Nat, Part(f, o, JunkPart(m)),
         NEW e \in Nat, e <= Len(f), NEW b \in BOOLEAN
  PROVE  Passed(r, o, JunkLength(m), e, b)
<1> DEFINE zero == <<0, 0, 0>>
           p == <<o, e, b>>
<1>1. AviWhole(m)
  BY AviIsWhole
<1>2. CASE ~(m.extra = TRUE)
  <2>1. JunkLength(m) = 0
    BY <1>2, Zenon DEF JunkLength
  <2>2. o + 0 = o
    OBVIOUS
  <2>3. QED
    BY <2>1, <2>2 DEF Passed
<1>3. CASE m.extra = TRUE
  <2>1. JunkLength(m) = 8
    BY <1>3 DEF JunkLength
  <2>2. JunkPart(m) = Upload!Chunk(JunkTag, zero) /\ Len(zero) = 3
    BY <1>3 DEF JunkPart, Junk, Upload!When
  <2>3. ChunkFits(JunkTag, zero)
    BY <1>1 DEF AviWhole
  <2> HIDE DEF zero
  <2>4. o + 4 <= Len(f) => Upload!Tag(f, o) = JunkTag /\ ChunkSize(f, o) = 3
    BY <2>2, <2>3 DEF ChunkFits
  <2>5. CASE o + 4 > e
    <3>1. Stops(r, f, o, e, b)
      BY NoMoreChunks
    <3> DEFINE q == o + 8
    <3>2. q \in Nat /\ q + 4 > e
      BY <2>5
    <3> HIDE DEF q
    <3>3. Stops(r, f, q, e, b)
      BY <3>2, NoMoreChunks
    <3>4. QED
      BY <2>1, <2>5, <3>1, <3>2, <3>3 DEF Stops, Passed, q
  <2>6. CASE ~(o + 4 > e)
    <3>0. Len(f) \in Nat /\ o + 4 <= e /\ o + 4 <= Len(f)
      BY <2>6
    <3>1. Chunked(r, f, o, e, b, InChunk(f, p, r), ChunkSize(f, o))
      BY <3>0, OneChunk
    <3>2. p[1] = o
      OBVIOUS
    <3> HIDE DEF p
    <3>3. InChunk(f, p, r) = Upload!Null
      BY <2>4, <3>0, <3>2, Tags DEF InChunk, OpensHeader
    <3>4. Upload!NextChunk(o + 4, 3) = o + 8
      BY DEF Upload!NextChunk
    <3>5. ChunkSize(f, o) = 3
      BY <2>4, <3>0
    <3>6. r[<<o, e, b>>] = r[<<Upload!NextChunk(o + 4, 3), e, b>>]
      BY <3>1, <3>3, <3>5 DEF Chunked
    <3>7. QED
      BY <2>1, <3>4, <3>6 DEF Passed
  <2>7. QED
    BY <2>5, <2>6
<1>4. QED
  BY <1>2, <1>3

\* The two numbers in avih.
AviFinal(m, whole) == IF whole /\ m.x # 0 /\ m.y # 0 THEN Upload!Read(m.x * m.y, 16) ELSE Upload!Null
Parsed(m, f, o) == Upload!ParseAvih(f, o) = AviFinal(m, o + 10 <= Len(f))

\* The main header gives the duration that was written, if it is all there.
LEMMA AvihIsParsed ==
  ASSUME NEW m, AviFields(m), NEW f \in Seq(Nat), NEW o \in Nat, Part(f, o, AvihBody(m))
  PROVE  Parsed(m, f, o)
<1> DEFINE x == Upload!Little(m.x, 2, 16)
           y == Upload!Little(m.y, 2, 16)
           z == Upload!Big(0, 6, 16)
           a == 2
           c == 6
           p == o + a
           q == o + 8
<1>1. LittleFits(m.x) /\ LittleFits(m.y)
  BY LittleIsRead DEF AviFields
<1>2. x \in Seq(Nibbles) /\ y \in Seq(Nibbles) /\ z \in Seq(Nibbles) /\ Len(x) = a /\ Len(z) = c
  BY <1>1, Zeros DEF LittleFits
<1>3. p \in Nat /\ q \in Nat /\ q = p + c /\ o + 4 * 2 = q /\ p = o + a /\ Len(f) \in Nat
  OBVIOUS
<1>4. AvihBody(m) = x \o z \o y
  BY DEF AvihBody
<1>5. (o + 10 <= Len(f)) => o + 2 <= Len(f) /\ q + 2 <= Len(f)
  BY <1>3
<1> HIDE DEF x, y, z, a, c, p, q
<1>6. Regroups(x, z, y)
  BY <1>2, Regrouped
<1>7. Joins(Nibbles, z, y)
  BY <1>2, Joined
<1>8. x \in Seq(Nat) /\ y \in Seq(Nat) /\ z \in Seq(Nat) /\ z \o y \in Seq(Nat)
  BY <1>2, <1>7, NibblesAreNat DEF Joins
<1>9. Part(f, o, x \o (z \o y))
  BY <1>4, <1>6 DEF Regroups
<1>10. Follow(f, o, x, a, z \o y)
  BY <1>2, <1>8, <1>9, PartsFollow
<1>11. Part(f, p, z \o y)
  BY <1>3, <1>10 DEF Follow
<1>12. Follow(f, p, z, c, y)
  BY <1>2, <1>3, <1>8, <1>11, PartsFollow
<1>13. Part(f, o, x) /\ Part(f, q, y)
  BY <1>3, <1>10, <1>12 DEF Follow
<1>14. o + 10 <= Len(f) => Upload!LE(f, o, 2, 16) = m.x /\ Upload!LE(f, q, 2, 16) = m.y
  BY <1>1, <1>3, <1>5, <1>13 DEF LittleFits, x, y
<1>15. Upload!ParseAvih(f, o) =
         IF ~(o + 10 <= Len(f)) \/ Upload!LE(f, o, 2, 16) = 0 \/ Upload!LE(f, q, 2, 16) = 0 THEN Upload!Null
         ELSE Upload!Read(Upload!LE(f, o, 2, 16) * Upload!LE(f, q, 2, 16), 16)
  BY <1>3 DEF Upload!ParseAvih, Upload!Wide, Upload!Base, Upload!AvihMin, Upload!Has
<1>16. CASE o + 10 <= Len(f)
  BY <1>14, <1>15, <1>16 DEF Parsed, AviFinal
<1>17. CASE ~(o + 10 <= Len(f))
  BY <1>15, <1>17 DEF Parsed, AviFinal
<1>18. QED
  BY <1>16, <1>17

\* A loop that ends with avih takes its numbers.
Takes(r, m, f, o, e, b) == r[<<o, e, b>>] = AviFinal(m, o + 14 <= Len(f))

\* The walk takes the main header it comes to.
LEMMA AvihIsTaken ==
  ASSUME NEW m, AviFields(m), NEW f \in Seq(Nat), NEW r, Walks(r, f), NEW o \in Nat, Part(f, o, AvihChunk(m)),
         NEW e, e = Upload!Smaller(o + 14, Len(f)), NEW b \in BOOLEAN
  PROVE  Takes(r, m, f, o, e, b)
<1> DEFINE body == AvihBody(m)
           p == <<o, e, b>>
           q == o + 4
           final == AviFinal(m, o + 14 <= Len(f))
<1>0. Len(f) \in Nat /\ e \in Nat /\ e <= Len(f) /\ e <= o + 14 /\ (e = o + 14 \/ e = Len(f)) /\ q \in Nat
      /\ (q + 10 <= Len(f) <=> o + 14 <= Len(f))
  <2>1. Len(f) \in Nat /\ o + 14 \in Nat
    OBVIOUS
  <2>2. e \in Nat /\ e <= Len(f) /\ e <= o + 14 /\ (e = o + 14 \/ e = Len(f))
    BY <2>1 DEF Upload!Smaller
  <2>3. q \in Nat /\ (q + 10 <= Len(f) <=> o + 14 <= Len(f))
    BY <2>1
  <2>4. QED
    BY <2>1, <2>2, <2>3
<1>1. ChunkFits(Upload!Avih, body) /\ Len(body) = 10
  BY AviIsWhole DEF AviWhole
<1> HIDE DEF body
<1>2. (o + 4 <= Len(f) => Upload!Tag(f, o) = Upload!Avih /\ ChunkSize(f, o) = 10) /\ Part(f, q, body)
  BY <1>1 DEF ChunkFits, AvihChunk, body
<1> HIDE DEF q
<1>3. Upload!ParseAvih(f, q) = final
  <2>1. Parsed(m, f, q)
    BY <1>0, <1>2, AvihIsParsed DEF body
  <2>2. QED
    BY <1>0, <2>1 DEF Parsed, AviFinal
<1>4. CASE o + 4 > e
  <2>1. Stops(r, f, o, e, b)
    BY <1>0, NoMoreChunks
  <2>2. ~(o + 14 <= Len(f))
    BY <1>0, <1>4
  <2>3. final = Upload!Null
    BY <2>2 DEF AviFinal
  <2>4. QED
    BY <1>4, <2>1, <2>3 DEF Stops, Takes
<1>5. CASE ~(o + 4 > e)
  <2>0. o + 4 <= e /\ o + 4 <= Len(f)
    BY <1>0, <1>5
  <2>1. Chunked(r, f, o, e, b, InChunk(f, p, r), ChunkSize(f, o))
    BY <1>0, <2>0, OneChunk
  <2>2. p[1] = o
    OBVIOUS
  <2> HIDE DEF p, final
  <2>3. InChunk(f, p, r) = final
    BY <1>2, <1>3, <2>0, <2>2, Tags DEF InChunk, OpensHeader, q
  <2>4. Upload!NextChunk(o + 4, 10) = o + 14
    BY DEF Upload!NextChunk
  <2> DEFINE s == o + 14
  <2>5. s \in Nat /\ s + 4 > e
    BY <1>0
  <2> HIDE DEF s
  <2>6. Stops(r, f, s, e, b)
    BY <1>0, <2>5, NoMoreChunks
  <2>7. r[<<o + 14, e, b>>] = Upload!Null
    BY <2>5, <2>6 DEF Stops, s
  <2>8. r[p] = final
    BY <1>2, <2>0, <2>1, <2>3, <2>4, <2>7 DEF Chunked, p
  <2>9. QED
    BY <2>8 DEF Takes, p, final
<1>6. QED
  BY <1>4, <1>5

\* The LIST of the header gives what avih in it gives.
GivesFinal(r, m, f, o) == r[<<o, Len(f), TRUE>>] = AviFinal(m, Len(f) = o + 4 + HdrlLength(m))

\* The walk takes the LIST of the header it comes to.
LEMMA ListIsTaken ==
  ASSUME NEW m, AviFields(m), NEW f \in Seq(Nat), NEW r, Walks(r, f), NEW o \in Nat,
         Part(f, o, Upload!Chunk(Upload!List, HdrlBody(m))), Len(f) <= o + 4 + HdrlLength(m)
  PROVE  GivesFinal(r, m, f, o)
<1> DEFINE n == Len(f)
           body == HdrlBody(m)
           k == HdrlLength(m)
           j == JunkLength(m)
           b == TRUE
           no == FALSE
           p == <<o, n, b>>
           q == o + 4
           tag == Upload!Hdrl
           junk == JunkPart(m)
           avih == AvihChunk(m)
           final == AviFinal(m, n = o + 4 + k)
<1>1. AviWhole(m)
  BY AviIsWhole
<1>2. ChunkFits(Upload!List, body) /\ Len(body) = k /\ junk \in Seq(Nibbles) /\ Len(junk) = j /\ avih \in Seq(Nibbles)
      /\ tag \in Seq(Nibbles) /\ Len(tag) = 2
  BY <1>1, Tags DEF AviWhole, IsTag
<1>3. j \in {0, 8} /\ k \in {16, 24} /\ k = 16 + j /\ k % 2 = 0
  <2>1. j \in {0, 8}
    BY DEF JunkLength
  <2>2. k = 16 + j
    BY DEF HdrlLength
  <2> HIDE DEF j, k
  <2>3. k \in {16, 24}
    BY <2>1, <2>2
  <2>4. 16 % 2 = 0 /\ 24 % 2 = 0
    OBVIOUS
  <2>5. QED
    BY <2>1, <2>2, <2>3, <2>4
<1>4. n \in Nat /\ n <= o + 4 + k /\ q \in Nat /\ b \in BOOLEAN /\ no \in BOOLEAN
  OBVIOUS
<1>5. body = tag \o junk \o avih
  BY DEF HdrlBody
<1> HIDE DEF body, tag, junk, avih, k, j
<1>6. (o + 4 <= n => Upload!Tag(f, o) = Upload!List /\ ChunkSize(f, o) = k) /\ Part(f, q, body)
  BY <1>2 DEF ChunkFits, body
<1>7. /\ Part(f, q, tag) /\ Part(f, q + 2, junk) /\ Part(f, q + 2 + j, avih)
  <2>1. Regroups(tag, junk, avih)
    BY <1>2, Regrouped
  <2>2. Joins(Nibbles, junk, avih)
    BY <1>2, Joined
  <2>3. tag \in Seq(Nat) /\ junk \in Seq(Nat) /\ avih \in Seq(Nat) /\ junk \o avih \in Seq(Nat)
    BY <1>2, <2>2, NibblesAreNat DEF Joins
  <2>4. Part(f, q, tag \o (junk \o avih))
    BY <1>5, <1>6, <2>1 DEF Regroups
  <2> DEFINE two == 2
             c == q + two
  <2>5. Len(tag) = two /\ c \in Nat
    BY <1>2
  <2> HIDE DEF two, q
  <2>6. Follow(f, q, tag, two, junk \o avih)
    BY <1>4, <2>3, <2>4, <2>5, PartsFollow
  <2> HIDE DEF c
  <2>7. Part(f, c, junk \o avih)
    BY <2>6 DEF Follow, c
  <2>8. Follow(f, c, junk, j, avih)
    BY <1>2, <2>3, <2>5, <2>7, PartsFollow
  <2>9. QED
    BY <2>6, <2>8 DEF Follow, c, two
<1>8. CASE o + 4 > n
  <2> HIDE DEF n, b
  <2>1. Stops(r, f, o, n, b)
    BY <1>4, NoMoreChunks
  <2>2. n # o + 4 + k
    <3>1. k \in Nat /\ k > 0
      BY <1>3
    <3>2. QED
      BY <1>4, <1>8, <3>1
  <2>3. final = Upload!Null
    BY <2>2 DEF AviFinal
  <2>4. QED
    BY <1>8, <2>1, <2>3 DEF Stops, n, b, k, GivesFinal
<1>9. CASE o + 4 <= n
  <2> DEFINE inner == InChunk(f, p, r)
             e == Upload!Smaller(q + k, n)
             s == q + k
  <2> HIDE DEF n, b, no
  <2>1. Chunked(r, f, o, n, b, inner, ChunkSize(f, o))
    <3>1. n <= Len(f)
      BY <1>4 DEF n
    <3>2. QED
      BY <1>4, <1>9, <3>1, OneChunk
  <2>2. p[1] = o /\ p[3] = b
    OBVIOUS
  <2>3. s \in Nat /\ s + 4 > n /\ s = o + 4 + k /\ k # 0
    <3>1. k \in Nat /\ k # 0
      BY <1>3
    <3>2. QED
      BY <1>4, <3>1
  <2>4. Upload!NextChunk(q, k) = s
    BY <1>3, <2>3 DEF Upload!NextChunk
  <2> HIDE DEF s
  <2>5. r[<<s, n, b>>] = Upload!Null
    <3>1. Stops(r, f, s, n, b)
      BY <1>4, <2>3, NoMoreChunks
    <3>2. QED
      BY <2>3, <3>1 DEF Stops
  <2> HIDE DEF p, inner
  <2>6. inner = final => r[p] = final
    <3>1. r[p] = IF inner # Upload!Null \/ k = 0 THEN inner ELSE Upload!Null
      BY <1>6, <1>9, <2>1, <2>4, <2>5 DEF Chunked, p, q
    <3>2. QED
      BY <2>3, <3>1
  <2>7. inner = final
    <3>1. OpensHeader(f, p) <=> o + 6 <= n
      <4>1. Upload!Tag(f, p[1]) = Upload!List /\ p[3] = TRUE /\ p[1] + 4 = q
        BY <1>6, <1>9, <2>2 DEF b, q
      <4>2. Upload!Has(f, q, 2) <=> o + 6 <= n
        BY <1>4 DEF Upload!Has, q, n
      <4>3. o + 6 <= n => Upload!Tag(f, q) = Upload!Hdrl
        <5>1. IsTag(tag)
          BY Tags DEF tag
        <5>2. o + 6 <= n => q + 2 <= Len(f)
          BY <1>4 DEF n, q
        <5>3. f \in Seq(Nat) /\ q \in Nat /\ Part(f, q, tag)
          BY <1>4, <1>7
        <5> HIDE DEF q
        <5>4. q + 2 <= Len(f) => Upload!Tag(f, q) = tag
          BY <5>1, <5>3, TagIsRead
        <5>5. QED
          BY <5>2, <5>4 DEF tag
      <4> HIDE DEF q
      <4>4. QED
        BY <4>1, <4>2, <4>3 DEF OpensHeader
    <3>2. CASE ~(o + 6 <= n)
      <4>1. inner = Upload!Null
        <5>1. Upload!Tag(f, p[1]) # Upload!Avih
          BY <1>6, <1>9, <2>2, Tags
        <5>2. QED
          BY <3>1, <3>2, <5>1 DEF InChunk, inner
      <4>2. n # o + 4 + k
        <5>1. k \in Nat /\ k >= 16
          BY <1>3
        <5>2. QED
          BY <1>4, <3>2, <5>1
      <4>3. final = Upload!Null
        BY <4>2 DEF AviFinal
      <4>4. QED
        BY <4>1, <4>3
    <3>3. CASE o + 6 <= n
      <4> DEFINE c == q + 2
                 a == c + j
      <4>0. c \in Nat /\ a \in Nat /\ c = o + 6 /\ a + 14 = o + 4 + k /\ q + k = a + 14
        <5>1. j \in Nat /\ k = 16 + j
          BY <1>3
        <5>2. QED
          BY <5>1
      <4>1. inner = r[<<c, e, no>>]
        <5>1. inner = r[Within(f, p)]
          BY <3>1, <3>3 DEF InChunk, inner
        <5>2. Within(f, p) = <<c, e, no>>
          BY <1>6, <1>9, <2>2, <4>0 DEF Within, n, no, q
        <5>3. QED
          BY <5>1, <5>2
      <4> HIDE DEF c, a, q
      <4>2. e = Upload!Smaller(a + 14, Len(f)) /\ e \in Nat /\ e <= Len(f)
        <5>1. e = Upload!Smaller(a + 14, n) /\ n \in Nat /\ a + 14 \in Nat /\ n = Len(f)
          BY <1>4, <4>0 DEF n
        <5>2. e \in Nat /\ e <= n
          BY <5>1 DEF Upload!Smaller
        <5>3. QED
          BY <5>1, <5>2
      <4> HIDE DEF e
      <4>3. Passed(r, c, j, e, no)
        BY <1>4, <1>7, <4>0, <4>2, JunkIsPassed DEF c, junk, j
      <4>4. Takes(r, m, f, a, e, no)
        BY <1>4, <1>7, <4>0, <4>2, AvihIsTaken DEF a, c, avih
      <4>5. inner = AviFinal(m, a + 14 <= n)
        BY <4>1, <4>3, <4>4 DEF Passed, Takes, a, n
      <4>6. a + 14 <= n <=> n = o + 4 + k
        <5>1. a + 14 \in Nat
          BY <4>0
        <5>2. QED
          BY <1>4, <4>0, <5>1
      <4>7. QED
        BY <4>5, <4>6 DEF AviFinal
    <3>4. QED
      BY <3>2, <3>3
  <2>8. QED
    BY <2>6, <2>7 DEF p, n, b, k, GivesFinal
<1>10. QED
  BY <1>4, <1>8, <1>9

\* The duration of an AVI file is read as it was written once all of it has arrived.
LEMMA AviReading ==
  ASSUME NEW m, AviMedium(m), NEW f \in Seq(Nat), Part(f, 0, Upload!Written(m)),
         Len(f) <= Len(Upload!Written(m))
  PROVE  TrueDuration(Upload!ReadAviDuration(f), m, Len(f) = Len(Upload!Written(m)))
<1> DEFINE n == Len(f)
           w == Len(Upload!Written(m))
           j == JunkLength(m)
           s == 6 + j
           b == TRUE
           whole == n = w
           d == Upload!ReadAviDuration(f)
           final == AviFinal(m, whole)
           six == 6
<1>1. AviFields(m) /\ AviPlaces(m, f) /\ w = s + DataLength(m)
  BY AviHolds, AviPlaced, AviLaidOut
<1>2. n \in Nat /\ s \in Nat /\ n <= w /\ six \in Nat /\ b \in BOOLEAN /\ j \in Nat /\ s = six + j
  BY DEF JunkLength
<1>3. PICK r : ReadsChunks(r, f)
  BY ChunkReading
<1>4. Walks(r, f) /\ d = r[<<6, n, b>>]
  BY <1>3 DEF ReadsChunks, Walks
<1>5. Part(f, six, JunkPart(m)) /\ Part(f, s, AviData(m))
  BY <1>1 DEF AviPlaces
<1> HIDE DEF n, w, j, s, b, six, d
<1>6. d = r[<<s, n, b>>]
  <2>1. n <= Len(f)
    BY <1>2 DEF n
  <2>2. Passed(r, six, j, n, b)
    BY <1>1, <1>2, <1>4, <1>5, <2>1, JunkIsPassed DEF j
  <2>3. QED
    BY <1>2, <1>4, <2>2 DEF Passed, six
<1>7. d = final
  <2>1. CASE m.form = "open"
    <3>1. AviData(m) = AvihChunk(m) /\ w = s + 14
      BY <1>1, <2>1 DEF AviData, DataLength
    <3>2. n = Upload!Smaller(s + 14, Len(f))
      BY <1>2, <3>1 DEF Upload!Smaller, n
    <3>3. Takes(r, m, f, s, n, b)
      BY <1>1, <1>2, <1>4, <1>5, <3>1, <3>2, AvihIsTaken
    <3>4. s + 14 <= n <=> whole
      BY <1>2, <3>1
    <3>5. QED
      BY <1>6, <3>3, <3>4 DEF Takes, AviFinal, n
  <2>2. CASE m.form # "open"
    <3>1. AviData(m) = Upload!Chunk(Upload!List, HdrlBody(m)) /\ DataLength(m) = 4 + HdrlLength(m)
      BY <2>2 DEF AviData, DataLength
    <3>2. w = s + 4 + HdrlLength(m)
      <4>1. HdrlLength(m) \in Nat
        BY DEF HdrlLength, JunkLength
      <4>2. QED
        BY <1>1, <1>2, <3>1, <4>1
    <3>3. Len(f) <= s + 4 + HdrlLength(m)
      BY <1>2, <3>2 DEF n
    <3>4. r[<<s, Len(f), TRUE>>] = AviFinal(m, Len(f) = s + 4 + HdrlLength(m))
      <4>1. GivesFinal(r, m, f, s)
        BY <1>1, <1>2, <1>4, <1>5, <3>1, <3>3, ListIsTaken
      <4>2. QED
        BY <4>1 DEF GivesFinal
    <3>5. QED
      BY <1>6, <3>2, <3>4 DEF n, b
  <2>3. QED
    BY <2>1, <2>2
<1> DEFINE v == m.x * m.y
<1>8. Upload!Duration(m) = Upload!Read(v, 16)
  BY DEF AviMedium, Upload!Duration, Upload!Base
<1>9. v \in Nat /\ (m.x = 0 \/ m.y = 0 => v = 0) /\ (m.x # 0 /\ m.y # 0 => v > 0)
  <2>1. m.x \in Nat /\ m.y \in Nat
    BY <1>1 DEF AviFields
  <2>2. \A x, y \in Nat : x > 0 /\ y > 0 => x * y > 0
    OBVIOUS
  <2>3. \A x \in Nat : x # 0 => x > 0
    OBVIOUS
  <2>4. m.x = 0 \/ m.y = 0 => v = 0
    BY <2>1
  <2>5. QED
    BY <2>1, <2>2, <2>3, <2>4, Product
<1> HIDE DEF v
<1>10. Upload!Duration(m) = [is |-> "read", num |-> v, den |-> 16]
  BY <1>8 DEF Upload!Read
<1>11. d = IF whole /\ m.x # 0 /\ m.y # 0 THEN Upload!Duration(m) ELSE Upload!Null
  BY <1>7, <1>8 DEF AviFinal, v
<1>12. QED
  BY <1>9, <1>10, <1>11 DEF TrueDuration, d, n, w

\* An AVI file is known as one once its tags have arrived.
LEMMA AviIsDetected ==
  ASSUME NEW m, AviMedium(m), NEW f \in Seq(Nat), Part(f, 0, Upload!Written(m))
  PROVE  Upload!DetectVideoFormat(f) = IF Len(f) >= 6 THEN "avi" ELSE "none"
<1> DEFINE riff == Upload!Riff
           a == 0
           c == 4
<1>1. Part(f, a, riff) /\ Part(f, c, Upload!AviTag) /\ IsTag(riff) /\ IsTag(Upload!AviTag)
      /\ riff[1] = 8 /\ riff[2] = 1 /\ a \in Nat /\ c \in Nat /\ Len(f) \in Nat
  BY AviPlaced, Tags DEF AviPlaces
<1> HIDE DEF riff
<1>2. (Len(f) >= 1 => f[1] = 8) /\ (Len(f) >= 2 => f[2] = 1)
  <2>1. Len(riff) = 2
    BY <1>1 DEF IsTag
  <2>2. \A i \in 1..2 : 0 + i <= Len(f) => f[0 + i] = riff[i]
    BY <1>1, <2>1 DEF Part
  <2>3. 1 \in 1..2 /\ 2 \in 1..2 /\ 0 + 1 = 1 /\ 0 + 2 = 2
    OBVIOUS
  <2>4. QED
    BY ONLY <1>1, <2>2, <2>3
<1>3. ~(Upload!Has(f, 0, 3) /\ Upload!At(f, 1) = 9)
  BY <1>1, <1>2 DEF Upload!Has, Upload!At
<1>4. ~Upload!DetectWebm(f)
  <2> DEFINE t == <<1, 10, 13, 15>>
  <2>1. Len(t) = 4 /\ t[1] = 1
    OBVIOUS
  <2> HIDE DEF t
  <2>2. ~Lies(f, 0, t)
    <3>1. SUFFICES ASSUME Lies(f, 0, t) PROVE FALSE
      OBVIOUS
    <3>2. Len(f) >= 1 /\ 1 \in 1..Len(t)
      BY <1>1, <2>1, <3>1 DEF Lies, Upload!Has
    <3>3. f[0 + 1] = t[1]
      BY <3>1, <3>2 DEF Lies
    <3>4. QED
      BY <1>2, <2>1, <3>2, <3>3
  <2>3. QED
    BY <2>2, OnlyEbmlIsWebm DEF t
<1>5. Upload!DetectAvi(f) <=> Len(f) >= 6
  <2> HIDE DEF a, c
  <2>1. a + 2 <= Len(f) => Upload!Tag(f, a) = riff
    BY <1>1, TagIsRead
  <2>2. c + 2 <= Len(f) => Upload!Tag(f, c) = Upload!AviTag
    BY <1>1, TagIsRead
  <2>3. Upload!DetectAvi(f) <=> 6 <= Len(f) /\ Upload!Tag(f, 0) = riff /\ Upload!Tag(f, 4) = Upload!AviTag
    BY DEF Upload!DetectAvi, Upload!Wide, Upload!Has, riff
  <2>4. QED
    BY <1>1, <2>1, <2>2, <2>3 DEF a, c
<1>6. QED
  BY <1>3, <1>4, <1>5 DEF Upload!DetectVideoFormat, Upload!Ftyp

\* The bytes of a number, and its value from them.
Bytes == 0..255
Byte(v, k) == (v \div 256^k) % 256
InBytes(v) ==
  /\ Byte(v, 0) \in Bytes /\ Byte(v, 1) \in Bytes /\ Byte(v, 2) \in Bytes /\ Byte(v, 3) \in Bytes
  /\ v < 256^2 => Byte(v, 1) * 256 + Byte(v, 0) = v
  /\ v < 256^3 => (Byte(v, 2) * 256 + Byte(v, 1)) * 256 + Byte(v, 0) = v
  /\ v < 256^4 => ((Byte(v, 3) * 256 + Byte(v, 2)) * 256 + Byte(v, 1)) * 256 + Byte(v, 0) = v

\* A number below a power of 256 is put together from that many bytes.
LEMMA NumberInBytes ==
  ASSUME NEW v \in Nat
  PROVE  InBytes(v)
<1> DEFINE q == v \div 256
           s == q \div 256
           t == s \div 256
<1>1. 256^0 = 1 /\ 256^1 = 256 /\ 256^2 = 65536 /\ 256^3 = 16777216
  OBVIOUS
<1>2. v \div 1 = v /\ q \in Nat /\ s \in Nat /\ t \in Nat
  OBVIOUS
<1>3. v \div 65536 = s /\ v \div 16777216 = t
  OBVIOUS
<1>4. v = q * 256 + (v % 256) /\ q = s * 256 + (q % 256) /\ s = t * 256 + (s % 256)
  OBVIOUS
<1>5. Byte(v, 0) = v % 256 /\ Byte(v, 1) = q % 256 /\ Byte(v, 2) = s % 256 /\ Byte(v, 3) = t % 256
  BY <1>1, <1>2, <1>3 DEF Byte
<1>6. (v < 256^2 => q < 256) /\ (v < 256^3 => s < 256) /\ (v < 256^4 => t < 256)
  OBVIOUS
<1>7. \A n \in Nat : (n % 256) \in 0..255 /\ (n < 256 => n % 256 = n)
  OBVIOUS
<1> HIDE DEF q, s, t
<1>8. (v % 256) \in 0..255 /\ (q % 256) \in 0..255 /\ (s % 256) \in 0..255 /\ (t % 256) \in 0..255
  BY <1>2, <1>7
<1>9. v < 256^2 => Byte(v, 1) * 256 + Byte(v, 0) = v
  <2>1. SUFFICES ASSUME v < 256^2 PROVE Byte(v, 1) * 256 + Byte(v, 0) = v
    OBVIOUS
  <2>2. Byte(v, 1) = q
    BY <1>2, <1>5, <1>6, <1>7, <2>1
  <2>3. Byte(v, 1) * 256 + Byte(v, 0) = q * 256 + (v % 256)
    BY <1>5, <2>2, Zenon
  <2>4. QED
    BY <1>4, <2>3, Zenon
<1>10. v < 256^3 => (Byte(v, 2) * 256 + Byte(v, 1)) * 256 + Byte(v, 0) = v
  <2>1. SUFFICES ASSUME v < 256^3 PROVE (Byte(v, 2) * 256 + Byte(v, 1)) * 256 + Byte(v, 0) = v
    OBVIOUS
  <2>2. Byte(v, 2) = s
    BY <1>2, <1>5, <1>6, <1>7, <2>1
  <2>3. Byte(v, 2) * 256 + Byte(v, 1) = s * 256 + (q % 256)
    BY <1>5, <2>2, Zenon
  <2>4. Byte(v, 2) * 256 + Byte(v, 1) = q
    BY <1>4, <2>3, Zenon
  <2>5. (Byte(v, 2) * 256 + Byte(v, 1)) * 256 + Byte(v, 0) = q * 256 + (v % 256)
    BY <1>5, <2>4, Zenon
  <2>6. QED
    BY <1>4, <2>5, Zenon
<1>11. v < 256^4 => ((Byte(v, 3) * 256 + Byte(v, 2)) * 256 + Byte(v, 1)) * 256 + Byte(v, 0) = v
  <2>1. SUFFICES ASSUME v < 256^4 PROVE ((Byte(v, 3) * 256 + Byte(v, 2)) * 256 + Byte(v, 1)) * 256 + Byte(v, 0) = v
    OBVIOUS
  <2>2. Byte(v, 3) = t
    BY <1>2, <1>5, <1>6, <1>7, <2>1
  <2>3. Byte(v, 3) * 256 + Byte(v, 2) = t * 256 + (s % 256)
    BY <1>5, <2>2, Zenon
  <2>4. Byte(v, 3) * 256 + Byte(v, 2) = s
    BY <1>4, <2>3, Zenon
  <2>5. (Byte(v, 3) * 256 + Byte(v, 2)) * 256 + Byte(v, 1) = s * 256 + (q % 256)
    BY <1>5, <2>4, Zenon
  <2>6. (Byte(v, 3) * 256 + Byte(v, 2)) * 256 + Byte(v, 1) = q
    BY <1>4, <2>5, Zenon
  <2>7. ((Byte(v, 3) * 256 + Byte(v, 2)) * 256 + Byte(v, 1)) * 256 + Byte(v, 0) = q * 256 + (v % 256)
    BY <1>5, <2>6, Zenon
  <2>8. QED
    BY <1>4, <2>7, Zenon
<1>12. Byte(v, 0) \in Bytes /\ Byte(v, 1) \in Bytes /\ Byte(v, 2) \in Bytes /\ Byte(v, 3) \in Bytes
  <2>1. 0..255 = Bytes
    BY DEF Bytes
  <2>2. Byte(v, 0) \in 0..255 /\ Byte(v, 1) \in 0..255 /\ Byte(v, 2) \in 0..255 /\ Byte(v, 3) \in 0..255
    BY ONLY <1>5, <1>8
  <2>3. QED
    BY <2>1, <2>2
<1>13. QED
  BY <1>9, <1>10, <1>11, <1>12, Zenon DEF InBytes

\* The sequences of them.
Spelled(v) ==
  /\ Upload!Big(v, 2, 256) = <<Byte(v, 1), Byte(v, 0)>>
  /\ Upload!Big(v, 4, 256) = <<Byte(v, 3), Byte(v, 2), Byte(v, 1), Byte(v, 0)>>
  /\ Upload!Little(v, 2, 256) = <<Byte(v, 0), Byte(v, 1)>>
  /\ Upload!Little(v, 3, 256) = <<Byte(v, 0), Byte(v, 1), Byte(v, 2)>>
  /\ Upload!Little(v, 4, 256) = <<Byte(v, 0), Byte(v, 1), Byte(v, 2), Byte(v, 3)>>

\* Big and Little spell a number by its bytes.
LEMMA NumberSpelled ==
  ASSUME NEW v \in Nat
  PROVE  Spelled(v)
<1>1. \A n, i : Byte(v, n - i) = (v \div 256^(n - i)) % 256
  BY DEF Byte
<1>2. Upload!Big(v, 2, 256) = <<Byte(v, 1), Byte(v, 0)>>
  <2> DEFINE g == [i \in 1..2 |-> IF 2 - i > 3 THEN 0 ELSE (v \div 256^(2 - i)) % 256]
  <2>1. 2 - 1 = 1 /\ 2 - 2 = 0
    OBVIOUS
  <2>2. g[1] = Byte(v, 1) /\ g[2] = Byte(v, 0)
    BY <2>1 DEF Byte
  <2>3. g = [i \in 1..2 |-> g[i]]
    OBVIOUS
  <2>4. Upload!Big(v, 2, 256) = g
    BY DEF Upload!Big
  <2> HIDE DEF g
  <2>5. QED
    BY <2>2, <2>3, <2>4
<1>3. Upload!Big(v, 4, 256) = <<Byte(v, 3), Byte(v, 2), Byte(v, 1), Byte(v, 0)>>
  <2> DEFINE g == [i \in 1..4 |-> IF 4 - i > 3 THEN 0 ELSE (v \div 256^(4 - i)) % 256]
  <2>1. 4 - 1 = 3 /\ 4 - 2 = 2 /\ 4 - 3 = 1 /\ 4 - 4 = 0
    OBVIOUS
  <2>2. g[1] = Byte(v, 3) /\ g[2] = Byte(v, 2) /\ g[3] = Byte(v, 1) /\ g[4] = Byte(v, 0)
    BY <2>1 DEF Byte
  <2>3. g = [i \in 1..4 |-> g[i]]
    OBVIOUS
  <2>4. Upload!Big(v, 4, 256) = g
    BY DEF Upload!Big
  <2> HIDE DEF g
  <2>5. QED
    BY <2>2, <2>3, <2>4
<1>4. Upload!Little(v, 2, 256) = <<Byte(v, 0), Byte(v, 1)>>
  <2> DEFINE g == [i \in 1..2 |-> (v \div 256^(i - 1)) % 256]
  <2>1. 1 - 1 = 0 /\ 2 - 1 = 1
    OBVIOUS
  <2>2. g[1] = Byte(v, 0) /\ g[2] = Byte(v, 1)
    BY <2>1 DEF Byte
  <2>3. g = [i \in 1..2 |-> g[i]]
    OBVIOUS
  <2>4. Upload!Little(v, 2, 256) = g
    BY DEF Upload!Little
  <2> HIDE DEF g
  <2>5. QED
    BY <2>2, <2>3, <2>4
<1>5. Upload!Little(v, 3, 256) = <<Byte(v, 0), Byte(v, 1), Byte(v, 2)>>
  <2> DEFINE g == [i \in 1..3 |-> (v \div 256^(i - 1)) % 256]
  <2>1. 1 - 1 = 0 /\ 2 - 1 = 1 /\ 3 - 1 = 2
    OBVIOUS
  <2>2. g[1] = Byte(v, 0) /\ g[2] = Byte(v, 1) /\ g[3] = Byte(v, 2)
    BY <2>1 DEF Byte
  <2>3. g = [i \in 1..3 |-> g[i]]
    OBVIOUS
  <2>4. Upload!Little(v, 3, 256) = g
    BY DEF Upload!Little
  <2> HIDE DEF g
  <2>5. QED
    BY <2>2, <2>3, <2>4
<1>6. Upload!Little(v, 4, 256) = <<Byte(v, 0), Byte(v, 1), Byte(v, 2), Byte(v, 3)>>
  <2> DEFINE g == [i \in 1..4 |-> (v \div 256^(i - 1)) % 256]
  <2>1. 1 - 1 = 0 /\ 2 - 1 = 1 /\ 3 - 1 = 2 /\ 4 - 1 = 3
    OBVIOUS
  <2>2. g[1] = Byte(v, 0) /\ g[2] = Byte(v, 1) /\ g[3] = Byte(v, 2) /\ g[4] = Byte(v, 3)
    BY <2>1 DEF Byte
  <2>3. g = [i \in 1..4 |-> g[i]]
    OBVIOUS
  <2>4. Upload!Little(v, 4, 256) = g
    BY DEF Upload!Little
  <2> HIDE DEF g
  <2>5. QED
    BY <2>2, <2>3, <2>4
<1>7. QED
  BY <1>2, <1>3, <1>4, <1>5, <1>6 DEF Spelled

\* A part of a file that has arrived is what a slice of it gives.
LEMMA PartIsSliced ==
  ASSUME NEW f \in Seq(Nat), NEW o \in Nat, NEW t \in Seq(Nat), Len(t) > 0, Part(f, o, t),
         NEW e, e = o + Len(t), e <= Len(f)
  PROVE  Upload!Slice(f, o, e) = t
<1>1. Sliced(f, o, e, t)
  BY SliceLies
<1>2. \A i \in 1..Len(t) : o + i <= Len(f)
  OBVIOUS
<1>3. Lies(f, o, t)
  BY <1>2 DEF Lies, Part, Upload!Has
<1>4. QED
  BY <1>1, <1>3 DEF Sliced

\* A number that is written in n bytes is read back from them.
BigBytes(v, n) ==
  /\ Upload!Big(v, n, 256) \in Seq(Bytes) /\ Len(Upload!Big(v, n, 256)) = n
  /\ \A f \in Seq(Nat), o \in Nat :
       Part(f, o, Upload!Big(v, n, 256)) /\ o + n <= Len(f) => Upload!BE(f, o, n, 256) = v
LittleBytes(v, n) ==
  /\ Upload!Little(v, n, 256) \in Seq(Bytes) /\ Len(Upload!Little(v, n, 256)) = n
  /\ \A f \in Seq(Nat), o \in Nat :
       Part(f, o, Upload!Little(v, n, 256)) /\ o + n <= Len(f) => Upload!LE(f, o, n, 256) = v

\* A big-endian number of four bytes is read as it is written.
LEMMA FourBigBytes ==
  ASSUME NEW v \in Nat, v < 256^4
  PROVE  BigBytes(v, 4)
<1> DEFINE s == Upload!Big(v, 4, 256)
           a == Byte(v, 3)
           b == Byte(v, 2)
           c == Byte(v, 1)
           d == Byte(v, 0)
<1>1. InBytes(v) /\ Spelled(v)
  BY NumberInBytes, NumberSpelled
<1>2. s = <<a, b, c, d>>
  BY <1>1 DEF Spelled
<1>3. a \in Bytes /\ b \in Bytes /\ c \in Bytes /\ d \in Bytes /\ ((a * 256 + b) * 256 + c) * 256 + d = v
  BY <1>1 DEF InBytes
<1> HIDE DEF s, a, b, c, d
<1>4. s \in Seq(Bytes) /\ Len(s) = 4
  BY <1>2, <1>3
<1>5. ASSUME NEW f \in Seq(Nat), NEW o \in Nat, Part(f, o, s), o + 4 <= Len(f)
      PROVE  Upload!BE(f, o, 4, 256) = v
  <2>1. IsBig(Upload!BE(f, o, 4, 256), f, o, 4, 256)
    BY <1>5, BigNumbers DEF Upload!Has
  <2>2. 1 \in 1..Len(s) /\ 2 \in 1..Len(s) /\ 3 \in 1..Len(s) /\ 4 \in 1..Len(s)
    BY <1>4
  <2>3. o + 1 <= Len(f) /\ o + 2 <= Len(f) /\ o + 3 <= Len(f) /\ o + 4 <= Len(f)
    BY <1>5
  <2>4. f[o + 1] = s[1] /\ f[o + 2] = s[2] /\ f[o + 3] = s[3] /\ f[o + 4] = s[4]
    BY <1>5, <2>2, <2>3, Zenon DEF Part
  <2>5. f[o + 1] = a /\ f[o + 2] = b /\ f[o + 3] = c /\ f[o + 4] = d
    BY <1>2, <2>4
  <2>6. Upload!BE(f, o, 4, 256) = ((f[o + 1] * 256 + f[o + 2]) * 256 + f[o + 3]) * 256 + f[o + 4]
    BY <2>1 DEF IsBig
  <2>7. QED
    BY <1>3, <2>5, <2>6, Zenon
<1>6. QED
  BY <1>4, <1>5 DEF BigBytes, s

\* A big-endian number of two bytes is read as it is written.
LEMMA TwoBigBytes ==
  ASSUME NEW v \in Nat, v < 256^2
  PROVE  BigBytes(v, 2)
<1> DEFINE s == Upload!Big(v, 2, 256)
           c == Byte(v, 1)
           d == Byte(v, 0)
<1>1. InBytes(v) /\ Spelled(v)
  BY NumberInBytes, NumberSpelled
<1>2. s = <<c, d>>
  BY <1>1 DEF Spelled
<1>3. c \in Bytes /\ d \in Bytes /\ c * 256 + d = v
  BY <1>1 DEF InBytes
<1> HIDE DEF s, c, d
<1>4. s \in Seq(Bytes) /\ Len(s) = 2
  BY <1>2, <1>3
<1>5. ASSUME NEW f \in Seq(Nat), NEW o \in Nat, Part(f, o, s), o + 2 <= Len(f)
      PROVE  Upload!BE(f, o, 2, 256) = v
  <2>1. IsBig(Upload!BE(f, o, 2, 256), f, o, 2, 256)
    BY <1>5, BigNumbers DEF Upload!Has
  <2>2. 1 \in 1..Len(s) /\ 2 \in 1..Len(s)
    BY <1>4
  <2>3. o + 1 <= Len(f) /\ o + 2 <= Len(f)
    BY <1>5
  <2>4. f[o + 1] = s[1] /\ f[o + 2] = s[2]
    BY <1>5, <2>2, <2>3, Zenon DEF Part
  <2>5. f[o + 1] = c /\ f[o + 2] = d
    BY <1>2, <2>4
  <2>6. Upload!BE(f, o, 2, 256) = f[o + 1] * 256 + f[o + 2]
    BY <2>1 DEF IsBig
  <2>7. QED
    BY <1>3, <2>5, <2>6, Zenon
<1>6. QED
  BY <1>4, <1>5 DEF BigBytes, s

\* A little-endian number of two bytes is read as it is written.
LEMMA TwoLittleBytes ==
  ASSUME NEW v \in Nat, v < 256^2
  PROVE  LittleBytes(v, 2)
<1> DEFINE s == Upload!Little(v, 2, 256)
           c == Byte(v, 1)
           d == Byte(v, 0)
<1>1. InBytes(v) /\ Spelled(v)
  BY NumberInBytes, NumberSpelled
<1>2. s = <<d, c>>
  BY <1>1 DEF Spelled
<1>3. c \in Bytes /\ d \in Bytes /\ c * 256 + d = v
  BY <1>1 DEF InBytes
<1> HIDE DEF s, c, d
<1>4. s \in Seq(Bytes) /\ Len(s) = 2
  BY <1>2, <1>3
<1>5. ASSUME NEW f \in Seq(Nat), NEW o \in Nat, Part(f, o, s), o + 2 <= Len(f)
      PROVE  Upload!LE(f, o, 2, 256) = v
  <2>1. IsLittle(Upload!LE(f, o, 2, 256), f, o, 2, 256)
    BY <1>5, LittleNumbers DEF Upload!Has
  <2>2. 1 \in 1..Len(s) /\ 2 \in 1..Len(s)
    BY <1>4
  <2>3. o + 1 <= Len(f) /\ o + 2 <= Len(f)
    BY <1>5
  <2>4. f[o + 1] = s[1] /\ f[o + 2] = s[2]
    BY <1>5, <2>2, <2>3, Zenon DEF Part
  <2>5. f[o + 1] = d /\ f[o + 2] = c
    BY <1>2, <2>4
  <2>6. Upload!LE(f, o, 2, 256) = f[o + 2] * 256 + f[o + 1]
    BY <2>1 DEF IsLittle
  <2>7. QED
    BY <1>3, <2>5, <2>6, Zenon
<1>6. QED
  BY <1>4, <1>5 DEF LittleBytes, s

\* A little-endian number of three bytes is read as it is written.
LEMMA ThreeLittleBytes ==
  ASSUME NEW v \in Nat, v < 256^3
  PROVE  LittleBytes(v, 3)
<1> DEFINE s == Upload!Little(v, 3, 256)
           b == Byte(v, 2)
           c == Byte(v, 1)
           d == Byte(v, 0)
<1>1. InBytes(v) /\ Spelled(v)
  BY NumberInBytes, NumberSpelled
<1>2. s = <<d, c, b>>
  BY <1>1 DEF Spelled
<1>3. b \in Bytes /\ c \in Bytes /\ d \in Bytes /\ (b * 256 + c) * 256 + d = v
  BY <1>1 DEF InBytes
<1> HIDE DEF s, b, c, d
<1>4. s \in Seq(Bytes) /\ Len(s) = 3
  BY <1>2, <1>3
<1>5. ASSUME NEW f \in Seq(Nat), NEW o \in Nat, Part(f, o, s), o + 3 <= Len(f)
      PROVE  Upload!LE(f, o, 3, 256) = v
  <2>1. IsLittle(Upload!LE(f, o, 3, 256), f, o, 3, 256)
    BY <1>5, LittleNumbers DEF Upload!Has
  <2>2. 1 \in 1..Len(s) /\ 2 \in 1..Len(s) /\ 3 \in 1..Len(s)
    BY <1>4
  <2>3. o + 1 <= Len(f) /\ o + 2 <= Len(f) /\ o + 3 <= Len(f)
    BY <1>5
  <2>4. f[o + 1] = s[1] /\ f[o + 2] = s[2] /\ f[o + 3] = s[3]
    BY <1>5, <2>2, <2>3, Zenon DEF Part
  <2>5. f[o + 1] = d /\ f[o + 2] = c /\ f[o + 3] = b
    BY <1>2, <2>4
  <2>6. Upload!LE(f, o, 3, 256) = (f[o + 3] * 256 + f[o + 2]) * 256 + f[o + 1]
    BY <2>1 DEF IsLittle
  <2>7. QED
    BY <1>3, <2>5, <2>6, Zenon
<1>6. QED
  BY <1>4, <1>5 DEF LittleBytes, s

\* Two pieces of bytes, one after the other.
Splits(f, s, n, t) ==
  /\ s \o t \in Seq(Bytes) /\ Len(s \o t) = n + Len(t) /\ Len(t) \in Nat
  /\ Part(f, 0, s \o t) => Part(f, 0, s) /\ Part(f, n, t)

\* A sequence of bytes is one of naturals.
LEMMA BytesAreNat ==
  ASSUME NEW t \in Seq(Bytes)
  PROVE  t \in Seq(Nat)
<1>1. \A v : v \in Bytes => v \in Nat
  BY DEF Bytes
<1>2. \A i \in 1..Len(t) : t[i] \in Nat
  BY <1>1
<1>3. QED
  BY <1>2

\* A file that begins like two pieces holds the first, and the second after it.
LEMMA PiecesSplit ==
  ASSUME NEW f \in Seq(Nat), NEW s \in Seq(Bytes), NEW t \in Seq(Bytes), NEW n, Len(s) = n
  PROVE  Splits(f, s, n, t)
<1> DEFINE o == 0
<1>1. s \in Seq(Nat) /\ t \in Seq(Nat) /\ o \in Nat /\ n \in Nat /\ o + n = n
  BY BytesAreNat
<1>2. Joins(Bytes, s, t)
  BY Joined
<1> HIDE DEF o
<1>3. Part(f, o, s \o t) => Follow(f, o, s, n, t)
  BY <1>1, PartsFollow
<1>4. Part(f, o, s \o t) => Part(f, o, s) /\ Part(f, n, t)
  BY <1>1, <1>3 DEF Follow
<1>5. QED
  BY <1>2, <1>4 DEF Splits, Joins, o

\* What an image is stored as, and an answer about it that is right: nothing,
\* or its true format and size, and those when the file is whole.
ImageName(m) == IF m.format \in {"vp8x", "vp8l"} THEN "webp" ELSE m.format
TrueInfo(m) == [format |-> ImageName(m), size |-> Upload!Size(m.x, m.y)]
TrueImage(info, m, whole) ==
  /\ info.size = Upload!Null \/ (info = TrueInfo(m) /\ m.x > 0 /\ m.y > 0)
  /\ whole /\ m.x > 0 /\ m.y > 0 => info = TrueInfo(m)

\* An image that is read as what was written, or not at all, is read truly.
LEMMA SizedTruly ==
  ASSUME NEW m, m.x \in Nat, m.y \in Nat, NEW whole \in BOOLEAN, NEW info,
         info \in {Upload!NoImage, Upload!Sized(ImageName(m), m.x, m.y)},
         whole => info = Upload!Sized(ImageName(m), m.x, m.y)
  PROVE  TrueImage(info, m, whole)
<1>1. Upload!NoImage.size = Upload!Null
  BY DEF Upload!NoImage
<1>2. CASE m.x > 0 /\ m.y > 0
  <2>1. m.x # 0 /\ m.y # 0
    BY <1>2
  <2>2. Upload!Sized(ImageName(m), m.x, m.y) = TrueInfo(m)
    BY <2>1 DEF Upload!Sized, TrueInfo
  <2>3. QED
    BY <1>1, <1>2, <2>2, Zenon DEF TrueImage
<1>3. CASE ~(m.x > 0 /\ m.y > 0)
  <2>1. m.x = 0 \/ m.y = 0
    BY <1>3
  <2>2. Upload!Sized(ImageName(m), m.x, m.y).size = Upload!Null
    BY <2>1 DEF Upload!Sized
  <2>3. QED
    BY <1>1, <1>3, <2>2, Zenon DEF TrueImage
<1>4. QED
  BY <1>2, <1>3

\* The first two cells of an image file, as far as they are there, and the
\* answer about it.
Begins(f) == (Len(f) >= 1 => f[1] \in {137, 71, 255, 82}) /\ (Len(f) >= 2 => f[2] \in {80, 73, 216})
ImageSeen(m, f) ==
  /\ Upload!Written(m) \in Seq(Bytes)
  /\ Part(f, 0, Upload!Written(m)) =>
       Begins(f) /\ TrueImage(Upload!InspectImageBuffer(f), m, Len(f) = Len(Upload!Written(m)))

\* A part of a sequence begins with its cells.
LEMMA PartBegins ==
  ASSUME NEW f \in Seq(Nat), NEW t \in Seq(Nat), Len(t) >= 2, Part(f, 0, t)
  PROVE  (Len(f) >= 1 => f[1] = t[1]) /\ (Len(f) >= 2 => f[2] = t[2])
<1>1. 1 \in 1..Len(t) /\ 2 \in 1..Len(t) /\ 0 + 1 = 1 /\ 0 + 2 = 2
  OBVIOUS
<1>2. (0 + 1 <= Len(f) => f[0 + 1] = t[1]) /\ (0 + 2 <= Len(f) => f[0 + 2] = t[2])
  BY <1>1, Zenon DEF Part
<1>3. QED
  BY <1>1, <1>2

\* A PNG file.
PngFields(m) == m.format = "png" /\ m.x \in Nat /\ m.y \in Nat /\ m.x < 256^4 /\ m.y < 256^4

\* A PNG medium that conforms has the fields its layout needs.
LEMMA PngHolds ==
  ASSUME NEW m, Upload!Conforms(m), m.format = "png"
  PROVE  PngFields(m)
<1>1. m.x \in 0..2 * (2^30 - 1) + 1 /\ m.y \in 0..2 * (2^30 - 1) + 1
  BY DEF Upload!Conforms
<1>2. \A v \in 0..2 * (2^30 - 1) + 1 : v \in Nat /\ v < 256^4
  OBVIOUS
<1>3. QED
  BY <1>1, <1>2 DEF PngFields

\* Eight bytes of padding.
LEMMA EightZeros == Upload!Big(0, 8, 256) \in Seq(Bytes) /\ Len(Upload!Big(0, 8, 256)) = 8
<1> DEFINE g == [i \in 1..8 |-> IF 8 - i > 3 THEN 0 ELSE (0 \div 256^(8 - i)) % 256]
<1>1. Upload!Big(0, 8, 256) = g
  BY DEF Upload!Big
<1>2. \A i \in 1..8 : g[i] \in Bytes
  <2>1. \A k \in 0..3 : 0 \div 256^k = 0
    <3>1. 0 \div 256^0 = 0 /\ 0 \div 256^1 = 0 /\ 0 \div 256^2 = 0 /\ 0 \div 256^3 = 0
      OBVIOUS
    <3>2. \A k \in 0..3 : k = 0 \/ k = 1 \/ k = 2 \/ k = 3
      OBVIOUS
    <3>3. QED
      BY <3>1, <3>2, Zenon
  <2>2. 0 % 256 = 0 /\ 0 \in Bytes
    BY DEF Bytes
  <2>3. TAKE i \in 1..8
  <2>4. 8 - i > 3 \/ 8 - i \in 0..3
    OBVIOUS
  <2>5. QED
    BY <2>1, <2>2, <2>4
<1>3. Len(g) = 8 /\ g \in Seq(Bytes)
  <2>1. g = [i \in 1..8 |-> g[i]] /\ DOMAIN g = 1..8
    OBVIOUS
  <2> HIDE DEF g
  <2>2. QED
    BY <1>2, <2>1
<1>4. QED
  BY <1>1, <1>3

\* A PNG file, whole or cut, shows its true size or none.
LEMMA PngIsSeen ==
  ASSUME NEW m, PngFields(m), NEW f \in Seq(Nat)
  PROVE  ImageSeen(m, f)
<1> DEFINE sig == Upload!PngSignature
           gap == Upload!Big(0, 8, 256)
           wide == Upload!Big(m.x, 4, 256)
           high == Upload!Big(m.y, 4, 256)
           w == Upload!Written(m)
           a == 8
           b == 16
           c == 20
<1>1. w = sig \o gap \o wide \o high
  BY DEF PngFields, Upload!Written, Upload!PngFile
<1>2. sig \in Seq(Bytes) /\ Len(sig) = a /\ sig[1] = 137 /\ sig[2] = 80
  BY DEF Upload!PngSignature, Bytes
<1>3. gap \in Seq(Bytes) /\ Len(gap) = 8
  BY EightZeros
<1>4. BigBytes(m.x, 4) /\ BigBytes(m.y, 4)
  BY FourBigBytes DEF PngFields
<1>5. wide \in Seq(Bytes) /\ Len(wide) = 4 /\ high \in Seq(Bytes) /\ Len(high) = 4
  BY <1>4 DEF BigBytes
<1> HIDE DEF sig, gap, wide, high, w
<1>6. Splits(f, sig, a, gap)
  <2>1. Len(sig) = a
    BY <1>2
  <2> HIDE DEF a
  <2>2. QED
    BY <1>2, <1>3, <2>1, PiecesSplit
<1>7. sig \o gap \in Seq(Bytes) /\ Len(sig \o gap) = b
  BY <1>3, <1>6 DEF Splits
<1>8. Splits(f, sig \o gap, b, wide)
  BY <1>5, <1>7, PiecesSplit
<1>9. sig \o gap \o wide \in Seq(Bytes) /\ Len(sig \o gap \o wide) = c
  BY <1>5, <1>8 DEF Splits
<1>10. Splits(f, sig \o gap \o wide, c, high)
  BY <1>5, <1>9, PiecesSplit
<1>11. w \in Seq(Bytes) /\ Len(w) = 24
  BY <1>1, <1>5, <1>10 DEF Splits
<1>12. SUFFICES ASSUME Part(f, 0, w)
                PROVE  Begins(f) /\ TrueImage(Upload!InspectImageBuffer(f), m, Len(f) = Len(w))
  BY <1>11 DEF ImageSeen, w
<1>13. Part(f, 0, sig) /\ Part(f, b, wide) /\ Part(f, c, high)
  BY <1>1, <1>6, <1>8, <1>10, <1>12 DEF Splits
<1>14. Begins(f) /\ (Len(f) >= 1 => f[1] = 137)
  <2>1. sig \in Seq(Nat) /\ Len(sig) >= 2
    BY <1>2, BytesAreNat
  <2>2. (Len(f) >= 1 => f[1] = sig[1]) /\ (Len(f) >= 2 => f[2] = sig[2])
    BY <1>13, <2>1, PartBegins
  <2>3. QED
    BY <1>2, <2>2 DEF Begins
<1>15. FirstTells(f)
  BY FirstCell
<1> DEFINE info == Upload!InspectPng(f)
<1>16. /\ info \in {Upload!NoImage, Upload!Sized("png", m.x, m.y)}
       /\ Len(f) = Len(w) => info = Upload!Sized("png", m.x, m.y)
  <2>1. CASE Len(f) >= 24
    <3>1. Upload!Has(f, 0, 24) /\ b + 4 <= Len(f) /\ c + 4 <= Len(f)
      BY <2>1 DEF Upload!Has
    <3>2. Upload!Slice(f, 0, 8) = sig
      <4> DEFINE e == 8
                 z == 0
      <4>1. sig \in Seq(Nat) /\ Len(sig) > 0 /\ z \in Nat /\ e = z + Len(sig) /\ e <= Len(f)
        BY <1>2, <2>1, BytesAreNat
      <4>2. Part(f, z, sig)
        BY <1>13
      <4> HIDE DEF e, z
      <4>3. Upload!Slice(f, z, e) = sig
        BY <4>1, <4>2, PartIsSliced
      <4>4. QED
        BY <4>3 DEF e, z
    <3>3. Upload!BE(f, 16, 4, 256) = m.x /\ Upload!BE(f, 20, 4, 256) = m.y
      <4>1. b \in Nat /\ c \in Nat
        OBVIOUS
      <4> HIDE DEF b, c
      <4>2. Upload!BE(f, b, 4, 256) = m.x
        BY <1>4, <1>13, <3>1, <4>1 DEF BigBytes, wide
      <4>3. Upload!BE(f, c, 4, 256) = m.y
        BY <1>4, <1>13, <3>1, <4>1 DEF BigBytes, high
      <4>4. QED
        BY <4>2, <4>3 DEF b, c
    <3>4. info = Upload!Sized("png", m.x, m.y)
      BY <3>1, <3>2, <3>3 DEF Upload!InspectPng, sig
    <3>5. QED
      BY <3>4
  <2>2. CASE ~(Len(f) >= 24)
    <3>1. ~Upload!Has(f, 0, 24) /\ Len(f) # Len(w)
      <4>1. \A n \in Nat : ~(n >= 24) => ~(0 + 24 <= n) /\ n # 24
        OBVIOUS
      <4>0. Len(f) \in Nat
        OBVIOUS
      <4>5. ~(Len(f) >= 24)
        BY <2>2
      <4>2. ~(0 + 24 <= Len(f)) /\ Len(f) # 24
        BY <4>0, <4>1, <4>5, Zenon
      <4>3. QED
        BY <1>11, <4>2, Zenon DEF Upload!Has
    <3>2. info = Upload!NoImage
      BY <3>1 DEF Upload!InspectPng
    <3>3. QED
      BY <3>1, <3>2
  <2>3. QED
    BY <2>1, <2>2
<1> HIDE DEF info
<1>17. ImageName(m) = "png"
  BY DEF PngFields, ImageName
<1>18. TrueImage(info, m, Len(f) = Len(w))
  BY <1>16, <1>17, SizedTruly DEF PngFields
<1>19. Upload!InspectGif(f) = Upload!NoImage /\ Upload!InspectJpeg(f) = Upload!NoImage /\ Upload!InspectWebp(f) = Upload!NoImage
  BY <1>14, <1>15 DEF FirstTells
<1>20. Upload!InspectImageBuffer(f) = info \/ (info.size = Upload!Null /\ Upload!InspectImageBuffer(f) = Upload!NoImage)
  BY <1>19 DEF Upload!InspectImageBuffer, Upload!OrElse, info
<1>21. TrueImage(Upload!InspectImageBuffer(f), m, Len(f) = Len(w))
  BY <1>18, <1>20 DEF TrueImage, Upload!NoImage, TrueInfo, Upload!Size, Upload!Null
<1>22. QED
  BY <1>14, <1>21

\* A file has its first cells exactly when it is that long.
LEMMA HasCells ==
  ASSUME NEW f \in Seq(Nat), NEW n \in Nat
  PROVE  (Upload!Has(f, 0, n) => Len(f) >= n) /\ (Len(f) >= n => Upload!Has(f, 0, n))
BY DEF Upload!Has

\* The answer of the one parser that knows the format is the answer.
Told(f, info) ==
  \/ Upload!InspectImageBuffer(f) = info
  \/ info.size = Upload!Null /\ Upload!InspectImageBuffer(f) = Upload!NoImage

\* What one parser tells truly, the service sees truly.
LEMMA BufferTruly ==
  ASSUME NEW m, NEW f, NEW info, NEW whole, TrueImage(info, m, whole), Told(f, info)
  PROVE  TrueImage(Upload!InspectImageBuffer(f), m, whole)
BY DEF TrueImage, Told, Upload!NoImage, TrueInfo, Upload!Size, Upload!Null

\* A GIF file.
GifFields(m) == m.format = "gif" /\ m.x \in Nat /\ m.y \in Nat /\ m.x < 256^2 /\ m.y < 256^2

\* A GIF medium that conforms has the fields its layout needs.
LEMMA GifHolds ==
  ASSUME NEW m, Upload!Conforms(m), m.format = "gif"
  PROVE  GifFields(m)
<1>1. m.x \in 0..2^16 - 1 /\ m.y \in 0..2^16 - 1
  BY DEF Upload!Conforms
<1>2. \A v \in 0..2^16 - 1 : v \in Nat /\ v < 256^2
  OBVIOUS
<1>3. QED
  BY <1>1, <1>2 DEF GifFields

\* A GIF file, whole or cut, shows its true size or none.
LEMMA GifIsSeen ==
  ASSUME NEW m, GifFields(m), NEW f \in Seq(Nat)
  PROVE  ImageSeen(m, f)
<1> DEFINE sig == Upload!GifSignature
           wide == Upload!Little(m.x, 2, 256)
           high == Upload!Little(m.y, 2, 256)
           w == Upload!Written(m)
           z == 0
           a == 6
           b == 8
           c == 10
<1>1. w = sig \o wide \o high
  BY DEF GifFields, Upload!Written, Upload!GifFile
<1>2. sig \in Seq(Bytes) /\ Len(sig) = a /\ sig[1] = 71 /\ sig[2] = 73
  BY DEF Upload!GifSignature, Bytes
<1>3. z \in Nat /\ a \in Nat /\ b \in Nat /\ c \in Nat /\ a + 2 = b /\ b + 2 = c /\ a = z + a /\ a > 0 /\ a >= 2
  OBVIOUS
<1>4. LittleBytes(m.x, 2) /\ LittleBytes(m.y, 2)
  BY TwoLittleBytes DEF GifFields
<1>5. wide \in Seq(Bytes) /\ Len(wide) = 2 /\ high \in Seq(Bytes) /\ Len(high) = 2
  BY <1>4 DEF LittleBytes
<1> HIDE DEF sig, wide, high, w, a, b, c
<1>6. Splits(f, sig, a, wide)
  BY <1>2, <1>5, PiecesSplit
<1>7. sig \o wide \in Seq(Bytes) /\ Len(sig \o wide) = b
  BY <1>3, <1>5, <1>6 DEF Splits
<1>8. Splits(f, sig \o wide, b, high)
  BY <1>5, <1>7, PiecesSplit
<1>9. w \in Seq(Bytes) /\ Len(w) = c
  BY <1>1, <1>3, <1>5, <1>8 DEF Splits
<1>10. SUFFICES ASSUME Part(f, 0, w)
                PROVE  Begins(f) /\ TrueImage(Upload!InspectImageBuffer(f), m, Len(f) = Len(w))
  BY <1>9 DEF ImageSeen, w
<1>11. Part(f, z, sig) /\ Part(f, a, wide) /\ Part(f, b, high)
  BY <1>1, <1>6, <1>8, <1>10 DEF Splits
<1>12. sig \in Seq(Nat)
  BY <1>2, BytesAreNat
<1>13. Begins(f) /\ (Len(f) >= 1 => f[1] = 71)
  <2>1. (Len(f) >= 1 => f[1] = sig[1]) /\ (Len(f) >= 2 => f[2] = sig[2])
    BY <1>2, <1>3, <1>11, <1>12, PartBegins
  <2>2. QED
    BY <1>2, <2>1 DEF Begins
<1> HIDE DEF z
<1>14. FirstTells(f) /\ Len(f) \in Nat
  BY FirstCell
<1> DEFINE info == Upload!InspectGif(f)
           full == Upload!Sized("gif", m.x, m.y)
<1>15. info \in {Upload!NoImage, full} /\ (Len(f) = Len(w) => info = full)
  <2>1. CASE Len(f) >= c
    <3>1. b <= Len(f) /\ a <= Len(f)
      BY <1>3, <1>14, <2>1
    <3>2. Upload!Slice(f, z, a) = sig
      BY <1>2, <1>3, <1>11, <1>12, <3>1, PartIsSliced
    <3>3. Upload!LE(f, a, 2, 256) = m.x
      BY <1>3, <1>4, <1>11, <3>1 DEF LittleBytes, wide
    <3>4. Upload!LE(f, b, 2, 256) = m.y
      BY <1>3, <1>4, <1>11, <2>1 DEF LittleBytes, high
    <3>5. Upload!Has(f, 0, c)
      BY <1>3, <2>1, HasCells
    <3>6. info = full
      BY <3>2, <3>3, <3>4, <3>5 DEF Upload!InspectGif, sig, z, a, b, c
    <3>7. QED
      BY <3>6
  <2>2. CASE ~(Len(f) >= c)
    <3>1. ~Upload!Has(f, 0, c)
      BY <1>3, <2>2, HasCells
    <3>2. info = Upload!NoImage
      BY <3>1 DEF Upload!InspectGif, c
    <3>3. Len(f) # Len(w)
      BY <1>3, <1>9, <1>14, <2>2
    <3>4. QED
      BY <3>2, <3>3
  <2>3. QED
    BY <2>1, <2>2
<1> HIDE DEF info
<1>16. TrueImage(info, m, Len(f) = Len(w))
  <2>1. ImageName(m) = "gif"
    BY DEF GifFields, ImageName
  <2>2. QED
    BY <1>15, <2>1, SizedTruly DEF GifFields
<1>17. Upload!InspectPng(f) = Upload!NoImage /\ Upload!InspectJpeg(f) = Upload!NoImage /\ Upload!InspectWebp(f) = Upload!NoImage
  BY <1>13, <1>14 DEF FirstTells
<1>18. Told(f, info)
  BY <1>17 DEF Told, Upload!InspectImageBuffer, Upload!OrElse, Upload!NoImage, info
<1>19. QED
  BY <1>13, <1>16, <1>18, BufferTruly

\* What every WebP file begins with.
HeaderCells(tag) == Upload!WebpHeader(tag)
WebpBegins(f, tag) ==
  /\ Begins(f) /\ (Len(f) >= 1 => f[1] = 82)
  /\ Upload!InspectWebp(f) = IF Len(f) >= 16 THEN Upload!WebpChunk(f, tag) ELSE Upload!NoImage

\* A WebP header is twenty bytes.
LEMMA HeaderIsWhole ==
  ASSUME NEW tag \in Bytes
  PROVE  Upload!WebpHeader(tag) \in Seq(Bytes) /\ Len(Upload!WebpHeader(tag)) = 20
BY DEF Upload!WebpHeader, Bytes

\* A file that begins like a WebP header is read by its tag.
LEMMA WebpIsBegun ==
  ASSUME NEW f \in Seq(Nat), NEW tag \in Bytes, Part(f, 0, Upload!WebpHeader(tag))
  PROVE  WebpBegins(f, tag)
<1> DEFINE head == Upload!WebpHeader(tag)
<1>1. head \in Seq(Nat) /\ Len(head) = 20 /\ Len(f) \in Nat
  BY HeaderIsWhole, BytesAreNat
<1>2. head[1] = 82 /\ head[2] = 73 /\ head[9] = 87 /\ head[10] = 80 /\ head[16] = tag
  BY DEF Upload!WebpHeader
<1> HIDE DEF head
<1>3. Begins(f) /\ (Len(f) >= 1 => f[1] = 82)
  <2>1. Part(f, 0, head) /\ Len(head) >= 2
    BY <1>1 DEF head
  <2>2. (Len(f) >= 1 => f[1] = head[1]) /\ (Len(f) >= 2 => f[2] = head[2])
    BY <1>1, <2>1, PartBegins
  <2>3. QED
    BY <1>2, <2>2 DEF Begins
<1>4. ASSUME Len(f) >= 16 PROVE Upload!InspectWebp(f) = Upload!WebpChunk(f, tag)
  <2>1. ASSUME NEW i \in 1..16 PROVE f[i] = head[i]
    <3>1. i \in 1..Len(head) /\ 0 + i = i /\ i <= Len(f)
      BY <1>1, <1>4
    <3>2. QED
      BY <3>1 DEF Part, head
  <2>2. f[1] = 82 /\ f[2] = 73 /\ f[9] = 87 /\ f[10] = 80 /\ f[16] = tag
    <3>1. 1 \in 1..16 /\ 2 \in 1..16 /\ 9 \in 1..16 /\ 10 \in 1..16 /\ 16 \in 1..16
      OBVIOUS
    <3>2. f[1] = head[1] /\ f[2] = head[2] /\ f[9] = head[9] /\ f[10] = head[10] /\ f[16] = head[16]
      BY <2>1, <3>1, Zenon
    <3>3. QED
      BY <1>2, <3>2, Zenon
  <2> DEFINE s == <<82, 73>>
             u == <<87, 80>>
             z == 0
             n == 2
             o == 8
             e == 10
  <2>3. s \in Seq(Nat) /\ Len(s) = n /\ s[1] = 82 /\ s[2] = 73 /\ u \in Seq(Nat) /\ Len(u) = n /\ u[1] = 87 /\ u[2] = 80
    OBVIOUS
  <2>4. /\ z \in Nat /\ n > 0 /\ n = z + n /\ o \in Nat /\ e = o + n /\ n <= Len(f) /\ e <= Len(f)
        /\ 1..n = {1, 2} /\ z + 1 = 1 /\ z + 2 = 2 /\ o + 1 = 9 /\ o + 2 = 10
    BY <1>1, <1>4
  <2>5. s \o u = Upload!WebpTag
    <3>1. s \o u \in Seq(Nat) /\ Len(s \o u) = 4 /\ Upload!WebpTag \in Seq(Nat) /\ Len(Upload!WebpTag) = 4
      BY DEF Upload!WebpTag
    <3>2. \A i \in 1..4 : (s \o u)[i] = Upload!WebpTag[i]
      BY DEF Upload!WebpTag
    <3> HIDE DEF s, u
    <3>3. QED
      BY <3>1, <3>2, SameSequence
  <2> HIDE DEF s, u, z, n, o, e
  <2>6. Upload!Slice(f, z, n) = s /\ Upload!Slice(f, o, e) = u
    <3>1. Part(f, z, s) /\ Part(f, o, u)
      <4>1. f[z + 1] = s[1] /\ f[z + 2] = s[2] /\ f[o + 1] = u[1] /\ f[o + 2] = u[2]
        BY <2>2, <2>3, <2>4, Zenon
      <4>2. \A i \in 1..n : i = 1 \/ i = 2
        BY <2>4
      <4>3. (\A i \in 1..n : f[z + i] = s[i]) /\ (\A i \in 1..n : f[o + i] = u[i])
        BY <4>1, <4>2, Zenon
      <4>4. QED
        BY <2>3, <4>3, Zenon DEF Part
    <3>2. Upload!Slice(f, z, n) = s
      BY <2>3, <2>4, <3>1, PartIsSliced
    <3>3. QED
      BY <2>3, <2>4, <3>1, <3>2, PartIsSliced
  <2>7. Upload!Has(f, 0, 16) /\ Upload!At(f, 15) = tag
    BY <1>1, <1>4, <2>2 DEF Upload!Has, Upload!At
  <2>8. QED
    BY <2>5, <2>6, <2>7 DEF Upload!InspectWebp, z, n, o, e
<1>5. ASSUME ~(Len(f) >= 16) PROVE Upload!InspectWebp(f) = Upload!NoImage
  <2>1. ~Upload!Has(f, 0, 16)
    BY <1>1, <1>5 DEF Upload!Has
  <2>2. QED
    BY <2>1 DEF Upload!InspectWebp
<1>6. QED
  BY <1>3, <1>4, <1>5, Zenon DEF WebpBegins

\* A WebP file with a header of its own, VP8X.
Vp8xFields(m) == m.format = "vp8x" /\ m.x \in Nat /\ m.y \in Nat /\ m.x - 1 \in Nat /\ m.y - 1 \in Nat
                 /\ m.x - 1 < 256^3 /\ m.y - 1 < 256^3

\* An extended WebP medium that conforms has the fields its layout needs.
LEMMA Vp8xHolds ==
  ASSUME NEW m, Upload!Conforms(m), m.format = "vp8x"
  PROVE  Vp8xFields(m)
<1>1. m.x \in 1..2^24 /\ m.y \in 1..2^24
  BY DEF Upload!Conforms
<1>2. \A v \in 1..2^24 : v \in Nat /\ v - 1 \in Nat /\ v - 1 < 256^3
  OBVIOUS
<1>3. QED
  BY <1>1, <1>2 DEF Vp8xFields

\* Four bytes of padding.
LEMMA FourZeros == Upload!Big(0, 4, 256) \in Seq(Bytes) /\ Len(Upload!Big(0, 4, 256)) = 4
<1>1. BigBytes(0, 4)
  BY FourBigBytes
<1>2. QED
  BY <1>1 DEF BigBytes

\* An extended WebP file, whole or cut, shows its true size or none.
LEMMA Vp8xIsSeen ==
  ASSUME NEW m, Vp8xFields(m), NEW f \in Seq(Nat)
  PROVE  ImageSeen(m, f)
<1> DEFINE head == Upload!WebpHeader(Upload!Vp8x)
           gap == Upload!Big(0, 4, 256)
           x == m.x - 1
           y == m.y - 1
           wide == Upload!Little(x, 3, 256)
           high == Upload!Little(y, 3, 256)
           w == Upload!Written(m)
           z == 0
           a == 20
           b == 24
           c == 27
           d == 30
<1>1. w = head \o gap \o wide \o high
  BY DEF Vp8xFields, Upload!Written, Upload!Vp8xFile
<1>2. head \in Seq(Bytes) /\ Len(head) = a /\ Upload!Vp8x \in Bytes
  <2>1. Upload!Vp8x \in Bytes
    BY DEF Upload!Vp8x, Bytes
  <2>2. QED
    BY <2>1, HeaderIsWhole
<1>3. /\ z \in Nat /\ a \in Nat /\ b \in Nat /\ c \in Nat /\ d \in Nat
      /\ a + 4 = b /\ b + 3 = c /\ c + 3 = d /\ d >= 16
  OBVIOUS
<1>4. LittleBytes(x, 3) /\ LittleBytes(y, 3)
  BY ThreeLittleBytes DEF Vp8xFields
<1>5. /\ wide \in Seq(Bytes) /\ Len(wide) = 3 /\ high \in Seq(Bytes) /\ Len(high) = 3
      /\ gap \in Seq(Bytes) /\ Len(gap) = 4
  BY <1>4, FourZeros DEF LittleBytes
<1>6. 1 + x = m.x /\ 1 + y = m.y
  BY DEF Vp8xFields
<1> HIDE DEF head, gap, x, y, wide, high, w, a, b, c, d
<1>7. Splits(f, head, a, gap)
  BY <1>2, <1>5, PiecesSplit
<1>8. head \o gap \in Seq(Bytes) /\ Len(head \o gap) = b
  BY <1>3, <1>5, <1>7 DEF Splits
<1>9. Splits(f, head \o gap, b, wide)
  BY <1>5, <1>8, PiecesSplit
<1>10. head \o gap \o wide \in Seq(Bytes) /\ Len(head \o gap \o wide) = c
  BY <1>3, <1>5, <1>9 DEF Splits
<1>11. Splits(f, head \o gap \o wide, c, high)
  BY <1>5, <1>10, PiecesSplit
<1>12. w \in Seq(Bytes) /\ Len(w) = d
  BY <1>1, <1>3, <1>5, <1>11 DEF Splits
<1>13. SUFFICES ASSUME Part(f, 0, w)
                PROVE  Begins(f) /\ TrueImage(Upload!InspectImageBuffer(f), m, Len(f) = Len(w))
  BY <1>12 DEF ImageSeen, w
<1>14. Part(f, z, head) /\ Part(f, b, wide) /\ Part(f, c, high)
  BY <1>1, <1>7, <1>9, <1>11, <1>13 DEF Splits
<1>15. WebpBegins(f, Upload!Vp8x)
  BY <1>2, <1>14, WebpIsBegun DEF head
<1> HIDE DEF z
<1>16. FirstTells(f) /\ Len(f) \in Nat
  BY FirstCell
<1> DEFINE info == Upload!InspectWebp(f)
           full == Upload!Sized("webp", m.x, m.y)
<1>17. info \in {Upload!NoImage, full} /\ (Len(f) = Len(w) => info = full)
  <2>1. CASE Len(f) >= d
    <3>1. Upload!LE(f, b, 3, 256) = x
      <4>1. b + 3 <= Len(f)
        BY <1>3, <1>16, <2>1
      <4>2. QED
        BY <1>3, <1>4, <1>14, <4>1 DEF LittleBytes, wide
    <3>2. Upload!LE(f, c, 3, 256) = y
      <4>1. c + 3 <= Len(f)
        BY <1>3, <1>16, <2>1
      <4>2. QED
        BY <1>3, <1>4, <1>14, <4>1 DEF LittleBytes, high
    <3>3. Upload!Has(f, 0, d) /\ Len(f) >= 16
      BY <1>3, <1>16, <2>1, HasCells
    <3>4. Upload!WebpChunk(f, Upload!Vp8x) = Upload!Sized("webp", 1 + x, 1 + y)
      BY <3>1, <3>2, <3>3 DEF Upload!WebpChunk, Upload!Vp8x, b, c, d
    <3>5. info = full
      BY <1>6, <1>15, <3>3, <3>4 DEF WebpBegins
    <3>6. QED
      BY <3>5
  <2>2. CASE ~(Len(f) >= d)
    <3>1. ~Upload!Has(f, 0, d)
      BY <1>3, <2>2, HasCells
    <3>2. Upload!WebpChunk(f, Upload!Vp8x) = Upload!NoImage
      BY <3>1 DEF Upload!WebpChunk, Upload!Vp8x, Upload!Vp8, Upload!Vp8l, d
    <3>3. info = Upload!NoImage
      BY <1>15, <3>2, Zenon DEF WebpBegins
    <3>4. Len(f) # Len(w)
      BY <1>3, <1>12, <1>16, <2>2
    <3>5. QED
      BY <3>3, <3>4
  <2>3. QED
    BY <2>1, <2>2
<1> HIDE DEF info
<1>18. TrueImage(info, m, Len(f) = Len(w))
  <2>1. ImageName(m) = "webp" /\ m.x \in Nat /\ m.y \in Nat
    BY DEF Vp8xFields, ImageName
  <2>2. QED
    BY <1>17, <2>1, SizedTruly
<1>19. Upload!InspectPng(f) = Upload!NoImage /\ Upload!InspectJpeg(f) = Upload!NoImage /\ Upload!InspectGif(f) = Upload!NoImage
  BY <1>15, <1>16 DEF FirstTells, WebpBegins
<1>20. Told(f, info)
  BY <1>19 DEF Told, Upload!InspectImageBuffer, Upload!OrElse, Upload!NoImage, info
<1>21. QED
  BY <1>15, <1>18, <1>20, BufferTruly DEF WebpBegins

\* A lossless WebP file: two sizes of 14 bits in 4 bytes.
Fourteen == {v \in Nat : v < 16384}
Vp8lFields(m) == m.format = "vp8l" /\ m.x \in Nat /\ m.y \in Nat /\ m.x - 1 \in Fourteen /\ m.y - 1 \in Fourteen

\* A lossless WebP medium that conforms has the fields its layout needs.
LEMMA Vp8lHolds ==
  ASSUME NEW m, Upload!Conforms(m), m.format = "vp8l"
  PROVE  Vp8lFields(m)
<1> DEFINE S == 1..2^14
<1>1. \A v \in S : v \in Nat /\ v - 1 \in Fourteen
  BY DEF Fourteen
<1>2. m.x \in S /\ m.y \in S
  BY DEF Upload!Conforms
<1> HIDE DEF S
<1>3. QED
  BY <1>1, <1>2, Zenon DEF Vp8lFields

Unpacked(x, y, a, b, c, d) == x = a + 256 * (b % 64) /\ y = b \div 64 + 4 * c + 1024 * (d % 16)

\* Two numbers of fourteen bits packed in four bytes are unpacked from them.
LEMMA Unpacking ==
  ASSUME NEW x \in Fourteen, NEW y \in Fourteen, NEW a \in Bytes, NEW b \in Bytes, NEW c \in Bytes, NEW d \in Bytes,
         ((d * 256 + c) * 256 + b) * 256 + a = x + 16384 * y
  PROVE  Unpacked(x, y, a, b, c, d)
<1> DEFINE l == b % 64
           h == b \div 64
<1>1. /\ x \in Nat /\ y \in Nat /\ x <= 16383 /\ y <= 16383
      /\ a \in Nat /\ b \in Nat /\ c \in Nat /\ d \in Nat /\ a <= 255 /\ b <= 255 /\ c <= 255 /\ d <= 255
  BY DEF Fourteen, Bytes
<1>2. b = 64 * h + l /\ l \in Nat /\ l <= 63 /\ h \in Nat /\ h <= 3
  BY ONLY <1>1
<1>3. ((d * 256 + c) * 256 + b) * 256 + a = x + 16384 * y
  OBVIOUS
<1> HIDE DEF l, h
<1>4. d < 16
  BY ONLY <1>1, <1>3, SMTT(60)
<1>5. d % 16 = d
  BY ONLY <1>1, <1>4
<1>6. x = a + 256 * l /\ y = h + 4 * c + 1024 * d
  BY ONLY <1>1, <1>2, <1>3, SMTT(60)
<1>7. x = a + 256 * (b % 64) /\ y = b \div 64 + 4 * c + 1024 * (d % 16)
  BY ONLY <1>5, <1>6 DEF l, h
<1>8. QED
  BY <1>7 DEF Unpacked

\* The four bytes of the sizes, and what is unpacked of them.
PackedFits(x, y, s) ==
  /\ s \in Seq(Bytes) /\ Len(s) = 4
  /\ \A f \in Seq(Nat), o \in Nat :
       Part(f, o, s) /\ o + 4 <= Len(f) => Upload!Packed(f, o, 1) = Upload!Sized("webp", 1 + x, 1 + y)

ReadBack(x, y, a, b, c, d) ==
  1 + a + 256 * (b % 64) = 1 + x /\ 1 + b \div 64 + 4 * c + 1024 * (d % 16) = 1 + y

\* The bits that were unpacked are those the parser reads.
LEMMA FromUnpacked ==
  ASSUME NEW x \in Nat, NEW y \in Nat, NEW a \in Nat, NEW b \in Nat, NEW c \in Nat, NEW d \in Nat,
         Unpacked(x, y, a, b, c, d)
  PROVE  ReadBack(x, y, a, b, c, d)
<1> DEFINE l == b % 64
           h == b \div 64
           k == d % 16
<1>1. l \in Nat /\ h \in Nat /\ k \in Nat /\ x = a + 256 * l /\ y = h + 4 * c + 1024 * k
  BY DEF Unpacked
<1> HIDE DEF l, h, k
<1>2. 1 + a + 256 * l = 1 + x /\ 1 + h + 4 * c + 1024 * k = 1 + y
  BY <1>1
<1>3. QED
  BY <1>2 DEF l, h, k, ReadBack

\* The packed size of a lossless WebP file is read as it is written.
LEMMA PackedIsRead ==
  ASSUME NEW x \in Fourteen, NEW y \in Fourteen
  PROVE  PackedFits(x, y, Upload!Little(x + 16384 * y, 4, 256))
<1> DEFINE v == x + 16384 * y
           s == Upload!Little(v, 4, 256)
           a == Byte(v, 0)
           b == Byte(v, 1)
           c == Byte(v, 2)
           d == Byte(v, 3)
<1>1. v \in Nat /\ v < 256^4
  <2>1. x \in Nat /\ y \in Nat /\ x < 16384 /\ y < 16384
    BY DEF Fourteen
  <2>2. \A p, q \in Int : p < 16384 /\ q < 16384 => p + 16384 * q < 268435456
    OBVIOUS
  <2>3. v \in Nat
    BY <2>1
  <2>4. v < 268435456
    BY <2>1, <2>2
  <2>5. 268435456 < 256^4 /\ 256^4 \in Nat
    OBVIOUS
  <2> HIDE DEF v
  <2>6. QED
    BY <2>3, <2>4, <2>5
<1>2. Unpacked(x, y, a, b, c, d)
  <2>1. InBytes(v)
    BY <1>1, NumberInBytes
  <2>2. a \in Bytes /\ b \in Bytes /\ c \in Bytes /\ d \in Bytes
    BY <2>1 DEF InBytes
  <2>3. ((d * 256 + c) * 256 + b) * 256 + a = v
    BY <1>1, <2>1 DEF InBytes
  <2> HIDE DEF a, b, c, d
  <2>4. QED
    BY <2>2, <2>3, Unpacking
<1>3. s = <<a, b, c, d>>
  BY <1>1, NumberSpelled DEF Spelled
<1>4. a \in Bytes /\ b \in Bytes /\ c \in Bytes /\ d \in Bytes
  BY <1>1, NumberInBytes DEF InBytes
<1> HIDE DEF v, s, a, b, c, d
<1>5. s \in Seq(Bytes) /\ Len(s) = 4
  BY <1>3, <1>4
<1>6. ASSUME NEW f \in Seq(Nat), NEW o \in Nat, Part(f, o, s), o + 4 <= Len(f)
      PROVE  Upload!Packed(f, o, 1) = Upload!Sized("webp", 1 + x, 1 + y)
  <2>1. 1 \in 1..Len(s) /\ 2 \in 1..Len(s) /\ 3 \in 1..Len(s) /\ 4 \in 1..Len(s)
    BY <1>5
  <2>2. o + 1 <= Len(f) /\ o + 2 <= Len(f) /\ o + 3 <= Len(f) /\ o + 4 <= Len(f)
    BY <1>6
  <2>3. f[o + 1] = s[1] /\ f[o + 2] = s[2] /\ f[o + 3] = s[3] /\ f[o + 4] = s[4]
    BY <1>6, <2>1, <2>2, Zenon DEF Part
  <2>4. f[o + 1] = a /\ f[o + 2] = b /\ f[o + 3] = c /\ f[o + 4] = d
    BY <1>3, <2>3
  <2>5. o + 1 + 1 = o + 2 /\ o + 2 + 1 = o + 3 /\ o + 3 + 1 = o + 4
    OBVIOUS
  <2>6. Upload!At(f, o) = a /\ Upload!At(f, o + 1) = b /\ Upload!At(f, o + 2) = c /\ Upload!At(f, o + 3) = d
    BY <2>4, <2>5, Zenon DEF Upload!At
  <2>7. 1 + a + 256 * (b % 64) = 1 + x /\ 1 + b \div 64 + 4 * c + 1024 * (d % 16) = 1 + y
    <3>1. x \in Nat /\ y \in Nat /\ a \in Nat /\ b \in Nat /\ c \in Nat /\ d \in Nat
      <4>1. Fourteen \subseteq Nat /\ Bytes \subseteq Nat
        BY DEF Fourteen, Bytes
      <4>2. QED
        BY <1>4, <4>1, Zenon
    <3>2. ReadBack(x, y, a, b, c, d)
      BY <1>2, <3>1, FromUnpacked
    <3>3. QED
      BY <3>2 DEF ReadBack
  <2>8. Upload!Packed(f, o, 1) =
          Upload!Sized("webp", 1 + a + 256 * (b % 64), 1 + b \div 64 + 4 * c + 1024 * (d % 16))
    BY <2>6 DEF Upload!Packed
  <2>9. QED
    BY <2>7, <2>8, ZenonT(30)
<1>7. QED
  BY <1>5, <1>6 DEF PackedFits, v, s

\* A lossless WebP file, whole or cut, shows its true size or none.
LEMMA Vp8lIsSeen ==
  ASSUME NEW m, Vp8lFields(m), NEW f \in Seq(Nat)
  PROVE  ImageSeen(m, f)
<1> DEFINE head == Upload!WebpHeader(Upload!Vp8l)
           mark == <<47>>
           x == m.x - 1
           y == m.y - 1
           sizes == Upload!Little(x + 16384 * y, 4, 256)
           w == Upload!Written(m)
           z == 0
           a == 20
           b == 21
           d == 25
<1>1. w = head \o mark \o sizes
  BY SMTT(20) DEF Vp8lFields, Upload!Written, Upload!Vp8lFile
<1>2. head \in Seq(Bytes) /\ Len(head) = a /\ Upload!Vp8l \in Bytes
  <2>1. Upload!Vp8l \in Bytes
    BY DEF Upload!Vp8l, Bytes
  <2>2. QED
    BY <2>1, HeaderIsWhole
<1>3. z \in Nat /\ a \in Nat /\ b \in Nat /\ d \in Nat /\ a + 1 = b /\ b + 4 = d /\ d >= 16
  OBVIOUS
<1>4. PackedFits(x, y, sizes)
  <2>1. x \in Fourteen /\ y \in Fourteen
    BY DEF Vp8lFields
  <2> HIDE DEF x, y
  <2>2. QED
    BY <2>1, PackedIsRead
<1>5. mark \in Seq(Bytes) /\ Len(mark) = 1 /\ sizes \in Seq(Bytes) /\ Len(sizes) = 4
  <2>1. mark \in Seq(Bytes) /\ Len(mark) = 1
    BY DEF Bytes
  <2>2. QED
    BY <1>4, <2>1 DEF PackedFits
<1>6. 1 + x = m.x /\ 1 + y = m.y
  BY DEF Vp8lFields
<1> HIDE DEF head, mark, x, y, sizes, w, a, b, d
<1>7. Splits(f, head, a, mark)
  BY <1>2, <1>5, PiecesSplit
<1>8. head \o mark \in Seq(Bytes) /\ Len(head \o mark) = b
  BY <1>3, <1>5, <1>7 DEF Splits
<1>9. Splits(f, head \o mark, b, sizes)
  BY <1>5, <1>8, PiecesSplit
<1>10. w \in Seq(Bytes) /\ Len(w) = d
  BY <1>1, <1>3, <1>5, <1>9 DEF Splits
<1>11. SUFFICES ASSUME Part(f, 0, w)
                PROVE  Begins(f) /\ TrueImage(Upload!InspectImageBuffer(f), m, Len(f) = Len(w))
  BY <1>10 DEF ImageSeen, w
<1>12. Part(f, z, head) /\ Part(f, b, sizes)
  BY <1>1, <1>7, <1>9, <1>11 DEF Splits
<1>13. WebpBegins(f, Upload!Vp8l)
  BY <1>2, <1>12, WebpIsBegun DEF head
<1> HIDE DEF z
<1>14. FirstTells(f) /\ Len(f) \in Nat
  BY FirstCell
<1> DEFINE info == Upload!InspectWebp(f)
           full == Upload!Sized("webp", m.x, m.y)
<1>15. info \in {Upload!NoImage, full} /\ (Len(f) = Len(w) => info = full)
  <2>1. CASE Len(f) >= d
    <3>1. Upload!Packed(f, b, 1) = Upload!Sized("webp", 1 + x, 1 + y)
      <4>1. b + 4 <= Len(f)
        BY <1>3, <1>14, <2>1
      <4>2. QED
        BY <1>3, <1>4, <1>12, <4>1 DEF PackedFits
    <3>2. Upload!Has(f, 0, d) /\ Len(f) >= 16
      BY <1>3, <1>14, <2>1, HasCells
    <3>3. Upload!WebpChunk(f, Upload!Vp8l) = Upload!Packed(f, b, 1)
      BY <3>2 DEF Upload!WebpChunk, Upload!Vp8x, Upload!Vp8, Upload!Vp8l, b, d
    <3>4. info = full
      BY <1>6, <1>13, <3>1, <3>2, <3>3 DEF WebpBegins
    <3>5. QED
      BY <3>4
  <2>2. CASE ~(Len(f) >= d)
    <3>1. ~Upload!Has(f, 0, d)
      BY <1>3, <2>2, HasCells
    <3>2. Upload!WebpChunk(f, Upload!Vp8l) = Upload!NoImage
      BY <3>1 DEF Upload!WebpChunk, Upload!Vp8x, Upload!Vp8, Upload!Vp8l, d
    <3>3. info = Upload!NoImage
      BY <1>13, <3>2, Zenon DEF WebpBegins
    <3>4. Len(f) # Len(w)
      BY <1>3, <1>10, <1>14, <2>2
    <3>5. QED
      BY <3>3, <3>4
  <2>3. QED
    BY <2>1, <2>2
<1> HIDE DEF info
<1>16. TrueImage(info, m, Len(f) = Len(w))
  <2>1. ImageName(m) = "webp" /\ m.x \in Nat /\ m.y \in Nat
    BY DEF Vp8lFields, ImageName
  <2>2. QED
    BY <1>15, <2>1, SizedTruly
<1>17. Upload!InspectPng(f) = Upload!NoImage /\ Upload!InspectJpeg(f) = Upload!NoImage /\ Upload!InspectGif(f) = Upload!NoImage
  BY <1>13, <1>14 DEF FirstTells, WebpBegins
<1>18. Told(f, info)
  BY <1>17 DEF Told, Upload!InspectImageBuffer, Upload!OrElse, Upload!NoImage, info
<1>19. QED
  BY <1>13, <1>16, <1>18, BufferTruly DEF WebpBegins

\* A JPEG file.
JpegFields(m) ==
  /\ m.format = "jpeg" /\ m.x \in Nat /\ m.y \in Nat /\ m.x < 256^2 /\ m.y < 256^2
  /\ m.long \in BOOLEAN /\ m.extra \in BOOLEAN

\* A JPEG medium that conforms has the fields its layout needs.
LEMMA JpegHolds ==
  ASSUME NEW m, Upload!Conforms(m), m.format = "jpeg"
  PROVE  JpegFields(m)
<1>1. m.x \in 0..2^16 - 1 /\ m.y \in 0..2^16 - 1 /\ m.long \in BOOLEAN /\ m.extra \in BOOLEAN
  BY DEF Upload!Conforms
<1>2. \A v \in 0..2^16 - 1 : v \in Nat /\ v < 256^2
  OBVIOUS
<1>3. QED
  BY <1>1, <1>2 DEF JpegFields

\* The markers of the segments that are written.
Markers ==
  /\ \A k \in {192, 194} : ~Upload!IsStandalone(k) /\ Upload!IsStartOfFrame(k) /\ k # Upload!StartOfScan
  /\ \A k \in {196, 224} : ~Upload!IsStandalone(k) /\ ~Upload!IsStartOfFrame(k) /\ k # Upload!StartOfScan

\* The markers of a frame and of other segments are told apart, and none stands alone.
LEMMA MarkersTell == Markers
BY DEF Markers, Upload!IsStandalone, Upload!IsStartOfFrame, Upload!StartOfScan

\* The walk at a segment to skip, and at the start of the frame.
Skips(r, f, o) == r[o] = IF o + 9 < Len(f) THEN r[o + 6] ELSE Upload!NoImage
Frames(r, f, o, m) == r[o] = IF o + 9 < Len(f) THEN Upload!Sized("jpeg", m.x, m.y) ELSE Upload!NoImage

\* A segment without a frame, and a frame, where they were written.
SegmentLies(f, o, k) == Part(f, o, <<255, k, 0, 4, 0, 0>>)
FrameLies(f, o, k, m) ==
  /\ Part(f, o, <<255, k, 0, 11, 8>>) /\ Part(f, o + 5, Upload!Big(m.y, 2, 256))
  /\ Part(f, o + 7, Upload!Big(m.x, 2, 256))

\* A segment that carries no frame is skipped.
LEMMA SegmentIsSkipped ==
  ASSUME NEW f \in Seq(Nat), NEW r, WalksJpeg(r, f), NEW o \in Nat, NEW k \in {196, 224},
         SegmentLies(f, o, k)
  PROVE  Skips(r, f, o)
<1>0. Part(f, o, <<255, k, 0, 4, 0, 0>>)
  BY DEF SegmentLies
<1> DEFINE t == <<255, k, 0, 4, 0, 0>>
<1>1. Len(f) \in Nat /\ Len(t) = 6 /\ t[1] = 255 /\ t[2] = k /\ t[3] = 0 /\ t[4] = 4
  OBVIOUS
<1>2. Part(f, o, t)
  BY <1>0
<1> HIDE DEF t
<1>3. r[o] = Upload!MarkerAt(f, o, r)
  BY DEF WalksJpeg
<1>4. CASE o + 9 < Len(f)
  <2>1. 1 \in 1..Len(t) /\ 2 \in 1..Len(t) /\ 3 \in 1..Len(t) /\ 4 \in 1..Len(t)
    BY <1>1
  <2>2. o + 1 <= Len(f) /\ o + 2 <= Len(f) /\ o + 3 <= Len(f) /\ o + 4 <= Len(f)
    BY <1>1, <1>4
  <2>3. f[o + 1] = 255 /\ f[o + 2] = k /\ f[o + 3] = 0 /\ f[o + 4] = 4
    <3>1. \A i \in 1..Len(t) : o + i <= Len(f) => f[o + i] = t[i]
      BY <1>2, Zenon DEF Part
    <3>2. f[o + 1] = t[1] /\ f[o + 2] = t[2] /\ f[o + 3] = t[3] /\ f[o + 4] = t[4]
      BY <2>1, <2>2, <3>1
    <3>3. QED
      BY <1>1, <3>2
  <2>4. Upload!At(f, o) = 255 /\ Upload!At(f, o + 1) = k
    <3>1. o + 1 + 1 = o + 2
      OBVIOUS
    <3>2. QED
      BY <2>3, <3>1, Zenon DEF Upload!At
  <2>5. Upload!BE(f, o + 2, 2, 256) = 4
    <3> DEFINE p == o + 2
    <3>1. p \in Nat /\ p + 2 <= Len(f) /\ p + 1 = o + 3 /\ p + 2 = o + 4
      BY <1>1, <1>4
    <3> HIDE DEF p
    <3>2. Upload!Has(f, p, 2)
      BY <3>1 DEF Upload!Has
    <3>3. IsBig(Upload!BE(f, p, 2, 256), f, p, 2, 256)
      BY <3>1, <3>2, BigNumbers
    <3>4. Upload!BE(f, p, 2, 256) = f[p + 1] * 256 + f[p + 2]
      BY <3>3 DEF IsBig
    <3>5. f[p + 1] = 0 /\ f[p + 2] = 4
      BY <2>3, <3>1
    <3>6. QED
      BY <3>4, <3>5 DEF p
  <2>6. ~Upload!IsStandalone(k) /\ ~Upload!IsStartOfFrame(k) /\ k # Upload!StartOfScan
    BY MarkersTell DEF Markers
  <2>7. ~(o + 9 >= Len(f)) /\ ~(4 < 2) /\ o + 2 + 4 = o + 6
    BY <1>1, <1>4
  <2>8. Upload!MarkerAt(f, o, r) = r[o + 2 + 4]
    BY <2>4, <2>5, <2>6, <2>7, Zenon DEF Upload!MarkerAt
  <2>9. QED
    BY <1>3, <1>4, <2>7, <2>8, Zenon DEF Skips
<1>5. CASE ~(o + 9 < Len(f))
  <2>1. o + 9 >= Len(f)
    BY <1>1, <1>5
  <2>2. QED
    BY <1>3, <1>5, <2>1, Zenon DEF Skips, Upload!MarkerAt
<1>6. QED
  BY <1>4, <1>5

\* A frame header gives the size that was written, if it is all there.
LEMMA FrameIsRead ==
  ASSUME NEW m, JpegFields(m), NEW f \in Seq(Nat), NEW r, WalksJpeg(r, f), NEW o \in Nat, NEW k \in {192, 194},
         FrameLies(f, o, k, m)
  PROVE  Frames(r, f, o, m)
<1>0. /\ Part(f, o, <<255, k, 0, 11, 8>>) /\ Part(f, o + 5, Upload!Big(m.y, 2, 256))
      /\ Part(f, o + 7, Upload!Big(m.x, 2, 256))
  BY DEF FrameLies
<1> DEFINE t == <<255, k, 0, 11, 8>>
<1>1. Len(f) \in Nat /\ Len(t) = 5 /\ t[1] = 255 /\ t[2] = k
  OBVIOUS
<1>2. Part(f, o, t)
  BY <1>0
<1> HIDE DEF t
<1>3. r[o] = Upload!MarkerAt(f, o, r)
  BY DEF WalksJpeg
<1>4. CASE o + 9 < Len(f)
  <2>1. 1 \in 1..Len(t) /\ 2 \in 1..Len(t) /\ o + 1 <= Len(f) /\ o + 2 <= Len(f) /\ o + 1 + 1 = o + 2
    <3>1. 1 \in 1..Len(t) /\ 2 \in 1..Len(t)
      BY <1>1
    <3>2. o + 1 <= Len(f) /\ o + 2 <= Len(f)
      <4>1. \A n \in Nat : o + 9 < n => o + 1 <= n /\ o + 2 <= n
        OBVIOUS
      <4>2. QED
        BY <1>1, <1>4, <4>1, Zenon
    <3>3. o + 1 + 1 = o + 2
      OBVIOUS
    <3>4. QED
      BY <3>1, <3>2, <3>3, Zenon
  <2>2. f[o + 1] = 255 /\ f[o + 2] = k
    <3>1. \A i \in 1..Len(t) : o + i <= Len(f) => f[o + i] = t[i]
      BY <1>2, Zenon DEF Part
    <3>2. f[o + 1] = t[1] /\ f[o + 2] = t[2]
      BY <2>1, <3>1
    <3>3. QED
      BY <1>1, <3>2
  <2>3. Upload!At(f, o) = 255 /\ Upload!At(f, o + 1) = k
    BY <2>1, <2>2, Zenon DEF Upload!At
  <2>4. BigBytes(m.x, 2) /\ BigBytes(m.y, 2)
    BY TwoBigBytes, SMTT(20) DEF JpegFields
  <2>5. Upload!BE(f, o + 5, 2, 256) = m.y
    <3> DEFINE p == o + 5
    <3>1. p \in Nat /\ p + 2 <= Len(f) /\ Part(f, p, Upload!Big(m.y, 2, 256))
      BY <1>0, <1>1, <1>4
    <3> HIDE DEF p
    <3>2. Upload!BE(f, p, 2, 256) = m.y
      BY <2>4, <3>1 DEF BigBytes
    <3>3. QED
      BY <3>2 DEF p
  <2>6. Upload!BE(f, o + 7, 2, 256) = m.x
    <3> DEFINE p == o + 7
    <3>1. p \in Nat /\ p + 2 <= Len(f) /\ Part(f, p, Upload!Big(m.x, 2, 256))
      BY <1>0, <1>1, <1>4
    <3> HIDE DEF p
    <3>2. Upload!BE(f, p, 2, 256) = m.x
      BY <2>4, <3>1 DEF BigBytes
    <3>3. QED
      BY <3>2 DEF p
  <2>7. ~Upload!IsStandalone(k) /\ Upload!IsStartOfFrame(k) /\ k # Upload!StartOfScan
    BY MarkersTell DEF Markers
  <2>8. ~(o + 9 >= Len(f))
    BY <1>1, <1>4
  <2>9. Upload!MarkerAt(f, o, r) = Upload!Sized("jpeg", m.x, m.y)
    BY <2>3, <2>5, <2>6, <2>7, <2>8, Zenon DEF Upload!MarkerAt
  <2>10. QED
    BY <1>3, <1>4, <2>9, Zenon DEF Frames
<1>5. CASE ~(o + 9 < Len(f))
  <2>1. o + 9 >= Len(f)
    BY <1>1, <1>5
  <2>2. QED
    BY <1>3, <1>5, <2>1, Zenon DEF Frames, Upload!MarkerAt
<1>6. QED
  BY <1>4, <1>5

\* Where its segments are.
Start == <<255, 216>>
SkippedPart(m) == Upload!When(m.extra, <<255, IF m.long THEN 196 ELSE 224, 0, 4, 0, 0>>)
FramePart(m) == <<255, IF m.long THEN 194 ELSE 192, 0, 11, 8>>
FrameAt(m) == IF m.extra = TRUE THEN 8 ELSE 2
JpegPlaces(m, f) ==
  /\ Upload!Written(m) \in Seq(Bytes) /\ Len(Upload!Written(m)) = FrameAt(m) + 13
  /\ Part(f, 0, Upload!Written(m)) =>
       /\ Part(f, 0, Start) /\ Part(f, 2, SkippedPart(m)) /\ Part(f, FrameAt(m), FramePart(m))
       /\ Part(f, FrameAt(m) + 5, Upload!Big(m.y, 2, 256)) /\ Part(f, FrameAt(m) + 7, Upload!Big(m.x, 2, 256))

\* In a file that begins like a JPEG medium each segment lies where it was written.
LEMMA JpegPlaced ==
  ASSUME NEW m, JpegFields(m), NEW f \in Seq(Nat)
  PROVE  JpegPlaces(m, f)
<1> DEFINE start == Start
           skip == SkippedPart(m)
           frame == FramePart(m)
           high == Upload!Big(m.y, 2, 256)
           wide == Upload!Big(m.x, 2, 256)
           rest == <<1, 0, 0, 0>>
           w == Upload!Written(m)
           a == 2
           b == FrameAt(m)
           c == b + 5
           d == b + 7
           e == b + 9
<1>1. w = start \o skip \o frame \o high \o wide \o rest
  BY DEF JpegFields, Upload!Written, Upload!JpegFile, Start, SkippedPart, FramePart
<1>2. start \in Seq(Bytes) /\ Len(start) = a
  BY DEF Start, Bytes
<1>3. skip \in Seq(Bytes) /\ a + Len(skip) = b
  <2>1. CASE m.extra = TRUE
    <3>1. skip = <<255, IF m.long THEN 196 ELSE 224, 0, 4, 0, 0>>
      BY <2>1 DEF SkippedPart, Upload!When
    <3>2. QED
      BY <2>1, <3>1 DEF FrameAt, Bytes
  <2>2. CASE m.extra = FALSE
    <3>1. skip = << >>
      BY <2>2 DEF SkippedPart, Upload!When
    <3>2. QED
      BY <2>2, <3>1 DEF FrameAt
  <2>3. QED
    BY <2>1, <2>2 DEF JpegFields
<1>4. frame \in Seq(Bytes) /\ Len(frame) = 5
  BY DEF FramePart, Bytes
<1>5. rest \in Seq(Bytes) /\ Len(rest) = 4
  BY DEF Bytes
<1>6. high \in Seq(Bytes) /\ Len(high) = 2 /\ wide \in Seq(Bytes) /\ Len(wide) = 2
  <2>1. BigBytes(m.x, 2) /\ BigBytes(m.y, 2)
    BY TwoBigBytes DEF JpegFields
  <2>2. QED
    BY <2>1 DEF BigBytes
<1>7. b \in Nat /\ c = b + 5 /\ d = c + 2 /\ e = d + 2 /\ b + 13 = e + 4 /\ c \in Nat /\ d \in Nat /\ e \in Nat
  BY DEF FrameAt
<1> HIDE DEF start, skip, frame, high, wide, rest, w, a, b, c, d, e
<1>8. Splits(f, start, a, skip)
  BY <1>2, <1>3, PiecesSplit
<1>9. start \o skip \in Seq(Bytes) /\ Len(start \o skip) = b
  BY <1>3, <1>8 DEF Splits
<1>10. Splits(f, start \o skip, b, frame)
  BY <1>4, <1>9, PiecesSplit
<1>11. start \o skip \o frame \in Seq(Bytes) /\ Len(start \o skip \o frame) = c
  BY <1>4, <1>7, <1>10 DEF Splits
<1>12. Splits(f, start \o skip \o frame, c, high)
  BY <1>6, <1>11, PiecesSplit
<1>13. start \o skip \o frame \o high \in Seq(Bytes) /\ Len(start \o skip \o frame \o high) = d
  BY <1>6, <1>7, <1>12 DEF Splits
<1>14. Splits(f, start \o skip \o frame \o high, d, wide)
  BY <1>6, <1>13, PiecesSplit
<1>15. start \o skip \o frame \o high \o wide \in Seq(Bytes) /\ Len(start \o skip \o frame \o high \o wide) = e
  BY <1>6, <1>7, <1>14 DEF Splits
<1>16. Splits(f, start \o skip \o frame \o high \o wide, e, rest)
  BY <1>5, <1>15, PiecesSplit
<1>17. w \in Seq(Bytes) /\ Len(w) = b + 13
  BY <1>1, <1>5, <1>7, <1>16 DEF Splits
<1>18. Part(f, 0, w) => /\ Part(f, 0, start) /\ Part(f, a, skip) /\ Part(f, b, frame)
                        /\ Part(f, c, high) /\ Part(f, d, wide)
  BY <1>1, <1>8, <1>10, <1>12, <1>14, <1>16, Zenon DEF Splits
<1>19. QED
  BY <1>17, <1>18 DEF JpegPlaces, start, skip, frame, high, wide, w, a, b, c, d

\* The walk from the start of a JPEG file.
Walked(r, m, f) == r[2] = IF FrameAt(m) + 9 < Len(f) THEN Upload!Sized("jpeg", m.x, m.y) ELSE Upload!NoImage

\* The walk over markers comes to the frame, whatever segments come before it.
LEMMA JpegIsWalked ==
  ASSUME NEW m, JpegFields(m), NEW f \in Seq(Nat), NEW r, WalksJpeg(r, f), Part(f, 0, Upload!Written(m))
  PROVE  Walked(r, m, f)
<1> DEFINE b == FrameAt(m)
           two == 2
<1>1. /\ Part(f, two, SkippedPart(m)) /\ Part(f, b, FramePart(m))
      /\ Part(f, b + 5, Upload!Big(m.y, 2, 256)) /\ Part(f, b + 7, Upload!Big(m.x, 2, 256))
  BY JpegPlaced DEF JpegPlaces
<1>2. Frames(r, f, b, m)
  <2> DEFINE k == IF m.long THEN 194 ELSE 192
  <2>1. k \in {192, 194} /\ FramePart(m) = <<255, k, 0, 11, 8>> /\ b \in Nat
    BY DEF FramePart, FrameAt
  <2> HIDE DEF k, b
  <2>2. FrameLies(f, b, k, m)
    BY <1>1, <2>1 DEF FrameLies
  <2>3. QED
    BY <2>1, <2>2, FrameIsRead
<1>3. CASE m.extra = TRUE
  <2> DEFINE k == IF m.long THEN 196 ELSE 224
  <2>1. k \in {196, 224} /\ two \in Nat /\ b = 8 /\ b = two + 6
    BY <1>3 DEF FrameAt
  <2>2. SkippedPart(m) = <<255, k, 0, 4, 0, 0>>
    BY <1>3 DEF SkippedPart, Upload!When
  <2> HIDE DEF k, two
  <2>3. Skips(r, f, two)
    <3>1. SegmentLies(f, two, k)
      BY <1>1, <2>2 DEF SegmentLies
    <3>2. QED
      BY <2>1, <3>1, SegmentIsSkipped
  <2>4. r[two] = IF two + 9 < Len(f) THEN r[b] ELSE Upload!NoImage
    BY <2>1, <2>3 DEF Skips
  <2>5. b + 9 < Len(f) => two + 9 < Len(f)
    BY <2>1 DEF two
  <2>6. r[two] = IF b + 9 < Len(f) THEN Upload!Sized("jpeg", m.x, m.y) ELSE Upload!NoImage
    BY <1>2, <2>4, <2>5, Zenon DEF Frames
  <2>7. QED
    BY <2>6 DEF Walked, two
<1>4. CASE m.extra = FALSE
  <2>1. b = 2
    BY <1>4 DEF FrameAt
  <2>2. QED
    BY <1>2, <2>1 DEF Walked, Frames
<1>5. QED
  BY <1>3, <1>4 DEF JpegFields

\* A JPEG file, whole or cut, shows its true size or none.
LEMMA JpegIsSeen ==
  ASSUME NEW m, JpegFields(m), NEW f \in Seq(Nat)
  PROVE  ImageSeen(m, f)
<1> DEFINE w == Upload!Written(m)
           b == FrameAt(m)
<1>1. JpegPlaces(m, f)
  BY JpegPlaced
<1>2. w \in Seq(Bytes) /\ Len(w) = b + 13 /\ b \in Nat
  BY <1>1 DEF JpegPlaces, FrameAt
<1> HIDE DEF w, b
<1>3. SUFFICES ASSUME Part(f, 0, w)
               PROVE  Begins(f) /\ TrueImage(Upload!InspectImageBuffer(f), m, Len(f) = Len(w))
  BY <1>2 DEF ImageSeen, w
<1>4. Begins(f) /\ (Len(f) >= 1 => f[1] = 255)
  <2> DEFINE s == Start
  <2>1. s \in Seq(Nat) /\ Len(s) >= 2 /\ s[1] = 255 /\ s[2] = 216
    BY DEF Start
  <2>2. Part(f, 0, s)
    BY <1>1, <1>3 DEF JpegPlaces, w
  <2> HIDE DEF s
  <2>3. (Len(f) >= 1 => f[1] = s[1]) /\ (Len(f) >= 2 => f[2] = s[2])
    BY <2>1, <2>2, PartBegins
  <2>4. QED
    BY <2>1, <2>3 DEF Begins
<1>5. FirstTells(f) /\ Len(f) \in Nat
  BY FirstCell
<1>6. PICK r : WalksJpeg(r, f)
  BY JpegWalk
<1>7. Upload!WalkJpeg(f, 2) = IF b + 9 < Len(f) THEN Upload!Sized("jpeg", m.x, m.y) ELSE Upload!NoImage
  <2>1. Walked(r, m, f)
    BY <1>3, <1>6, JpegIsWalked DEF w
  <2>2. Upload!WalkJpeg(f, 2) = r[2]
    BY <1>6 DEF WalksJpeg
  <2>3. QED
    BY <2>1, <2>2, Zenon DEF Walked, b
<1> DEFINE info == Upload!InspectJpeg(f)
           full == Upload!Sized("jpeg", m.x, m.y)
<1>8. info \in {Upload!NoImage, Upload!WalkJpeg(f, 2)}
  BY DEF Upload!InspectJpeg
<1>9. ASSUME Len(f) = Len(w) PROVE info = full
  <2>1. b + 9 < Len(f) /\ b + 3 <= Len(f) /\ Len(f) >= 4
    BY <1>2, <1>9
  <2>2. Upload!Has(f, 0, 4)
    BY <2>1, HasCells
  <2>3. Upload!Slice(f, 0, 3) = <<255, 216, 255>>
    <3> DEFINE t == <<255, 216, 255>>
               z == 0
               n == 3
    <3>1. t \in Seq(Nat) /\ Len(t) = n /\ t[1] = 255 /\ t[2] = 216 /\ t[3] = 255
      OBVIOUS
    <3>2. f[3] = 255
      <4>1. CASE m.extra = TRUE
        <5> DEFINE s == SkippedPart(m)
        <5>1. Len(s) = 6 /\ s[1] = 255
          BY <4>1 DEF SkippedPart, Upload!When
        <5>2. Part(f, 2, s)
          BY <1>1, <1>3 DEF JpegPlaces, w
        <5> HIDE DEF s
        <5>3. 1 \in 1..Len(s) /\ 2 + 1 <= Len(f) /\ 2 + 1 = 3
          BY <1>5, <2>1, <5>1
        <5>4. QED
          BY <5>1, <5>2, <5>3 DEF Part
      <4>2. CASE m.extra = FALSE
        <5> DEFINE s == FramePart(m)
        <5>1. Len(s) = 5 /\ s[1] = 255
          BY DEF FramePart
        <5>2. Part(f, 2, s)
          <6>1. b = 2
            BY <4>2 DEF b, FrameAt
          <6>2. Part(f, b, s)
            BY <1>1, <1>3 DEF JpegPlaces, w, b
          <6>3. QED
            BY <6>1, <6>2
        <5> HIDE DEF s
        <5>3. 1 \in 1..Len(s) /\ 2 + 1 <= Len(f) /\ 2 + 1 = 3
          BY <1>5, <2>1, <5>1
        <5>4. QED
          BY <5>1, <5>2, <5>3 DEF Part
      <4>3. QED
        BY <4>1, <4>2 DEF JpegFields
    <3>3. f[1] = 255 /\ f[2] = 216
      <4>1. Part(f, 0, Start)
        BY <1>1, <1>3 DEF JpegPlaces, w
      <4>2. Start[1] = 255 /\ Start[2] = 216 /\ Len(Start) = 2
        BY DEF Start
      <4>3. 1 \in 1..Len(Start) /\ 2 \in 1..Len(Start) /\ 0 + 1 = 1 /\ 0 + 2 = 2 /\ 1 <= Len(f) /\ 2 <= Len(f)
        BY <1>5, <2>1, <4>2
      <4>4. QED
        BY <4>1, <4>2, <4>3 DEF Part
    <3> HIDE DEF t
    <3>4. Part(f, z, t)
      BY <3>1, <3>2, <3>3 DEF Part
    <3>5. z \in Nat /\ n = z + Len(t) /\ n <= Len(f) /\ Len(t) > 0
      BY <1>5, <2>1, <3>1
    <3> HIDE DEF z, n
    <3>6. Upload!Slice(f, z, n) = t
      BY <3>1, <3>4, <3>5, PartIsSliced
    <3>7. QED
      BY <3>6 DEF z, n, t
  <2>4. QED
    BY <1>7, <2>1, <2>2, <2>3 DEF Upload!InspectJpeg
<1>10. info \in {Upload!NoImage, full}
  BY <1>7, <1>8, Zenon
<1> HIDE DEF info
<1>11. TrueImage(info, m, Len(f) = Len(w))
  <2>1. ImageName(m) = "jpeg" /\ m.x \in Nat /\ m.y \in Nat
    BY DEF JpegFields, ImageName
  <2>2. QED
    BY <1>9, <1>10, <2>1, SizedTruly
<1>12. Upload!InspectPng(f) = Upload!NoImage /\ Upload!InspectGif(f) = Upload!NoImage /\ Upload!InspectWebp(f) = Upload!NoImage
  BY <1>4, <1>5 DEF FirstTells
<1>13. Told(f, info)
  BY <1>12 DEF Told, Upload!InspectImageBuffer, Upload!OrElse, Upload!NoImage, info
<1>14. QED
  BY <1>4, <1>11, <1>13, BufferTruly

\* An image, in any of the formats.
LEMMA ImageIsSeen ==
  ASSUME NEW m, Upload!Conforms(m), m.format \in Upload!ImageFormats, NEW f \in Seq(Nat)
  PROVE  ImageSeen(m, f)
<1>1. CASE m.format = "png"
  <2>1. PngFields(m)
    BY <1>1, PngHolds
  <2>2. QED
    BY <2>1, PngIsSeen
<1>2. CASE m.format = "gif"
  <2>1. GifFields(m)
    BY <1>2, GifHolds
  <2>2. QED
    BY <2>1, GifIsSeen
<1>3. CASE m.format = "jpeg"
  <2>1. JpegFields(m)
    BY <1>3, JpegHolds
  <2>2. QED
    BY <2>1, JpegIsSeen
<1>4. CASE m.format = "vp8x"
  <2>1. Vp8xFields(m)
    BY <1>4, Vp8xHolds
  <2>2. QED
    BY <2>1, Vp8xIsSeen
<1>5. CASE m.format = "vp8l"
  <2>1. Vp8lFields(m)
    BY <1>5, Vp8lHolds
  <2>2. QED
    BY <2>1, Vp8lIsSeen
<1>6. m.format # "vp8"
  BY DEF Upload!Conforms
<1>7. QED
  BY <1>1, <1>2, <1>3, <1>4, <1>5, <1>6 DEF Upload!ImageFormats

\* A file that does not begin with the EBML id is no WebM one.
LEMMA NoEbmlHere ==
  ASSUME NEW f \in Seq(Nat), ~(Len(f) >= 2 /\ f[1] = 1 /\ f[2] = 10)
  PROVE  ~Upload!DetectWebm(f) /\ Upload!Header(f) = Upload!NoElement
<1> DEFINE t == <<1, 10, 13, 15>>
<1>1. Len(t) = 4 /\ t[1] = 1 /\ t[2] = 10 /\ Len(f) \in Nat
  OBVIOUS
<1> HIDE DEF t
<1>2. ~Lies(f, 0, t)
  <2>1. SUFFICES ASSUME Lies(f, 0, t) PROVE FALSE
    OBVIOUS
  <2>2. Upload!Has(f, 0, 4)
    BY <1>1, <2>1 DEF Lies
  <2>3. Len(f) >= 2
    BY <1>1, <2>2 DEF Upload!Has
  <2>4. 1 \in 1..Len(t) /\ 2 \in 1..Len(t) /\ 0 + 1 = 1 /\ 0 + 2 = 2
    BY <1>1
  <2>5. f[1] = 1 /\ f[2] = 10
    BY <1>1, <2>1, <2>4 DEF Lies
  <2>6. QED
    BY <2>3, <2>5
<1>3. QED
  BY <1>2, OnlyEbmlIsWebm DEF t

\* A file that begins like an image is no video.
LEMMA ImageIsNoVideo ==
  ASSUME NEW f \in Seq(Nat), Begins(f)
  PROVE  Upload!DetectVideoFormat(f) = "none"
<1>1. ~Upload!DetectWebm(f)
  <2>1. ~(Len(f) >= 2 /\ f[1] = 1 /\ f[2] = 10)
    BY DEF Begins
  <2>2. QED
    BY <2>1, NoEbmlHere
<1>2. ~Upload!DetectAvi(f)
  <2>1. SUFFICES ASSUME Upload!DetectAvi(f) PROVE FALSE
    OBVIOUS
  <2>2. Len(f) >= 6 /\ f[2] = 1
    BY <2>1, OnlyRiffIsAvi
  <2>3. QED
    BY <2>2 DEF Begins
<1>3. ~(Upload!Has(f, 0, 3) /\ Upload!At(f, 1) = Upload!Ftyp)
  <2>1. SUFFICES ASSUME Upload!Has(f, 0, 3), Upload!At(f, 1) = 9 PROVE FALSE
    BY DEF Upload!Ftyp
  <2>2. Len(f) >= 2 /\ f[2] = 9
    BY <2>1 DEF Upload!Has, Upload!At
  <2>3. QED
    BY <2>2 DEF Begins
<1>4. QED
  BY <1>1, <1>2, <1>3 DEF Upload!DetectVideoFormat

\* A video file is written in cells of 4 bits and is long enough to be known.
VideoWritten(m, n) ==
  Upload!Written(m) \in Seq(Nibbles) /\ Upload!Written(m) \in Seq(Nat) /\ Len(Upload!Written(m)) >= n

\* An ISO file is of nibbles, and at least as long as its brand.
LEMMA IsoIsWritten ==
  ASSUME NEW m, IsoMedium(m)
  PROVE  VideoWritten(m, 3)
<1> DEFINE mvhd == IsoMvhd(m)
           tail == IsoTail(m)
           w == Upload!Written(m)
<1>1. mvhd \in Seq(Nibbles) /\ Len(mvhd) = MvhdSize(m)
  BY IsoHolds, MvhdIsWhole
<1>2. PICK before : IsoPieces(m, w, before)
  BY IsoLaidOut
<1>3. before \in Seq(Nibbles) /\ Len(before) = IsoOffset(m) /\ tail \in Seq(Nibbles) /\ w = before \o mvhd \o tail
  BY <1>2 DEF IsoPieces
<1>4. IsoOffset(m) >= 3 /\ IsoOffset(m) \in Nat
  BY DEF IsoOffset, MoovHeader, Skipped
<1> HIDE DEF mvhd, tail, w
<1>5. Joins(Nibbles, before, mvhd)
  BY <1>1, <1>3, Joined
<1>6. Joins(Nibbles, before \o mvhd, tail)
  BY <1>3, <1>5, Joined DEF Joins
<1>7. w \in Seq(Nibbles) /\ Len(w) >= 3
  BY <1>3, <1>4, <1>5, <1>6 DEF Joins
<1>8. w \in Seq(Nat)
  BY <1>7, NibblesAreNat
<1>9. QED
  BY <1>7, <1>8 DEF VideoWritten, w

\* A WebM file is of nibbles, and at least as long as its header.
LEMMA WebmIsWritten ==
  ASSUME NEW m, WebmMedium(m)
  PROVE  VideoWritten(m, 10)
<1> DEFINE between == Between(m)
           segment == Segment(m)
           w == Upload!Written(m)
<1>1. WebmFits(m) /\ w = Ebml \o between \o segment
  BY WebmHolds, WebmIsWhole, WebmLaidOut
<1>2. Ebml \in Seq(Nibbles) /\ Len(Ebml) = 10 /\ between \in Seq(Nibbles) /\ segment \in Seq(Nibbles)
  <2>1. Fits(Upload!EbmlId, Doc) /\ HeadLength(Upload!EbmlId, Doc) = 5 /\ Len(Doc) = 5
    BY <1>1 DEF WebmFits
  <2>2. Ebml \in Seq(Nibbles) /\ Len(Ebml) = 5 + 5
    BY <2>1 DEF Fits, Ebml
  <2>3. QED
    BY <1>1, <2>2 DEF WebmFits
<1> HIDE DEF between, segment, w
<1>3. Joins(Nibbles, Ebml, between)
  BY <1>2, Joined
<1>4. Joins(Nibbles, Ebml \o between, segment)
  BY <1>2, <1>3, Joined DEF Joins
<1>5. w \in Seq(Nibbles) /\ Len(w) >= 10
  BY <1>1, <1>2, <1>3, <1>4 DEF Joins
<1>6. w \in Seq(Nat)
  BY <1>5, NibblesAreNat
<1>7. QED
  BY <1>5, <1>6 DEF VideoWritten, w

\* An AVI file is of nibbles, and at least as long as its header.
LEMMA AviIsWritten ==
  ASSUME NEW m, AviMedium(m)
  PROVE  VideoWritten(m, 6)
<1> DEFINE w == Upload!Written(m)
<1>1. w \in Seq(Nibbles) /\ Len(w) = 6 + JunkLength(m) + DataLength(m)
  BY AviLaidOut
<1>2. JunkLength(m) \in Nat /\ DataLength(m) \in Nat
  BY DEF JunkLength, DataLength, HdrlLength
<1> HIDE DEF w
<1>3. Len(w) >= 6
  BY <1>1, <1>2
<1>4. w \in Seq(Nat)
  BY <1>1, NibblesAreNat
<1>5. QED
  BY <1>1, <1>3, <1>4 DEF VideoWritten, w

\* The start of a video file is known as what it is or not at all, and its
\* duration is read truly or not at all; of the whole file both are read.
VideoSeen(m, f) ==
  LET whole == Len(f) = Len(Upload!Written(m))
      format == Upload!DetectVideoFormat(f)
  IN  /\ format \in {"none", m.format}
      /\ whole => format = m.format
      /\ format = m.format => TrueDuration(Upload!ReadVideoDuration(f, m.format), m, whole)

\* A video, whole or cut, is seen in its true format with its true duration, or not at all.
LEMMA VideoIsSeen ==
  ASSUME NEW m, Upload!Conforms(m), m.format \in Upload!VideoFormats, NEW f \in Seq(Nibbles),
         Part(f, 0, Upload!Written(m)), Len(f) <= Len(Upload!Written(m))
  PROVE  VideoSeen(m, f)
<1>0. f \in Seq(Nat) /\ Len(f) \in Nat
  BY NibblesAreNat
<1>1. CASE m.format \in {"mp4", "mov"}
  <2>1. IsoMedium(m)
    BY <1>1 DEF IsoMedium
  <2>2. VideoWritten(m, 3)
    BY <2>1, IsoIsWritten
  <2>3. Part(f, 0, IsoBrand(m))
    <3> DEFINE w == Upload!Written(m)
               brand == IsoBrand(m)
               o == 0
               n == 3
    <3>1. PICK before : IsoPieces(m, w, before)
      BY <2>1, IsoLaidOut
    <3> DEFINE rest == IsoMoov(m.form, MoovBody(m.extra, IsoMvhd(m))) \o IsoTail(m)
    <3>2. w = brand \o rest /\ rest \in Seq(Nibbles)
      BY <3>1 DEF IsoPieces
    <3>3. brand \in Seq(Nat) /\ Len(brand) = n /\ o \in Nat
      BY DEF IsoBrand
    <3>4. rest \in Seq(Nat)
      BY <3>2, NibblesAreNat
    <3>5. Part(f, o, w)
      OBVIOUS
    <3> HIDE DEF brand, rest, w, o, n
    <3>6. Follow(f, o, brand, n, rest)
      BY <1>0, <3>2, <3>3, <3>4, <3>5, PartsFollow
    <3>7. QED
      BY <3>6 DEF Follow, brand, o
  <2>4. Upload!DetectVideoFormat(f) = IF Len(f) >= 3 THEN m.format ELSE "none"
    BY <1>0, <1>1, <2>3, IsoIsDetected
  <2>5. TrueDuration(Upload!ReadIsoBmffDuration(f), m, Len(f) = Len(Upload!Written(m)))
    BY <1>0, <2>1, IsoReading
  <2>6. Upload!ReadVideoDuration(f, m.format) = Upload!ReadIsoBmffDuration(f)
    BY <1>1 DEF Upload!ReadVideoDuration
  <2>7. Len(f) = Len(Upload!Written(m)) => Len(f) >= 3
    BY <1>0, <2>2 DEF VideoWritten
  <2>8. QED
    BY <2>4, <2>5, <2>6, <2>7, Zenon DEF VideoSeen
<1>2. CASE m.format = "webm"
  <2>1. WebmMedium(m)
    BY <1>2 DEF WebmMedium
  <2>2. VideoWritten(m, 10) /\ WebmStart(m, f)
    BY <2>1, WebmIsWritten DEF WebmStart
  <2>3. WebmIsKnown(f)
    <3>1. WebmFields(m)
      BY <2>1, WebmHolds
    <3>2. Part(f, 0, Ebml)
      BY <2>1, <2>2, WebmPlaced DEF WebmPlaces
    <3>3. HeaderSeen(f)
      BY <3>1, <3>2, HeaderIsSeen
    <3>4. QED
      BY <3>3, WebmIsDetected
  <2>4. Len(f) >= 10 => TrueDuration(Upload!ReadWebmDuration(f), m, Len(f) = Len(Upload!Written(m)))
    BY <2>1, <2>2, WebmReading
  <2>5. Upload!ReadVideoDuration(f, m.format) = Upload!ReadWebmDuration(f)
    BY <1>2 DEF Upload!ReadVideoDuration
  <2>6. Len(f) = Len(Upload!Written(m)) => Len(f) >= 10
    BY <1>0, <2>2 DEF VideoWritten
  <2>7. Upload!DetectVideoFormat(f) = IF Len(f) >= 10 THEN m.format ELSE "none"
    BY <1>2, <2>3 DEF WebmIsKnown
  <2>8. m.format # "none"
    BY <1>2
  <2>9. QED
    BY <2>4, <2>5, <2>6, <2>7, <2>8, Zenon DEF VideoSeen
<1>3. CASE m.format = "avi"
  <2>1. AviMedium(m)
    BY <1>3 DEF AviMedium
  <2>2. VideoWritten(m, 6)
    BY <2>1, AviIsWritten
  <2>3. Upload!DetectVideoFormat(f) = IF Len(f) >= 6 THEN m.format ELSE "none"
    BY <1>0, <1>3, <2>1, AviIsDetected
  <2>4. TrueDuration(Upload!ReadAviDuration(f), m, Len(f) = Len(Upload!Written(m)))
    BY <1>0, <2>1, AviReading
  <2>5. Upload!ReadVideoDuration(f, m.format) = Upload!ReadAviDuration(f)
    BY <1>3 DEF Upload!ReadVideoDuration
  <2>6. Len(f) = Len(Upload!Written(m)) => Len(f) >= 6
    BY <1>0, <2>2 DEF VideoWritten
  <2>7. QED
    BY <2>3, <2>4, <2>5, <2>6, Zenon DEF VideoSeen
<1>4. QED
  BY <1>1, <1>2, <1>3 DEF Upload!VideoFormats

\* What is found in a file is an element or none.
Locates(f, id, parent) == Upload!FindIn(f, id, parent) \in Elements

\* A search in an element gives an element, or none.
LEMMA FoundIsElement ==
  ASSUME NEW f \in Seq(Nibbles), NEW id, NEW parent \in Elements
  PROVE  Locates(f, id, parent)
<1> DEFINE end == Upload!Smaller(parent.next, Len(f))
<1>1. end \in Nat /\ parent.dataStart \in Nat
  BY DEF Upload!Smaller, Elements
<1> HIDE DEF end
<1>2. PICK r : FindsElements(r, f, id, end)
  BY <1>1, ElementSearch
<1>3. Upload!FindElement(f, id, parent.dataStart, end) \in Elements
  BY <1>1, <1>2 DEF FindsElements
<1>4. Upload!NoElement \in Elements
  BY DEF Upload!NoElement, Elements
<1>5. QED
  BY <1>3, <1>4, Zenon DEF Locates, Upload!FindIn, end

\* Whatever is in a file, no parser reads past its end.
Safe(f) ==
  LET format == Upload!DetectVideoFormat(f)
  IN  /\ format \in {"none"} \cup Upload!VideoFormats
      /\ format # "none" => Upload!ReadVideoDuration(f, format) # Upload!RangeError

\* No WebM file makes its parser read past the end.
LEMMA WebmIsSafe ==
  ASSUME NEW f \in Seq(Nibbles)
  PROVE  Upload!ReadWebmDuration(f) # Upload!RangeError
<1>0. f \in Seq(Nat) /\ Len(f) \in Nat /\ 0 \in Nat
  BY NibblesAreNat
<1>1. Upload!NoElement \in Elements
  BY DEF Upload!NoElement, Elements
<1> DEFINE header == Upload!Header(f)
           body == Upload!Body(f, header)
           segment == Upload!FindIn(f, Upload!SegmentId, body)
           info == Upload!FindIn(f, Upload!InfoId, segment)
<1>2. header \in Elements
  <2> DEFINE e == Upload!ReadEbmlElement(f, 0)
  <2>1. e \in Elements
    BY <1>0, <1>1, ElementIsRead
  <2>2. header \in {e, Upload!NoElement}
    BY DEF Upload!Header
  <2>3. QED
    BY <1>1, <2>1, <2>2
<1> HIDE DEF header
<1>3. body \in Elements
  BY <1>0, <1>2 DEF Upload!Body, Elements, Upload!Smaller
<1> HIDE DEF body
<1>4. segment \in Elements
  BY <1>3, FoundIsElement DEF Locates
<1> HIDE DEF segment
<1>5. info \in Elements
  BY <1>4, FoundIsElement DEF Locates
<1> HIDE DEF info
<1>6. Upload!ReadWebmDuration(f) = Upload!ReadInfo(f, info)
  BY DEF Upload!ReadWebmDuration, info, segment, body, header
<1>7. PICK r : ReadsInfo(r, f, info)
  BY <1>5, InfoReading
<1>8. Upload!ReadInfo(f, info) \in Answered
  <2>1. <<info.dataStart, 2, 0>> \in Upload!Progress
    BY <1>5 DEF Elements, Upload!Progress
  <2>2. r[<<info.dataStart, 2, 0>>] \in Answered
    BY <1>7, <2>1 DEF ReadsInfo
  <2>3. Upload!Null \in Answered
    BY DEF Upload!Null, Answered
  <2>4. QED
    BY <1>7, <2>2, <2>3, Zenon DEF ReadsInfo
<1>9. Upload!RangeError \notin Answered
  BY DEF Upload!RangeError, Answered
<1>10. QED
  BY <1>6, <1>8, <1>9

\* No file makes the parser that is chosen for it read past the end.
LEMMA FilesAreSafe ==
  ASSUME NEW f \in Seq(Nat), f \in Seq(Nibbles) \/ ~(Len(f) >= 2 /\ f[1] = 1 /\ f[2] = 10)
  PROVE  Safe(f)
<1>1. Upload!ReadIsoBmffDuration(f) # Upload!RangeError
  BY DEF Upload!ReadIsoBmffDuration, Upload!MvhdDuration, Upload!TimesAt, Upload!Read, Upload!Null, Upload!RangeError
<1>2. Upload!ReadAviDuration(f) # Upload!RangeError
  <2>1. PICK r : ReadsChunks(r, f)
    BY ChunkReading
  <2> DEFINE p == <<6, Len(f), TRUE>>
  <2>2. p \in Upload!Loops /\ p[2] <= Len(f)
    <3>1. Len(f) \in Nat /\ p[2] = Len(f)
      OBVIOUS
    <3>2. p \in Nat \X Nat \X BOOLEAN
      BY <3>1
    <3>3. p[2] <= Len(f)
      <4>1. \A n \in Nat : n <= n
        OBVIOUS
      <4>2. QED
        BY <3>1, <4>1, Zenon
    <3>4. QED
      BY <3>2, <3>3 DEF Upload!Loops
  <2> HIDE DEF p
  <2>3. r[p] \in Answered
    BY <2>1, <2>2 DEF ReadsChunks
  <2>4. Upload!RangeError \notin Answered
    BY DEF Upload!RangeError, Answered
  <2>5. QED
    BY <2>1, <2>3, <2>4 DEF ReadsChunks, p
<1>3. Upload!DetectWebm(f) => Upload!ReadWebmDuration(f) # Upload!RangeError
  BY WebmIsSafe, NoEbmlHere
<1>4. QED
  BY <1>1, <1>2, <1>3 DEF Safe, Upload!DetectVideoFormat, Upload!ReadVideoDuration, Upload!VideoFormats

\* What arrives: a whole file is what was written, a cut one begins like it, and
\* what is altered keeps the cells of its kind.
NoEbml(f) == ~(Len(f) >= 2 /\ f[1] = 1 /\ f[2] = 10)
FileKept ==
  /\ medium \in Media /\ file \in Seq(Nat) /\ damage \in {"none", "cut", "altered"}
  /\ medium.format \in Upload!VideoFormats => file \in Seq(Nibbles)
  /\ medium.format \notin Upload!VideoFormats => NoEbml(file)
  /\ damage = "none" => file = Upload!Written(medium)
  /\ damage = "cut" => Part(file, 0, Upload!Written(medium)) /\ Len(file) < Len(Upload!Written(medium))

\* The file as it is written.
WellWritten(m) ==
  /\ Upload!Written(m) \in Seq(Nat)
  /\ m.format \in Upload!VideoFormats => Upload!Written(m) \in Seq(Nibbles)
  /\ m.format \notin Upload!VideoFormats => Begins(Upload!Written(m))

\* What a client writes is a well-formed file of its kind.
LEMMA MediaAreWritten ==
  ASSUME NEW m \in Media
  PROVE  WellWritten(m)
<1> DEFINE w == Upload!Written(m)
<1>1. Upload!Conforms(m) /\ m.format \in Upload!ImageFormats \cup Upload!VideoFormats
  <2>1. Upload!Conforms(m)
    BY MediaAssumption
  <2>2. QED
    BY <2>1 DEF Upload!Conforms
<1>2. CASE m.format \in Upload!VideoFormats
  <2>1. w \in Seq(Nibbles) /\ w \in Seq(Nat)
    BY <1>1, <1>2, IsoIsWritten, WebmIsWritten, AviIsWritten
       DEF VideoWritten, IsoMedium, WebmMedium, AviMedium, Upload!VideoFormats
  <2>2. QED
    BY <1>2, <2>1 DEF WellWritten
<1>3. CASE m.format \notin Upload!VideoFormats
  <2>1. ImageSeen(m, <<>>)
    <3> DEFINE f == <<>>
    <3>1. f \in Seq(Nat) /\ m.format \in Upload!ImageFormats
      BY <1>1, <1>3
    <3> HIDE DEF f
    <3>2. ImageSeen(m, f)
      BY <1>1, <3>1, ImageIsSeen
    <3>3. QED
      BY <3>2 DEF f
  <2>2. w \in Seq(Nat)
    BY <2>1, BytesAreNat DEF ImageSeen
  <2>3. ImageSeen(m, w)
    BY <1>1, <1>3, <2>2, ImageIsSeen
  <2>4. Part(w, 0, w)
    <3>1. \A i \in 1..Len(w) : 0 + i = i
      OBVIOUS
    <3>2. QED
      BY <3>1, Zenon DEF Part
  <2>5. Begins(w)
    BY <2>3, <2>4 DEF ImageSeen
  <2>6. QED
    BY <1>3, <2>2, <2>5 DEF WellWritten
<1>4. QED
  BY <1>2, <1>3

\* A file that begins like an image does not begin like EBML.
LEMMA BeginsIsNoEbml ==
  ASSUME NEW f \in Seq(Nat), Begins(f)
  PROVE  NoEbml(f)
BY DEF Begins, NoEbml

\* What the client sends is a file of its kind.
LEMMA FileInit == ASSUME Upload!Init PROVE FileKept
<1>1. medium \in Media /\ file = Upload!Written(medium) /\ damage = "none"
  BY DEF Upload!Init
<1>2. WellWritten(medium)
  BY <1>1, MediaAreWritten
<1>3. QED
  BY <1>1, <1>2, BeginsIsNoEbml DEF FileKept, WellWritten

\* Damage leaves it so.
LEMMA FileStep == ASSUME FileKept, [Upload!Next]_uploadVars PROVE FileKept'
<1> DEFINE w == Upload!Written(medium)
<1>0. WellWritten(medium)
  BY MediaAreWritten DEF FileKept
<1>1. CASE Upload!Cut
  <2>1. damage = "none" /\ file = w /\ damage' = "cut" /\ medium' = medium
    BY <1>1 DEF Upload!Cut, FileKept
  <2>2. PICK n \in 0..Len(w) - 1 : file' = SubSeq(w, 1, n)
    BY <1>1, <2>1 DEF Upload!Cut
  <2>3. w \in Seq(Nat) /\ Len(w) \in Nat
    BY <1>0 DEF WellWritten
  <2> HIDE DEF w
  <2>4. n \in 0..Len(w) /\ n < Len(w)
    BY <2>2, <2>3
  <2>5. file' \in Seq(Nat) /\ Len(file') = n /\ Part(file', 0, w)
    <3> DEFINE S == Nat
    <3>1. S \subseteq Nat /\ w \in Seq(S)
      BY <2>3
    <3> HIDE DEF S
    <3>2. QED
      BY <2>2, <2>4, <3>1, CutIsPart DEF IsCut, S
  <2>6. medium.format \in Upload!VideoFormats => file' \in Seq(Nibbles)
    <3>1. ASSUME medium.format \in Upload!VideoFormats PROVE file' \in Seq(Nibbles)
      <4>1. w \in Seq(Nibbles) /\ Nibbles \subseteq Nat
        BY <1>0, <3>1 DEF WellWritten, w, Nibbles
      <4>2. QED
        BY <2>2, <2>4, <4>1, CutIsPart DEF IsCut
    <3>2. QED
      BY <3>1
  <2>7. medium.format \notin Upload!VideoFormats => NoEbml(file')
    <3>1. ASSUME medium.format \notin Upload!VideoFormats PROVE NoEbml(file')
      <4>1. Begins(w)
        BY <1>0, <3>1 DEF WellWritten, w
      <4>2. ASSUME Len(file') >= 2 PROVE file'[1] # 1
        <5>1. 1 \in 1..Len(w) /\ 0 + 1 = 1 /\ 1 <= Len(file') /\ Len(w) >= 1
          BY <2>3, <2>4, <2>5, <4>2
        <5>2. file'[1] = w[1]
          BY <2>5, <5>1 DEF Part
        <5>3. QED
          BY <4>1, <5>1, <5>2 DEF Begins
      <4>3. QED
        BY <4>2 DEF NoEbml
    <3>2. QED
      BY <3>1
  <2>8. QED
    BY <2>1, <2>4, <2>5, <2>6, <2>7 DEF FileKept, w
<1>2. CASE Upload!Alter
  <2>1. damage = "none" /\ file = w /\ damage' = "altered" /\ medium' = medium
    BY <1>2 DEF Upload!Alter, FileKept
  <2>2. PICK i \in 1..Len(w), v \in Damage :
          (medium.format \in Upload!VideoFormats => v < 16) /\ file' = [w EXCEPT ![i] = v]
    BY <1>2, <2>1 DEF Upload!Alter, Upload!Base
  <2>3. v \in Nat /\ w \in Seq(Nat) /\ Len(w) \in Nat
    BY <1>0, DamageAssumption DEF WellWritten
  <2> HIDE DEF w
  <2>4. file' \in Seq(Nat) /\ Len(file') = Len(w)
    BY <2>2, <2>3
  <2>5. medium.format \in Upload!VideoFormats => file' \in Seq(Nibbles)
    <3>1. ASSUME medium.format \in Upload!VideoFormats PROVE file' \in Seq(Nibbles)
      <4>1. w \in Seq(Nibbles) /\ v \in Nibbles
        BY <1>0, <2>2, <2>3, <3>1 DEF WellWritten, w, Nibbles
      <4>2. QED
        BY <2>2, <4>1
    <3>2. QED
      BY <3>1
  <2>6. medium.format \notin Upload!VideoFormats => NoEbml(file')
    <3>1. ASSUME medium.format \notin Upload!VideoFormats, Len(file') >= 2, file'[1] = 1, file'[2] = 10 PROVE FALSE
      <4>1. Begins(w)
        BY <1>0, <3>1 DEF WellWritten, w
      <4>2. w[1] # 1 /\ w[2] # 10 /\ 1 \in 1..Len(w) /\ 2 \in 1..Len(w)
        BY <2>3, <2>4, <3>1, <4>1, SMTT(20) DEF Begins
      <4>3. \A j \in 1..Len(w) : j # i => file'[j] = w[j]
        BY <2>2, <2>3
      <4>4. i = 1 /\ i = 2
        BY <3>1, <4>2, <4>3
      <4>5. QED
        BY <4>4
    <3>2. QED
      BY <3>1 DEF NoEbml
  <2>7. QED
    BY <2>1, <2>4, <2>5, <2>6 DEF FileKept
<1>3. CASE UNCHANGED <<medium, file, damage>>
  BY <1>3 DEF FileKept, NoEbml
<1>4. ASSUME NEW q \in Upload!Requests, Upload!Upload(q) PROVE UNCHANGED <<medium, file, damage>>
  BY <1>4 DEF Upload!Upload, Upload!Answer, Upload!UploadImage, Upload!UploadVideo
<1>5. QED
  BY <1>1, <1>2, <1>3, <1>4 DEF Upload!Next, uploadVars

\* An empty file is nothing.
LEMMA EmptyIsNothing ==
  ASSUME NEW f \in Seq(Nat), Len(f) = 0
  PROVE  Upload!DetectVideoFormat(f) = "none" /\ Upload!InspectImageBuffer(f).size = Upload!Null
<1>1. Begins(f) /\ ~(Len(f) > 0)
  BY DEF Begins
<1>2. QED
  BY <1>1, ImageIsNoVideo, VideoIsNoImage

\* A file that is whole or was cut.
Unaltered == damage \in {"none", "cut"}
AsWritten ==
  /\ file \in Seq(Nat) /\ Upload!Conforms(medium) /\ medium.format \in Upload!ImageFormats \cup Upload!VideoFormats
  /\ medium.x \in Nat /\ medium.y \in Nat
  /\ Part(file, 0, Upload!Written(medium)) /\ Len(file) <= Len(Upload!Written(medium))
  /\ damage = "none" => Len(file) = Len(Upload!Written(medium))

\* A file that is whole or cut begins like what was written.
LEMMA UnalteredIsWritten ==
  ASSUME FileKept, Unaltered
  PROVE  AsWritten
<1> DEFINE w == Upload!Written(medium)
<1>1. file \in Seq(Nat) /\ w \in Seq(Nat) /\ Len(file) \in Nat /\ Len(w) \in Nat
  BY MediaAreWritten DEF FileKept, WellWritten
<1>2. Upload!Conforms(medium)
  BY MediaAssumption DEF FileKept
<1>3. medium.format \in Upload!ImageFormats \cup Upload!VideoFormats /\ medium.x \in Nat /\ medium.y \in Nat
  BY <1>2 DEF Upload!Conforms
<1> HIDE DEF w
<1>4. CASE damage = "none"
  <2>1. file = w
    BY <1>4 DEF FileKept, w
  <2>2. \A i \in 1..Len(w) : 0 + i = i
    BY <1>1
  <2>3. Part(file, 0, w)
    BY <2>1, <2>2, Zenon DEF Part
  <2>4. Len(file) <= Len(w) /\ Len(file) = Len(w)
    BY <1>1, <2>1
  <2>5. QED
    BY <1>1, <1>2, <1>3, <2>3, <2>4 DEF AsWritten, w
<1>5. CASE damage = "cut"
  <2>1. Part(file, 0, w) /\ Len(file) < Len(w)
    BY <1>5 DEF FileKept, w
  <2>2. Len(file) <= Len(w)
    BY <1>1, <2>1
  <2>3. QED
    BY <1>1, <1>2, <1>3, <1>5, <2>1, <2>2 DEF AsWritten, w
<1>6. QED
  BY <1>4, <1>5 DEF Unaltered

\* What uploadVideo says of it.
VideoJudged(q) ==
  LET format == Upload!DetectVideoFormat(file)
      v == Upload!VideoVerdict(q, format)
  IN  /\ v # "RangeError"
      /\ Unaltered /\ v = "OK" =>
           Upload!IsVideo /\ Upload!WithinLimits /\ format = medium.format /\ q.size # "overVideo"
      /\ damage = "none" /\ Upload!IsVideo /\ Upload!WithinLimits /\ q.size # "overVideo" => v = "OK"

\* The limit on a duration that was read truly.
DurationJudged(d, m, whole) ==
  LET t == Upload!Duration(m)
      v == Upload!DurationVerdict(d)
      within == t.num > 0 /\ t.num <= MaxSeconds * t.den
  IN  /\ v = "OK" => within
      /\ whole /\ within => v = "OK"

\* A duration that was read truly is held to the limit as the medium itself is.
LEMMA DurationIsJudged ==
  ASSUME NEW m, Upload!Conforms(m), m.format \in Upload!VideoFormats, NEW d, NEW whole \in BOOLEAN,
         TrueDuration(d, m, whole)
  PROVE  DurationJudged(d, m, whole)
<1> DEFINE t == Upload!Duration(m)
<1>1. m.x \in Nat /\ m.y \in Nat
  BY DEF Upload!Conforms
<1>2. t.num \in Nat /\ t.den \in Nat /\ t.is = "read"
  <2>1. m.x * m.y \in Nat
    BY <1>1, Product
  <2>2. CASE m.format \in {"mp4", "mov"}
    BY <1>1, <2>2 DEF Upload!Duration, Upload!Read
  <2>3. CASE m.format = "webm"
    BY <2>1, <2>3 DEF Upload!Duration, Upload!Read, Upload!ScalesPerSecond
  <2>4. CASE m.format = "avi"
    BY <2>1, <2>4 DEF Upload!Duration, Upload!Read, Upload!Base
  <2>5. QED
    BY <2>2, <2>3, <2>4 DEF Upload!VideoFormats
<1>3. MaxSeconds * t.den \in Nat
  BY <1>2, LimitsAssumption, Product
<1>4. t # Upload!RangeError /\ t # Upload!Null /\ Upload!Null # Upload!RangeError
  BY <1>2 DEF Upload!RangeError, Upload!Null
<1>5. d = Upload!Null \/ (d = t /\ t.num > 0 /\ t.den > 0)
  BY DEF TrueDuration
<1>6. whole /\ t.num > 0 /\ t.den > 0 => d = t
  BY DEF TrueDuration
<1>7. t.den = 0 => MaxSeconds * t.den = 0
  <2>1. MaxSeconds \in Nat
    BY LimitsAssumption
  <2>2. \A n \in Nat : n * 0 = 0
    OBVIOUS
  <2>3. QED
    BY <2>1, <2>2
<1> DEFINE top == MaxSeconds * t.den
<1>8. Upload!DurationVerdict(d) = IF d = Upload!RangeError THEN "RangeError" ELSE IF d = Upload!Null THEN "VIDEO_DURATION_INVALID"
        ELSE IF d.num > MaxSeconds * d.den THEN "VIDEO_DURATION_EXCEEDED" ELSE "OK"
  BY DEF Upload!DurationVerdict
<1>9. Upload!DurationVerdict(d) = "OK" <=> d = t /\ ~(t.num > top)
  BY <1>4, <1>5, <1>8
<1>10. top \in Nat /\ (t.den = 0 => top = 0)
  BY <1>3, <1>7
<1> HIDE DEF t, top
<1>11. t.num > 0 /\ t.num <= top => t.den > 0
  BY <1>2, <1>10
<1>12. t.num <= top <=> ~(t.num > top)
  BY <1>2, <1>10
<1>13. t # Upload!Null
  BY <1>4
<1>14. QED
  BY <1>5, <1>6, <1>9, <1>11, <1>12, <1>13, Zenon DEF DurationJudged, t, top

\* The checks of uploadVideo pass what they should.
LEMMA VideoIsJudged ==
  ASSUME FileKept, NEW q \in Upload!Requests
  PROVE  VideoJudged(q)
<1> DEFINE format == Upload!DetectVideoFormat(file)
           v == Upload!VideoVerdict(q, format)
           d == Upload!ReadVideoDuration(file, format)
<1>1. file \in Seq(Nat) /\ Safe(file)
  <2>1. file \in Seq(Nibbles) \/ ~(Len(file) >= 2 /\ file[1] = 1 /\ file[2] = 10)
    BY DEF FileKept, NoEbml
  <2>2. file \in Seq(Nat)
    BY DEF FileKept
  <2>3. QED
    BY <2>1, <2>2, FilesAreSafe
<1>2. v = IF Len(file) = 0 THEN "FILE_REQUIRED" ELSE IF q.size = "overVideo" THEN "FILE_SIZE_EXCEEDED"
          ELSE IF format = "none" THEN "FILE_TYPE_INVALID" ELSE Upload!DurationVerdict(d)
  BY DEF Upload!VideoVerdict
<1>3. v # "RangeError"
  BY <1>1, <1>2 DEF Safe, Upload!DurationVerdict
<1>4. v = "OK" => format # "none" /\ q.size # "overVideo" /\ Upload!DurationVerdict(d) = "OK"
  BY <1>2
<1>5. format # "none" /\ q.size # "overVideo" /\ Upload!DurationVerdict(d) = "OK" => v = "OK"
  <2>1. Len(file) = 0 => format = "none"
    BY <1>1, EmptyIsNothing
  <2>2. QED
    BY <1>2, <2>1
<1>6. ASSUME Unaltered, Upload!IsVideo
      PROVE  /\ v = "OK" => Upload!WithinLimits /\ format = medium.format
             /\ damage = "none" /\ Upload!WithinLimits /\ q.size # "overVideo" => v = "OK"
  <2>1. AsWritten /\ medium.format \in Upload!VideoFormats /\ file \in Seq(Nibbles)
    BY <1>6, UnalteredIsWritten DEF Upload!IsVideo, FileKept
  <2>2. VideoSeen(medium, file)
    BY <2>1, VideoIsSeen DEF AsWritten
  <2> DEFINE whole == Len(file) = Len(Upload!Written(medium))
  <2>3. whole \in BOOLEAN /\ (damage = "none" => whole)
    BY <2>1 DEF AsWritten
  <2>4. medium.format # "none"
    BY <2>1 DEF Upload!VideoFormats
  <2>5. format # "none" => format = medium.format /\ TrueDuration(d, medium, whole)
    BY <2>2, Zenon DEF VideoSeen
  <2>6. whole => format # "none"
    BY <2>2, <2>4, Zenon DEF VideoSeen
  <2>7. format # "none" => DurationJudged(d, medium, whole)
    BY <2>1, <2>3, <2>5, DurationIsJudged DEF AsWritten
  <2>8. Upload!WithinLimits <=> /\ Upload!Duration(medium).num > 0
                                /\ Upload!Duration(medium).num <= MaxSeconds * Upload!Duration(medium).den
    BY <1>6, Zenon DEF Upload!WithinLimits
  <2> HIDE DEF whole, format, d, v
  <2>9. v = "OK" => Upload!WithinLimits /\ format = medium.format
    BY <1>4, <2>5, <2>7, <2>8, Zenon DEF DurationJudged
  <2>10. damage = "none" /\ Upload!WithinLimits /\ q.size # "overVideo" => v = "OK"
    BY <1>5, <2>3, <2>6, <2>7, <2>8, Zenon DEF DurationJudged
  <2>11. QED
    BY <2>9, <2>10
<1>7. ASSUME Unaltered, ~Upload!IsVideo PROVE v # "OK"
  <2>1. AsWritten
    BY <1>7, UnalteredIsWritten
  <2>2. medium.format \in Upload!ImageFormats
    BY <1>7, <2>1 DEF AsWritten, Upload!IsVideo
  <2>3. ImageSeen(medium, file)
    BY <2>1, <2>2, ImageIsSeen DEF AsWritten
  <2>4. format = "none"
    BY <1>1, <2>1, <2>3, ImageIsNoVideo DEF ImageSeen, AsWritten
  <2>5. QED
    BY <1>4, <2>4
<1>8. damage = "none" => Unaltered
  BY DEF Unaltered
<1> HIDE DEF v, format, d
<1>9. QED
  BY <1>3, <1>4, <1>6, <1>7, <1>8, Zenon DEF VideoJudged, v, format

\* What uploadImage says of it.
ImageJudged(q) ==
  LET info == Upload!InspectImageBuffer(file)
      v == Upload!ImageVerdict(q, info)
  IN  /\ v # "RangeError"
      /\ Unaltered /\ v = "OK" =>
           ~Upload!IsVideo /\ Upload!WithinLimits /\ info.format = Upload!TrueFormat /\ q.size = "fits"
      /\ damage = "none" /\ ~Upload!IsVideo /\ Upload!WithinLimits /\ q.size = "fits" => v = "OK"

\* The checks of uploadImage pass what they should.
LEMMA ImageIsJudged ==
  ASSUME FileKept, NEW q \in Upload!Requests
  PROVE  ImageJudged(q)
<1> DEFINE info == Upload!InspectImageBuffer(file)
           v == Upload!ImageVerdict(q, info)
<1>1. v = IF Len(file) = 0 THEN "FILE_REQUIRED" ELSE IF q.size # "fits" THEN "FILE_SIZE_EXCEEDED"
          ELSE IF info.size = Upload!Null THEN "FILE_TYPE_INVALID"
          ELSE IF Upload!OutOfBounds(info.size) THEN "FILE_DIMENSIONS_INVALID" ELSE "OK"
  BY DEF Upload!ImageVerdict
<1>2. v # "RangeError"
  BY <1>1
<1>3. v = "OK" <=> q.size = "fits" /\ info.size # Upload!Null /\ ~Upload!OutOfBounds(info.size)
  <2>1. Len(file) = 0 => info.size = Upload!Null
    BY EmptyIsNothing DEF FileKept
  <2>2. QED
    BY <1>1, <2>1
<1>4. ASSUME Unaltered, ~Upload!IsVideo
      PROVE  /\ v = "OK" => Upload!WithinLimits /\ info.format = Upload!TrueFormat
             /\ damage = "none" /\ Upload!WithinLimits /\ q.size = "fits" => v = "OK"
  <2>1. AsWritten
    BY <1>4, UnalteredIsWritten
  <2>2. medium.format \in Upload!ImageFormats
    BY <1>4, <2>1 DEF AsWritten, Upload!IsVideo
  <2>3. ImageSeen(medium, file)
    BY <2>1, <2>2, ImageIsSeen DEF AsWritten
  <2> DEFINE x == medium.x
             y == medium.y
             whole == Len(file) = Len(Upload!Written(medium))
  <2>4. TrueImage(info, medium, whole) /\ x \in Nat /\ y \in Nat /\ (damage = "none" => whole)
    BY <2>1, <2>3 DEF ImageSeen, AsWritten
  <2>5. Upload!WithinLimits <=> {x, y} \subseteq ImageMin..ImageMax
    BY <1>4, Zenon DEF Upload!WithinLimits
  <2>6. ImageMin \in Nat /\ ImageMax \in Nat /\ ImageMin > 0
    BY LimitsAssumption
  <2>7. ImageName(medium) = Upload!TrueFormat
    <3>1. medium.format # "vp8"
      BY <2>1 DEF AsWritten, Upload!Conforms
    <3>2. QED
      BY <3>1 DEF ImageName, Upload!TrueFormat
  <2>8. TrueInfo(medium).size = Upload!Size(x, y) /\ TrueInfo(medium).format = ImageName(medium)
    BY DEF TrueInfo
  <2>9. Upload!Size(x, y) # Upload!Null /\ (Upload!OutOfBounds(Upload!Size(x, y)) <=> x < ImageMin \/ y < ImageMin \/ x > ImageMax \/ y > ImageMax)
    BY DEF Upload!Size, Upload!Null, Upload!OutOfBounds
  <2> HIDE DEF x, y, whole, info, v
  <2>10. Upload!WithinLimits <=> ~Upload!OutOfBounds(Upload!Size(x, y))
    <3>1. {x, y} \subseteq ImageMin..ImageMax <=> ~(x < ImageMin \/ y < ImageMin \/ x > ImageMax \/ y > ImageMax)
      BY <2>4, <2>6
    <3>2. QED
      BY <2>5, <2>9, <3>1, Zenon
  <2>11. Upload!WithinLimits => x > 0 /\ y > 0
    BY <2>4, <2>5, <2>6
  <2>12. info.size # Upload!Null => info = TrueInfo(medium)
    BY <2>4 DEF TrueImage
  <2>13. v = "OK" => Upload!WithinLimits /\ info.format = Upload!TrueFormat
    BY <1>3, <2>7, <2>8, <2>10, <2>12, Zenon
  <2>14. damage = "none" /\ Upload!WithinLimits /\ q.size = "fits" => v = "OK"
    <3>1. whole /\ Upload!WithinLimits => info = TrueInfo(medium)
      BY <2>4, <2>11, Zenon DEF TrueImage, x, y
    <3>2. QED
      BY <1>3, <2>4, <2>8, <2>9, <2>10, <3>1, Zenon
  <2>15. QED
    BY <2>13, <2>14
<1>5. ASSUME Upload!IsVideo PROVE v # "OK"
  <2>1. file \in Seq(Nat) /\ file \in Seq(Nibbles)
    BY <1>5 DEF Upload!IsVideo, FileKept
  <2>2. Len(file) > 0 => file[1] \in Nibbles
    BY <2>1
  <2>3. info.size = Upload!Null
    BY <2>1, <2>2, VideoIsNoImage
  <2>4. QED
    BY <1>3, <2>3
<1>6. damage = "none" => Unaltered
  BY DEF Unaltered
<1> HIDE DEF v, info
<1>7. QED
  BY <1>2, <1>3, <1>4, <1>5, <1>6, Zenon DEF ImageJudged, v, info

\* What the answer owes the medium: until there is one, nothing is stored.
AnswerKept ==
  /\ outcome = "pending" => stored = "none"
  /\ Upload!NothingThrows
  /\ Upload!IntactIsJudgedRight
  /\ Upload!CutIsNotMisread

\* Before the upload there is nothing to judge.
LEMMA AnswerInit == ASSUME Upload!Init PROVE AnswerKept
BY DEF Upload!Init, AnswerKept, Upload!NothingThrows, Upload!IntactIsJudgedRight, Upload!CutIsNotMisread

\* A medium that is sent as what it is, in a size that its route takes.
SentRightly(q) ==
  /\ q.claim = "media" /\ (Upload!IsVideo <=> q.type = "video")
  /\ q.size = "fits" \/ (Upload!IsVideo /\ q.size = "overImage")

\* A verdict that passes what is sent rightly and is within the limits, and
\* nothing else that is whole or cut.
Justified(q, verdict, format) ==
  /\ verdict # "RangeError" /\ verdict # "pending"
  /\ Unaltered /\ verdict = "OK" =>
       Upload!WithinLimits /\ format = Upload!TrueFormat /\ SentRightly(q)
  /\ damage = "none" /\ Upload!WithinLimits /\ SentRightly(q) => verdict = "OK"

\* The answer to a whole request, from what the checks of its route say.
LEMMA AnswerIsRight ==
  ASSUME FileKept, AnswerKept, NEW q \in Upload!Requests, NEW verdict, NEW format,
         outcome = "pending", Upload!Answer(q, verdict, format), Justified(q, verdict, format)
  PROVE  AnswerKept'
<1>1. /\ request' = q
      /\ outcome' = IF verdict = "OK" /\ ~q.dbUp THEN "FILE_UPLOAD_FAILED" ELSE verdict
      /\ stored' = IF verdict = "OK" /\ q.dbUp THEN format ELSE stored
      /\ medium' = medium /\ file' = file /\ damage' = damage
  BY DEF Upload!Answer
<1>2. stored = "none"
  BY DEF AnswerKept
<1>3. outcome' # "RangeError" /\ outcome' # "pending"
  BY <1>1 DEF Justified
<1>4. /\ Upload!WithinLimits' <=> Upload!WithinLimits
      /\ Upload!IsVideo' <=> Upload!IsVideo
      /\ Upload!TrueFormat' = Upload!TrueFormat
  BY <1>1 DEF Upload!WithinLimits, Upload!IsVideo, Upload!TrueFormat
<1>5. Upload!IntactIsJudgedRight'
  <2>1. q.dbUp \in BOOLEAN
    BY DEF Upload!Requests
  <2> DEFINE right == SentRightly(q) /\ Upload!WithinLimits /\ q.dbUp
  <2>2. damage = "none" => (right <=> verdict = "OK" /\ q.dbUp)
    BY Zenon DEF Unaltered, Justified
  <2>3. damage = "none" /\ right => stored' = Upload!TrueFormat
    BY <1>1, <2>2, Zenon DEF Unaltered, Justified
  <2>4. damage = "none" /\ ~right => stored' = "none"
    BY <1>1, <1>2, <2>2, Zenon
  <2>5. right <=> /\ q.claim = "media" /\ q.dbUp
                  /\ q.size = "fits" \/ (Upload!IsVideo /\ q.size = "overImage")
                  /\ Upload!IsVideo = (q.type = "video")
                  /\ Upload!WithinLimits
    <3>1. Upload!IsVideo \in BOOLEAN
      BY DEF Upload!IsVideo
    <3>2. (Upload!IsVideo <=> q.type = "video") <=> (Upload!IsVideo = (q.type = "video"))
      BY <3>1
    <3>3. QED
      BY <3>2, Zenon DEF SentRightly
  <2> HIDE DEF right
  <2>6. damage = "none" => stored' = IF right THEN Upload!TrueFormat ELSE "none"
    BY <2>3, <2>4, Zenon
  <2>7. QED
    <3>1. /\ request' = q /\ damage' = damage
          /\ Upload!WithinLimits' <=> Upload!WithinLimits
          /\ Upload!IsVideo' <=> Upload!IsVideo
          /\ Upload!TrueFormat' = Upload!TrueFormat
      BY <1>1, <1>4
    <3>2. Upload!IsVideo' = Upload!IsVideo
      BY <3>1 DEF Upload!IsVideo
    <3>3. QED
      BY <2>5, <2>6, <3>1, <3>2, Zenon DEF Upload!IntactIsJudgedRight
<1>6. Upload!CutIsNotMisread'
  BY <1>1, <1>2, <1>4, Zenon DEF Upload!CutIsNotMisread, Unaltered, Justified
<1>7. QED
  BY <1>3, <1>5, <1>6 DEF AnswerKept, Upload!NothingThrows

\* Every step of an upload keeps what its answer owes.
LEMMA AnswerStep ==
  ASSUME FileKept, AnswerKept, [Upload!Next]_uploadVars
  PROVE  AnswerKept'
<1>1. CASE UNCHANGED uploadVars
  BY <1>1 DEF uploadVars, AnswerKept, Upload!NothingThrows, Upload!IntactIsJudgedRight, Upload!CutIsNotMisread,
              Upload!IsVideo, Upload!TrueFormat, Upload!WithinLimits
<1>2. CASE Upload!Cut \/ Upload!Alter
  <2>1. outcome = "pending" /\ outcome' = outcome /\ stored' = stored
    BY <1>2 DEF Upload!Cut, Upload!Alter
  <2>2. stored' = "none" /\ outcome' = "pending"
    BY <2>1 DEF AnswerKept
  <2>3. QED
    BY <2>2 DEF AnswerKept, Upload!NothingThrows, Upload!IntactIsJudgedRight, Upload!CutIsNotMisread
<1>3. ASSUME NEW q \in Upload!Requests, Upload!Upload(q) PROVE AnswerKept'
  <2>1. outcome = "pending"
    BY <1>3 DEF Upload!Upload
  <2>2. /\ q.size \in {"fits", "overImage", "overVideo"} /\ q.type \in {"image", "video"}
        /\ q.claim \in {"media", "other"}
    BY DEF Upload!Requests
  <2>3. CASE Upload!RouteVerdict(q) # "OK"
    <3> DEFINE verdict == Upload!RouteVerdict(q)
               none == "none"
    <3>1. /\ verdict \in {"FILE_TYPE_INVALID", "FILE_SIZE_EXCEEDED"}
          /\ q.claim = "other" \/ q.size = "overVideo"
      BY <2>2, <2>3 DEF Upload!RouteVerdict
    <3>2. Upload!Answer(q, verdict, none)
      BY <1>3, <2>3 DEF Upload!Upload
    <3> HIDE DEF verdict, none
    <3>3. verdict # "RangeError" /\ verdict # "pending" /\ verdict # "OK"
      BY <3>1
    <3>4. Justified(q, verdict, none)
      BY <3>1, <3>3 DEF Justified, SentRightly
    <3>5. QED
      BY <2>1, <3>2, <3>4, AnswerIsRight
  <2>4. CASE Upload!RouteVerdict(q) = "OK" /\ q.type = "video"
    <3> DEFINE format == Upload!DetectVideoFormat(file)
               verdict == Upload!VideoVerdict(q, format)
    <3>1. q.claim = "media" /\ q.size # "overVideo"
      BY <2>2, <2>4 DEF Upload!RouteVerdict
    <3>2. Upload!Answer(q, verdict, format)
      BY <1>3, <2>4 DEF Upload!Upload, Upload!UploadVideo
    <3>3. verdict # "pending"
      BY DEF Upload!VideoVerdict, Upload!DurationVerdict
    <3>4. /\ verdict # "RangeError"
          /\ Unaltered /\ verdict = "OK" =>
               Upload!IsVideo /\ Upload!WithinLimits /\ format = medium.format /\ q.size # "overVideo"
          /\ damage = "none" /\ Upload!IsVideo /\ Upload!WithinLimits /\ q.size # "overVideo" => verdict = "OK"
      BY VideoIsJudged, Zenon DEF VideoJudged
    <3>5. Upload!IsVideo => Upload!TrueFormat = medium.format
      BY DEF Upload!IsVideo, Upload!VideoFormats, Upload!TrueFormat
    <3> HIDE DEF verdict, format
    <3>6. Justified(q, verdict, format)
      BY <2>2, <2>4, <3>1, <3>3, <3>4, <3>5 DEF Justified, SentRightly
    <3>7. QED
      BY <2>1, <3>2, <3>6, AnswerIsRight
  <2>5. CASE Upload!RouteVerdict(q) = "OK" /\ q.type # "video"
    <3> DEFINE info == Upload!InspectImageBuffer(file)
               format == info.format
               verdict == Upload!ImageVerdict(q, info)
    <3>1. q.claim = "media" /\ q.size # "overVideo"
      BY <2>2, <2>5 DEF Upload!RouteVerdict
    <3>2. Upload!Answer(q, verdict, format)
      BY <1>3, <2>5 DEF Upload!Upload, Upload!UploadImage
    <3>3. verdict # "pending"
      BY DEF Upload!ImageVerdict
    <3>4. /\ verdict # "RangeError"
          /\ Unaltered /\ verdict = "OK" =>
               ~Upload!IsVideo /\ Upload!WithinLimits /\ format = Upload!TrueFormat /\ q.size = "fits"
          /\ damage = "none" /\ ~Upload!IsVideo /\ Upload!WithinLimits /\ q.size = "fits" => verdict = "OK"
      BY ImageIsJudged, Zenon DEF ImageJudged
    <3> HIDE DEF verdict, format, info
    <3>6. Justified(q, verdict, format)
      BY <2>5, <3>1, <3>3, <3>4 DEF Justified, SentRightly
    <3>7. QED
      BY <2>1, <3>2, <3>6, AnswerIsRight
  <2>6. QED
    BY <2>3, <2>4, <2>5
<1>4. QED
  BY <1>1, <1>2, <1>3 DEF Upload!Next

\* A step of the parts is a step of the one that is seen.
LEMMA UploadPart ==
  ASSUME [Next]_vars
  PROVE  part' = part /\ (part = "uploads" => [Upload!Next]_uploadVars)
<1>1. CASE UNCHANGED vars
  BY <1>1 DEF vars
<1>2. CASE Next
  BY <1>2 DEF Next, Idle
<1>3. QED
  BY <1>1, <1>2

\* UploadsAreJudged
THEOREM UploadsJudged == Spec => []UploadsAreJudged
<1>1. Init => (part = "uploads" => FileKept /\ AnswerKept)
  BY FileInit, AnswerInit DEF Init
<1>2. (part = "uploads" => FileKept /\ AnswerKept) /\ [Next]_vars
        => (part = "uploads" => FileKept /\ AnswerKept)'
  BY UploadPart, FileStep, AnswerStep
<1>3. (part = "uploads" => FileKept /\ AnswerKept) => UploadsAreJudged
  BY DEF AnswerKept, UploadsAreJudged
<1>4. QED
  BY <1>1, <1>2, <1>3, PTL DEF Spec
=============================================================================
