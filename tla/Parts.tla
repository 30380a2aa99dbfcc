-------------------------------- MODULE Parts --------------------------------
(* The parts of the program that are a component of their own and share no  *)
(* state with the rest: each behaviour is a behaviour of one of them, which *)
(* "part" names. The variables of the others are Unused.                    *)
EXTENDS Naturals, Sequences

CONSTANTS
  Tabs, Pictures, NoPicture,                        \* Avatars
  Users, Limit, Nobody, NoCode,                     \* Requests
  Texts, Files, Blank, NoFile,                      \* Composer; Blank also Search
  Latest, First, Avatar, Closed,                    \* MediaViewer
  Chats, Messages, Shown, NoChat,                   \* Banners; Chats also ConversationList,
                                                    \* and both SessionSocket
  Queries, Nowhere, Directory, MaxEdits,            \* Search
  Self, MaxEvents,                                  \* ContactsPage
  MaxMessages, MaxNudges,                           \* ConversationList
  Media, Damage, ImageMin, ImageMax, MaxSeconds,    \* Uploads
  MaxSockets, Attempts                              \* SessionSocket

ASSUME LimitIsNatural == Limit \in [{"open", "guarded"} -> Nat]
ASSUME BoundsAssumption == {Shown, MaxEdits, MaxEvents, MaxMessages, MaxNudges, MaxSockets, Attempts} \subseteq Nat
ASSUME NoPictureAssumption == NoPicture \notin Pictures
ASSUME NowhereAssumption == Nowhere \notin Queries \cup {Blank}
ASSUME SelfAssumption == Self \in Users
ASSUME NobodyAssumption == Users \cap {Nobody, "broken", "address"} = {}

VARIABLES
  part,
  avatar, rows, call, mishap,
  spent, granted, closed, answer,
  text, attachment, dialog, uploading, sending, linked, owed, unheard,
  loaded, at, stage, fetches, retries, cached, overtaken,
  items, seenIds, chatOf, activeChatId, me,
  query, urlQuery, committedQuery, replacing, timer, edits, entered, undone, found, sends, latest,
  messages, told, nudges, visible, list, fetch,
  status, chats, page, lists, loads, respond, settled, events,
  medium, file, damage, request, outcome, stored,
  session, made, link, tries, flags, context, screen, active, room

avatarVars  == <<avatar, rows, call, mishap>>
requestVars == <<spent, granted, closed, answer>>
composeVars == <<text, attachment, dialog, uploading, sending, linked, owed, unheard>>
viewerVars  == <<loaded, at, stage, fetches, retries, cached, overtaken>>
bannerVars  == <<items, seenIds, chatOf, activeChatId, me>>
searchVars  == <<query, urlQuery, committedQuery, replacing, timer, edits, entered, undone, found, sends, latest>>
listVars    == <<messages, told, nudges, visible, list, fetch>>
contactVars == <<status, chats, page, lists, loads, respond, settled, events>>
uploadVars  == <<medium, file, damage, request, outcome, stored>>
socketVars  == <<session, made, link, tries, flags, context, screen, active, room>>
vars == <<part, avatarVars, requestVars, composeVars, viewerVars, bannerVars, searchVars, listVars, contactVars, uploadVars, socketVars>>

Profile  == INSTANCE Avatars
Http     == INSTANCE Requests
Compose  == INSTANCE Composer
Viewer   == INSTANCE MediaViewer
Banner   == INSTANCE Banners
Finder   == INSTANCE Search WITH text <- query
Overview == INSTANCE ConversationList WITH rows <- messages
Contact  == INSTANCE ContactsPage
Upload   == INSTANCE Uploads
Socket   == INSTANCE SessionSocket

ASSUME NoCodeAssumption == NoCode \notin Http!GenericCodes \cup Http!SpecificCodes

\* The media are what their containers can hold, an altered cell is a byte, and
\* the limits are those of the service: an image of no width is below them.
ASSUME MediaAssumption == \A m \in Media : Upload!Conforms(m)
ASSUME DamageAssumption == Damage \subseteq 0..255
ASSUME LimitsAssumption == {ImageMin, ImageMax, MaxSeconds} \subseteq Nat /\ ImageMin > 0

-----------------------------------------------------------------------------
Unused == "unused"

NoAvatars  == avatar = Unused /\ rows = Unused /\ call = Unused /\ mishap = Unused
NoRequests == spent = Unused /\ granted = Unused /\ closed = Unused /\ answer = Unused
NoComposer ==
  /\ text = Unused /\ attachment = Unused /\ dialog = Unused /\ uploading = Unused
  /\ sending = Unused /\ linked = Unused /\ owed = Unused /\ unheard = Unused
NoViewer ==
  /\ loaded = Unused /\ at = Unused /\ stage = Unused /\ fetches = Unused
  /\ retries = Unused /\ cached = Unused /\ overtaken = Unused
NoBanners == items = Unused /\ seenIds = Unused /\ chatOf = Unused /\ activeChatId = Unused /\ me = Unused
NoSearch ==
  /\ query = Unused /\ urlQuery = Unused /\ committedQuery = Unused /\ replacing = Unused
  /\ timer = Unused /\ edits = Unused /\ entered = Unused /\ undone = Unused /\ found = Unused
  /\ sends = Unused /\ latest = Unused
NoList ==
  /\ messages = Unused /\ told = Unused /\ nudges = Unused
  /\ visible = Unused /\ list = Unused /\ fetch = Unused
NoContacts ==
  /\ status = Unused /\ chats = Unused /\ page = Unused /\ lists = Unused
  /\ loads = Unused /\ respond = Unused /\ settled = Unused /\ events = Unused
NoUpload ==
  /\ medium = Unused /\ file = Unused /\ damage = Unused
  /\ request = Unused /\ outcome = Unused /\ stored = Unused
NoSockets ==
  /\ session = Unused /\ made = Unused /\ link = Unused /\ tries = Unused /\ flags = Unused
  /\ context = Unused /\ screen = Unused /\ active = Unused /\ room = Unused

Init ==
  /\ part \in {"avatars", "requests", "composer", "viewer", "banners", "search", "list", "contacts", "uploads", "socket"}
  /\ IF part = "avatars"  THEN Profile!Init  ELSE NoAvatars
  /\ IF part = "requests" THEN Http!Init     ELSE NoRequests
  /\ IF part = "composer" THEN Compose!Init  ELSE NoComposer
  /\ IF part = "viewer"   THEN Viewer!Init   ELSE NoViewer
  /\ IF part = "banners"  THEN Banner!Init   ELSE NoBanners
  /\ IF part = "search"   THEN Finder!Init   ELSE NoSearch
  /\ IF part = "list"     THEN Overview!Init ELSE NoList
  /\ IF part = "contacts" THEN Contact!Init  ELSE NoContacts
  /\ IF part = "uploads"  THEN Upload!Init   ELSE NoUpload
  /\ IF part = "socket"   THEN Socket!Init   ELSE NoSockets

\* The variables of all parts but the one that takes the step stay Unused.
Idle(p) ==
  /\ part = p /\ part' = p
  /\ IF p = "avatars"  THEN TRUE ELSE UNCHANGED avatarVars
  /\ IF p = "requests" THEN TRUE ELSE UNCHANGED requestVars
  /\ IF p = "composer" THEN TRUE ELSE UNCHANGED composeVars
  /\ IF p = "viewer"   THEN TRUE ELSE UNCHANGED viewerVars
  /\ IF p = "banners"  THEN TRUE ELSE UNCHANGED bannerVars
  /\ IF p = "search"   THEN TRUE ELSE UNCHANGED searchVars
  /\ IF p = "list"     THEN TRUE ELSE UNCHANGED listVars
  /\ IF p = "contacts" THEN TRUE ELSE UNCHANGED contactVars
  /\ IF p = "uploads"  THEN TRUE ELSE UNCHANGED uploadVars
  /\ IF p = "socket"   THEN TRUE ELSE UNCHANGED socketVars

Next ==
  \/ Idle("avatars")  /\ Profile!Next
  \/ Idle("requests") /\ Http!Next
  \/ Idle("composer") /\ Compose!Next
  \/ Idle("viewer")   /\ Viewer!Next
  \/ Idle("banners")  /\ Banner!Next
  \/ Idle("search")   /\ Finder!Next
  \/ Idle("list")     /\ Overview!Next
  \/ Idle("contacts") /\ Contact!Next
  \/ Idle("uploads")  /\ Upload!Next
  \/ Idle("socket")   /\ Socket!Next

\* What each part assumes of its scheduling is said in its module.
Spec ==
  /\ Init /\ [][Next]_vars
  /\ WF_vars(Idle("banners") /\ Banner!TimerFires)
  /\ WF_vars(Idle("search") /\ Finder!Debounce) /\ WF_vars(Idle("search") /\ Finder!Arrive)
  /\ WF_vars(Idle("search") /\ Finder!Answers)
  /\ WF_vars(Idle("list") /\ Overview!Reveal) /\ SF_vars(Idle("list") /\ Overview!Poll)
  /\ SF_vars(Idle("list") /\ Overview!LoadLatest) /\ SF_vars(Idle("list") /\ Overview!LoadUnread)
  /\ SF_vars(Idle("list") /\ Overview!Deliver)

-----------------------------------------------------------------------------
\* However uploads, removals and edits of several tabs overlap and fail, the
\* profile never shows a picture that no longer exists (see Avatars).
AvatarIsServed == part = "avatars" => Profile!AvatarIsServed

\* The error envelope names what went wrong on the server (see Requests).
EnvelopeNamesCause == part = "requests" => Http!EnvelopeNamesCause

\* The request budget of a signed-in user is the user's own (see Requests).
BudgetIsPersonal == [][part = "requests" => Http!SpendsOwnBudget]_vars

\* The composer holds exactly what the user still wants to send (see Composer).
DraftIsOwed == part = "composer" => Compose!DraftIsOwed

\* The medium on the stage is the one the viewer is at (see MediaViewer).
ShownIsCurrent == part = "viewer" => Viewer!ShownIsCurrent

\* The banners go in the end, and none keeps coming back (see Banners).
BannersLeave == <>[](part = "banners" => Banner!Raised = {})

\* Input and address settle on what the user entered last, and the rows on the
\* users it names (see Search).
SettlesOnText == <>[](part = "search" => Finder!Settled)

\* A preview goes back to an older message only by the answer of a refetch, and
\* the badge covers an unread preview (see ConversationList).
PreviewNeverRegresses == [][part = "list" => Overview!OnlyAnswersRegress]_vars
BadgeCoversPreview == part = "list" => Overview!BadgeCoversPreview

\* The list ends up as the server has it (see ConversationList).
ListSettles == <>[](part = "list" => Overview!IsCurrent)

\* Once the tab was told of an answer to a contact request, every list at rest
\* has it (see ContactsPage).
AnsweredIsSettled == part = "contacts" => Contact!AnsweredIsSettled

\* A connected tab has joined the chat on its screen, through the socket of the
\* present session (see SessionSocket).
ChatIsJoined == part = "socket" => Socket!ChatIsJoined

\* An intact file is judged by the medium in it, no file makes a parser throw,
\* and one that lost its end is stored only if the medium passes (see Uploads).
UploadsAreJudged ==
  part = "uploads" =>
    Upload!NothingThrows /\ Upload!IntactIsJudgedRight /\ Upload!CutIsNotMisread
=============================================================================
