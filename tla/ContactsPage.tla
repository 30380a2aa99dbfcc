---------------------------- MODULE ContactsPage ----------------------------
(***************************************************************************)
(* The contacts page and the dashboard in one tab: three TanStack queries, *)
(* the calls that answer a contact request, and the invalidation that      *)
(* follows an answer.  The tables are those of Relationship: other tabs,   *)
(* the peers and this tab's calls take its steps.  A user's request row is *)
(* named by its sender.  Accounts are not deleted here, and the events     *)
(* that refetch the conversations are in ConversationList.                 *)
(***************************************************************************)
EXTENDS Naturals

CONSTANTS
  Users, Self,          \* Self: who is signed in
  MaxEvents             \* bound: calls of others, moves to a page, polls, retries, faults

VARIABLES
  status, chats,        \* server, see Relationship
  page,                 \* what the tab shows
  lists,                \* the query cache, by key
  loads,                \* the fetch of each query
  respond,              \* the call that answers each peer's request
  settled,              \* history: what this tab was told of an answer that still holds
  events                \* how many of these there were

vars == <<status, chats, page, lists, loads, respond, settled, events>>

R == INSTANCE Relationship

Peers == Users \ {Self}
Keys == {"incoming", "contacts", "chats"}
Answers == {"accepted", "declined"}

\* "old": the answer of a fetch that an invalidation let go on.
NoList == [state |-> "unknown", rows |-> {}]
NoLoad == [stage |-> "idle", old |-> FALSE, rows |-> {}]
Asked == [NoLoad EXCEPT !.stage = "asked"]
NoCall == [stage |-> "idle", answer |-> "none"]

Listed(l) == l.state \notin {"unknown", "failed"}

\* The queries a page mounts.  A contact's row looks up its chat.
Mounted(on, l) ==
  {k \in Keys :
     \/ on = "dashboard"
     \/ on = "contacts" /\ (k = "chats" => Listed(l["contacts"]) /\ l["contacts"].rows # {})}

\* What is mounted is fetched unless a fetch is under way, or these are the
\* conversations, not invalidated and less than a minute old.
Fetched(new, l, ld) ==
  {[k \in Keys |->
      IF k \in new /\ ld[k].stage = "idle" /\ (k = "chats" /\ l[k].state \in {"fresh", "old"} => expired)
      THEN Asked ELSE ld[k]] : expired \in BOOLEAN}

TypeOK ==
  /\ status \in [R!Pairs -> R!Statuses] /\ chats \subseteq {R!ChatKey(p) : p \in R!Pairs}
  /\ page \in {"contacts", "dashboard", "elsewhere"}
  /\ lists \in [Keys -> [state : {"unknown", "fresh", "old", "invalid", "failed"}, rows : SUBSET Peers]]
  /\ loads \in [Keys -> [stage : {"idle", "asked", "answered"}, old : BOOLEAN, rows : SUBSET Peers]]
  /\ respond \in [Peers -> [stage : {"idle", "sent", "done", "refused"}, answer : Answers \cup {"none"}]]
  /\ settled \in [Peers -> Answers \cup {"none"}]
  /\ events \in 0..MaxEvents

Init ==
  /\ status = [p \in R!Pairs |-> "pending"] /\ chats = {}   \* everybody has asked
  /\ page = "dashboard"
  /\ lists = [k \in Keys |-> NoList]
  /\ loads \in Fetched(Mounted(page, lists), lists, [k \in Keys |-> NoLoad])
  /\ respond = [p \in Peers |-> NoCall] /\ settled = [p \in Peers |-> "none"]
  /\ events = 0

Event == events < MaxEvents /\ events' = events + 1

-----------------------------------------------------------------------------
(* The server. *)

FromPeer(p) == <<p, Self>>
GetIncomingRequests == {p \in Peers : status[FromPeer(p)] = "pending"}
GetContacts == {p \in Peers : "accepted" \in {status[FromPeer(p)], status[<<Self, p>>]}}
FindUserConversations == {p \in Peers : R!ChatKey(FromPeer(p)) \in chats}

Answer == [incoming |-> GetIncomingRequests, contacts |-> GetContacts, chats |-> FindUserConversations]

Serve(k) ==
  /\ loads[k].stage = "asked"
  /\ loads' = [loads EXCEPT ![k].stage = "answered", ![k].rows = Answer[k]]
  /\ UNCHANGED <<status, chats, page, lists, respond, settled, events>>

\* PATCH /contacts/requests/:requestId: 409 unless it is pending.
RespondToRequest(p) ==
  /\ respond[p].stage = "sent"
  /\ \/ respond[p].answer = "accepted" /\ R!Accept(FromPeer(p)) /\ respond' = [respond EXCEPT ![p].stage = "done"]
     \/ respond[p].answer = "declined" /\ R!Decline(FromPeer(p)) /\ respond' = [respond EXCEPT ![p].stage = "done"]
     \/ /\ status[FromPeer(p)] # "pending"
        /\ respond' = [respond EXCEPT ![p].stage = "refused"]
        /\ UNCHANGED <<status, chats>>
  /\ UNCHANGED <<page, lists, loads, settled, events>>

\* Another call on a row of the user.
Elsewhere ==
  /\ \E p \in Peers : R!RelStep(FromPeer(p)) \/ R!RelStep(<<Self, p>>)
  /\ settled' = [p \in Peers |-> IF status'[FromPeer(p)] = settled[p] THEN settled[p] ELSE "none"]
  /\ Event
  /\ UNCHANGED <<page, lists, loads, respond>>

-----------------------------------------------------------------------------
(* The tab. *)

Go(on) ==
  /\ Event
  /\ page' = on
  /\ loads' \in Fetched(Mounted(on, lists), lists, loads)
  /\ UNCHANGED <<status, chats, lists, respond, settled>>

Deliver(k) ==
  /\ loads[k].stage = "answered"
  /\ lists' = [lists EXCEPT ![k] = [state |-> IF loads[k].old THEN "old" ELSE "fresh", rows |-> loads[k].rows]]
  /\ loads' \in Fetched(Mounted(page, lists') \ Mounted(page, lists), lists', [loads EXCEPT ![k] = NoLoad])
  /\ UNCHANGED <<status, chats, page, respond, settled, events>>

\* retry is off: the query reports the error and keeps its rows.
FailFetch(k) ==
  /\ loads[k].stage # "idle"
  /\ lists' = [lists EXCEPT ![k].state = IF @ = "unknown" THEN @ ELSE "failed"]
  /\ loads' = [loads EXCEPT ![k] = NoLoad]
  /\ Event
  /\ UNCHANGED <<status, chats, page, respond, settled>>

\* QueryError's button.
Retry(k) ==
  /\ page = "contacts" /\ k # "chats" /\ ~Listed(lists[k]) /\ loads[k].stage = "idle"
  /\ Event
  /\ loads' = [loads EXCEPT ![k] = Asked]
  /\ UNCHANGED <<status, chats, page, lists, respond, settled>>

\* refetchInterval.
Poll ==
  /\ "chats" \in Mounted(page, lists) /\ loads["chats"].stage = "idle"
  /\ Event
  /\ loads' = [loads EXCEPT !["chats"] = Asked]
  /\ UNCHANGED <<status, chats, page, lists, respond, settled>>

\* A button of a request's row: a call under way disables all of them.  (One
\* that outlives its visit does not: bound, one call at a time.)
Press(p, answer) ==
  /\ page = "contacts" /\ Listed(lists["incoming"]) /\ p \in lists["incoming"].rows
  /\ \A q \in Peers : respond[q].stage = "idle"
  /\ respond' = [respond EXCEPT ![p] = [stage |-> "sent", answer |-> answer]]
  /\ UNCHANGED <<status, chats, page, lists, loads, settled, events>>

\* Mutant: the conversations are left to their interval.
Invalidated_Contacts(k) == k # "chats"

\* The keys that INCOMING_KEY, CONTACTS_KEY and CONVERSATIONS_KEY match.
Invalidated(k) == k \in Keys

\* invalidateQueries: a mounted query is fetched anew, but a first fetch under
\* way, or one of a query that is not mounted, goes on.
Refetched(k) == k \in Mounted(page, lists) /\ (lists[k].state # "unknown" \/ loads[k].stage = "idle")
Invalidate ==
  /\ lists' = [k \in Keys |->
       IF Invalidated(k) /\ Listed(lists[k]) THEN [lists[k] EXCEPT !.state = "invalid"] ELSE lists[k]]
  /\ loads' = [k \in Keys |->
       IF Invalidated(k) /\ Refetched(k) THEN Asked
       ELSE [loads[k] EXCEPT !.old = @ \/ loads[k].stage = "answered"]]

\* onSuccess, which outlives the page.
Heard(p) ==
  /\ respond[p].stage = "done"
  /\ Invalidate
  /\ respond' = [respond EXCEPT ![p] = NoCall]
  /\ settled' = [settled EXCEPT ![p] = IF status[FromPeer(p)] = respond[p].answer THEN respond[p].answer ELSE "none"]
  /\ UNCHANGED <<status, chats, page, events>>

\* The call was refused, or it or its answer is lost.
NotHeard(p) ==
  /\ respond[p].stage # "idle"
  /\ respond' = [respond EXCEPT ![p] = NoCall]
  /\ IF respond[p].stage = "refused" THEN UNCHANGED events ELSE Event
  /\ UNCHANGED <<status, chats, page, lists, loads, settled>>

-----------------------------------------------------------------------------
Next ==
  \/ Elsewhere \/ Poll
  \/ \E k \in Keys : Serve(k) \/ Deliver(k) \/ FailFetch(k) \/ Retry(k)
  \/ \E on \in {"contacts", "dashboard", "elsewhere"} \ {page} : Go(on)
  \/ \E p \in Peers :
       \/ RespondToRequest(p) \/ Heard(p) \/ NotHeard(p)
       \/ \E answer \in Answers : Press(p, answer)

Spec == Init /\ [][Next]_vars

-----------------------------------------------------------------------------
\* What a page shows is at rest: nothing is under way, the last fetch did not
\* fail, and it was not one that an invalidation found under way and let go on.
AtRest(k) == k \in Mounted(page, lists) /\ lists[k].state \notin {"unknown", "failed", "old"} /\ loads[k].stage = "idle"

\* Once this tab was told of its answer, no list at rest offers the request
\* again, and an accepted peer is listed with a chat to open: "the new chat
\* must appear without a manual refresh" (use-contact-mutations.ts:6).
AnsweredIsSettled ==
  \A p \in Peers : settled[p] # "none" =>
    /\ AtRest("incoming") => p \notin lists["incoming"].rows
    /\ settled[p] = "accepted" =>
         \A k \in {"contacts", "chats"} : AtRest(k) => p \in lists[k].rows
=============================================================================
