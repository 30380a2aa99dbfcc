--------------------------- MODULE AttachmentCache ---------------------------
(***************************************************************************)
(* lib/api/attachment-cache.ts, the client's cache of attachment URLs, and *)
(* the components that show them.  JavaScript runs one task at a time and  *)
(* drains the promise callbacks before the next, so an action is a task:   *)
(* a component mounts or unmounts, an HTTP answer arrives with everything  *)
(* its callbacks do (the slot handed on, the flight dropped, the URLs      *)
(* given out), a retry timer fires.                                        *)
(*                                                                         *)
(* An object URL is named after the call that created it.  A call is used  *)
(* once, so Calls bounds a behaviour.  The reference count of an entry is  *)
(* left out: the code counts, and nothing reads the count.                 *)
(***************************************************************************)
EXTENDS Naturals, Sequences, FiniteSets, SequencesExt

CONSTANTS
  Users, Media, Components,
  MaxCalls,    \* bound: calls of fetchAttachmentBlob and downloadAttachment
  MaxFetches,  \* MAX_CONCURRENT_FETCHES
  MaxEntries,  \* MAX_ENTRIES_PER_USER
  NoUser, NoMedia

ASSUME BoundsAssumption ==
  MaxCalls \in Nat /\ MaxFetches \in Nat \ {0} /\ MaxEntries \in Nat \ {0}
ASSUME NoneAssumption == NoUser \notin Users /\ NoMedia \notin Media

VARIABLES
  session,  \* the user of the auth store
  scope,    \* currentUserId, what the cache takes the user to be
  byUser,   \* user -> the entries, oldest first
  inFlight, \* user -> medium -> the call that fetches it for all, or 0
  active,   \* activeFetches
  waiters,  \* the calls that wait for a slot
  call,     \* the calls: who asked for what, and how far it is
  shows,    \* what each component is doing
  live,     \* the object URLs not yet revoked
  evicted   \* history: the URLs that an eviction revoked

vars == <<session, scope, byUser, inFlight, active, waiters, call, shows, live, evicted>>

Calls == 1..MaxCalls

\* A call waits for a slot, has one ("fetching", or "delayed" after a 429),
\* waits for another call's flight ("following"), or is over.
Stages == {"unused", "queued", "fetching", "delayed", "following", "settled"}

\* kind: "flight" fetches for everybody and fills the cache, "direct" only for
\* its own caller.  crew: the calls that await its flight, in the order in which
\* they asked.  detached: its user's maps have been dropped since it began.
CallRecord == [stage : Stages, kind : {"flight", "direct", "download"}, user : Users \cup {NoUser},
               medium : Media \cup {NoMedia}, crew : Seq(1..MaxCalls),
               retried : BOOLEAN, detached : BOOLEAN]

NoCall == [stage |-> "unused", kind |-> "direct", user |-> NoUser, medium |-> NoMedia,
           crew |-> <<>>, retried |-> FALSE, detached |-> FALSE]

Unmounted == [state |-> "off", medium |-> NoMedia, owner |-> NoUser, call |-> 0, url |-> 0]

Entry == [medium : Media, url : Calls]

Unused == {k \in Calls : call[k].stage = "unused"}
NextCall == CHOOSE k \in Unused : \A j \in Unused : k <= j

TypeOK ==
  /\ session \in Users \cup {NoUser} /\ scope \in Users \cup {NoUser}
  /\ byUser \in [Users -> Seq(Entry)]
  /\ inFlight \in [Users -> [Media -> Nat]]
  /\ active \in Nat /\ waiters \in Seq(Calls)
  /\ call \in [Calls -> CallRecord]
  /\ shows \in [Components -> [state : {"off", "loading", "shown", "failed"},
                               medium : Media \cup {NoMedia}, owner : Users \cup {NoUser},
                               call : Nat, url : Nat]]
  /\ live \in SUBSET Calls /\ evicted \in SUBSET Calls

Init ==
  /\ session = NoUser /\ scope = NoUser
  /\ byUser = [u \in Users |-> <<>>]
  /\ inFlight = [u \in Users |-> [m \in Media |-> 0]]
  /\ active = 0 /\ waiters = <<>>
  /\ call = [k \in Calls |-> NoCall]
  /\ shows = [c \in Components |-> Unmounted]
  /\ live = {} /\ evicted = {}

(***************************************************************************)
(* The slots.  A state of the pool is the count, the line and the calls.   *)
(***************************************************************************)
Pool == [active |-> active, waiters |-> waiters, call |-> call]

\* How many of n calls that ask for a slot get one at once.
\* Mutant: the limit is off by one.
Admitted_OneMore(p, n) == LET free == MaxFetches + 1 - p.active
                          IN  IF n <= free THEN n ELSE free

Admitted(p, n) == LET free == MaxFetches - p.active
                  IN  IF n <= free THEN n ELSE free

\* acquireSlot, by the calls of ks one after the other
Acquire(p, ks) ==
  LET n == Admitted(p, Len(ks))
      InSlot == {ks[i] : i \in 1..n}
      InLine == {ks[i] : i \in n + 1..Len(ks)}
  IN  [active  |-> p.active + n,
       waiters |-> p.waiters \o SubSeq(ks, n + 1, Len(ks)),
       call    |-> [k \in Calls |->
                      IF k \in InSlot THEN [p.call[k] EXCEPT !.stage = "fetching"]
                      ELSE IF k \in InLine THEN [p.call[k] EXCEPT !.stage = "queued"]
                      ELSE p.call[k]]]

\* Mutant: a waiter that wakes up is not counted.
Release_NotCounted(p) ==
  IF p.waiters = <<>> THEN [p EXCEPT !.active = @ - 1]
  ELSE [p EXCEPT !.active = @ - 1, !.waiters = Tail(@),
                 !.call[Head(p.waiters)].stage = "fetching"]

\* The release function: the first waiter takes the place before anything else
\* that the answer has set in motion runs.
Release(p) ==
  IF p.waiters = <<>> THEN [p EXCEPT !.active = @ - 1]
  ELSE [p EXCEPT !.waiters = Tail(@), !.call[Head(p.waiters)].stage = "fetching"]

\* fetchDirect: each call of ks fetches for itself.
Redirect(p, ks) ==
  Acquire([p EXCEPT !.call = [k \in Calls |->
             IF k \in Range(ks) THEN [p.call[k] EXCEPT !.kind = "direct", !.crew = <<>>]
             ELSE p.call[k]]], ks)

PoolIs(p) == active' = p.active /\ waiters' = p.waiters /\ call' = p.call

(***************************************************************************)
(* The entries of one user.                                                *)
(***************************************************************************)
Lookup(entries, m) == {e \in Range(entries) : e.medium = m}

\* evictOldest until there is room
Overflow(entries) ==
  IF Len(entries) >= MaxEntries THEN Len(entries) - MaxEntries + 1 ELSE 0
Evicted(entries) == {entries[i].url : i \in 1..Overflow(entries)}

\* Map.set: an entry of the same medium, there is at most one, is replaced, and
\* its URL left alone.
Insert(entries, m, k) ==
  LET kept == SubSeq(entries, Overflow(entries) + 1, Len(entries))
      same == {i \in 1..Len(kept) : kept[i].medium = m}
  IN  Append(IF same = {} THEN kept ELSE RemoveAt(kept, CHOOSE i \in same : TRUE),
             [medium |-> m, url |-> k])

(***************************************************************************)
(* The session.                                                            *)
(***************************************************************************)
\* Mutant: the maps are dropped whenever a component says who the user is.
Scoped_Always(u) ==
  IF scope = NoUser
  THEN [byUser |-> byUser, inFlight |-> inFlight, live |-> live, call |-> call]
  ELSE [byUser   |-> [byUser EXCEPT ![scope] = <<>>],
        inFlight |-> [inFlight EXCEPT ![scope] = [m \in Media |-> 0]],
        live     |-> live \ {e.url : e \in Range(byUser[scope])},
        call     |-> call]

\* setSessionUser: the cache after it has been told the user.  A change drops
\* the maps of the user before (invalidateUser); calls of that user that are
\* on their way keep maps that nobody finds any more.
Scoped(u) ==
  IF u = scope \/ scope = NoUser
  THEN [byUser |-> byUser, inFlight |-> inFlight, live |-> live, call |-> call]
  ELSE [byUser   |-> [byUser EXCEPT ![scope] = <<>>],
        inFlight |-> [inFlight EXCEPT ![scope] = [m \in Media |-> 0]],
        live     |-> live \ {e.url : e \in Range(byUser[scope])},
        call     |-> [k \in Calls |->
                        IF call[k].stage = "settled" THEN call[k]
                        ELSE [call[k] EXCEPT !.detached = @ \/ call[k].user = scope]]]

\* The auth store changes: a logout, or a login, which happens on a page without
\* media.  A mounted component tells the cache at once; if none is mounted, the
\* next one to mount does.
ChangeUser(u) ==
  /\ IF u = NoUser THEN session # NoUser
     ELSE session = NoUser /\ \A c \in Components : shows[c].state = "off"
  /\ session' = u
  /\ LET told == \E c \in Components : shows[c].state # "off"
         s == Scoped(u)
     IN  /\ scope' = IF told THEN u ELSE scope
         /\ byUser' = IF told THEN s.byUser ELSE byUser
         /\ inFlight' = IF told THEN s.inFlight ELSE inFlight
         /\ live' = IF told THEN s.live ELSE live
         /\ call' = IF told THEN s.call ELSE call
  /\ UNCHANGED <<active, waiters, shows, evicted>>

(***************************************************************************)
(* The components: a bubble, a thumbnail, the viewer and its retry button. *)
(***************************************************************************)
\* Mutant: the fetch effect runs before the effect that tells the user.
Asks_TooEarly(s, k, m, kind) ==
  [s.call EXCEPT ![k] = [NoCall EXCEPT !.stage = "following", !.kind = kind,
                                       !.user = IF scope = NoUser THEN session ELSE scope,
                                       !.medium = m]]

\* The calls of the cache s once call k has asked for m.
Asks(s, k, m, kind) ==
  [s.call EXCEPT ![k] = [NoCall EXCEPT !.stage = "following", !.kind = kind,
                                       !.user = session, !.medium = m]]

\* Component c tells the cache the user and asks for m: it finds an entry,
\* joins a flight, starts one, or, without a user, fetches for itself.
Mount(c, m, k) ==
  LET s == Scoped(session)
      u == session
      Loading == [state |-> "loading", medium |-> m, owner |-> u, call |-> k, url |-> 0]
      Begin(kind) == PoolIs(Acquire([Pool EXCEPT !.call = Asks(s, k, m, kind)], <<k>>))
      entry == Lookup(s.byUser[u], m)
      lead == s.inFlight[u][m]
  IN  /\ shows[c].state \in {"off", "failed"} /\ k = NextCall
      /\ session' = session /\ scope' = u
      /\ byUser' = s.byUser /\ live' = s.live /\ evicted' = evicted
      /\ \/ /\ u = NoUser
            /\ Begin("direct") /\ inFlight' = s.inFlight
            /\ shows' = [shows EXCEPT ![c] = Loading]
         \/ /\ u # NoUser /\ entry # {}
            /\ PoolIs([Pool EXCEPT !.call = s.call]) /\ inFlight' = s.inFlight
            /\ \E e \in entry : shows' = [shows EXCEPT ![c] =
                 [Loading EXCEPT !.state = "shown", !.call = 0, !.url = e.url]]
         \/ /\ u # NoUser /\ entry = {} /\ lead # 0
            /\ PoolIs([Pool EXCEPT !.call =
                 [Asks(s, k, m, "flight") EXCEPT ![lead].crew = Append(@, k)]])
            /\ inFlight' = s.inFlight
            /\ shows' = [shows EXCEPT ![c] = Loading]
         \/ /\ u # NoUser /\ entry = {} /\ lead = 0
            /\ Begin("flight") /\ inFlight' = [s.inFlight EXCEPT ![u][m] = k]
            /\ shows' = [shows EXCEPT ![c] = Loading]

\* Its release call changes the unread count only: no URL is revoked.
Unmount(c) ==
  /\ shows[c].state # "off"
  /\ shows' = [shows EXCEPT ![c] = Unmounted]
  /\ UNCHANGED <<session, scope, byUser, inFlight, active, waiters, call, live, evicted>>

\* downloadAttachment of a medium without an entry: a slot, and nobody waits.
Download(m, k) ==
  /\ scope # NoUser /\ Lookup(byUser[scope], m) = {} /\ k = NextCall
  /\ PoolIs(Acquire([Pool EXCEPT !.call[k] = [NoCall EXCEPT !.kind = "download",
                       !.user = scope, !.medium = m]], <<k>>))
  /\ UNCHANGED <<session, scope, byUser, inFlight, shows, live, evicted>>

(***************************************************************************)
(* The answers.                                                            *)
(***************************************************************************)
Crew(k) == {k} \cup Range(call[k].crew)

\* The calls in ks are over, and k gives its slot back.
Done(k, ks) ==
  Release([Pool EXCEPT !.call = [j \in Calls |->
             IF j \in ks
             THEN [call[j] EXCEPT !.stage = "settled", !.crew = <<>>, !.retried = FALSE]
             ELSE call[j]]])

\* The components that wait for a call in ks, and are still mounted, show url.
Show(ks, url) == [c \in Components |->
  IF shows[c].state = "loading" /\ shows[c].call \in ks
  THEN [shows[c] EXCEPT !.state = "shown", !.url = url] ELSE shows[c]]

\* The flight leaves the table, whichever flight the table holds by now.
Landed(k) == inFlight' = [inFlight EXCEPT ![call[k].user][call[k].medium] = 0]

\* The answer of a direct fetch: its caller has a URL of its own.
SucceedDirect(k) ==
  /\ call[k].stage = "fetching" /\ call[k].kind # "flight"
  /\ PoolIs(Done(k, {k}))
  /\ shows' = Show({k}, k)
  /\ live' = IF call[k].kind = "direct" THEN live \cup {k} ELSE live
  /\ UNCHANGED <<session, scope, byUser, inFlight, evicted>>

\* The answer of a flight whose user is still there and whose map is in use:
\* the oldest entry makes room, everyone who waits shares the new URL.
SucceedFlight(k) ==
  LET u == call[k].user
  IN  /\ call[k].stage = "fetching" /\ call[k].kind = "flight"
      /\ u = scope /\ ~call[k].detached
      /\ PoolIs(Done(k, Crew(k))) /\ Landed(k)
      /\ byUser' = [byUser EXCEPT ![u] = Insert(@, call[k].medium, k)]
      /\ live' = (live \ Evicted(byUser[u])) \cup {k}
      /\ evicted' = evicted \cup Evicted(byUser[u])
      /\ shows' = Show(Crew(k), k)
      /\ UNCHANGED <<session, scope>>

\* The URLs that flights of u have put into a map of u that had been dropped.
Stranded(u) == {j \in live : /\ call[j].stage = "settled" /\ call[j].kind = "flight"
                             /\ call[j].detached /\ call[j].user = u}

\* The same when the user has left and come back: the URL lands in the dropped
\* map, and the calls that waited look into the new one.  The dropped map keeps
\* its length, so it may be full: its oldest entry, if it was made after the
\* drop, is revoked here.  Which one that is, is left open.
SucceedDetached(k) ==
  LET u == call[k].user
      found == Lookup(byUser[u], call[k].medium)
  IN  /\ call[k].stage = "fetching" /\ call[k].kind = "flight"
      /\ u = scope /\ call[k].detached
      /\ Landed(k)
      /\ \E gone \in {{}} \cup {{j} : j \in Stranded(u)} :
           live' = (live \ gone) \cup {k} /\ evicted' = evicted \cup gone
      /\ PoolIs(IF found = {} THEN Redirect(Done(k, {k}), call[k].crew)
                ELSE Done(k, Crew(k)))
      /\ shows' = [c \in Components |->
                     IF shows[c].call = k \/ found = {} THEN Show({k}, k)[c]
                     ELSE Show(Crew(k), (CHOOSE e \in found : TRUE).url)[c]]
      /\ UNCHANGED <<session, scope, byUser>>

\* The same when another user is there: every caller fetches for itself.
SucceedElsewhere(k) ==
  /\ call[k].stage = "fetching" /\ call[k].kind = "flight" /\ call[k].user # scope
  /\ Landed(k)
  /\ PoolIs(Redirect(Done(k, {k}), <<k>> \o call[k].crew))
  /\ UNCHANGED <<session, scope, byUser, live, evicted, shows>>

\* The fetch fails or times out: so do the calls that waited for it.
Fail(k) ==
  /\ call[k].stage = "fetching"
  /\ PoolIs(Done(k, Crew(k)))
  /\ IF call[k].kind = "flight" THEN Landed(k) ELSE UNCHANGED inFlight
  /\ shows' = [c \in Components |->
                 IF shows[c].state = "loading" /\ shows[c].call \in Crew(k)
                 THEN [shows[c] EXCEPT !.state = "failed"] ELSE shows[c]]
  /\ UNCHANGED <<session, scope, byUser, live, evicted>>

\* Mutant: the flight leaves the table when its first attempt is refused.
Throttled_Lands(k) ==
  /\ call[k].stage = "fetching" /\ ~call[k].retried
  /\ call' = [call EXCEPT ![k].stage = "delayed", ![k].retried = TRUE]
  /\ IF call[k].kind = "flight" THEN Landed(k) ELSE UNCHANGED inFlight
  /\ UNCHANGED <<session, scope, byUser, active, waiters, shows, live, evicted>>

\* A 429 with Retry-After: the call sleeps on its slot and tries once more.
Throttled(k) ==
  /\ call[k].stage = "fetching" /\ ~call[k].retried
  /\ call' = [call EXCEPT ![k].stage = "delayed", ![k].retried = TRUE]
  /\ UNCHANGED <<session, scope, byUser, inFlight, active, waiters, shows, live, evicted>>

RetryDue(k) ==
  /\ call[k].stage = "delayed"
  /\ call' = [call EXCEPT ![k].stage = "fetching"]
  /\ UNCHANGED <<session, scope, byUser, inFlight, active, waiters, shows, live, evicted>>

\* What the network and the timers do for call k.
Answer(k) == \/ SucceedDirect(k) \/ SucceedFlight(k) \/ SucceedDetached(k)
             \/ SucceedElsewhere(k) \/ Fail(k) \/ Throttled(k) \/ RetryDue(k)

Next ==
  \/ \E u \in Users \cup {NoUser} : ChangeUser(u)
  \/ \E c \in Components, m \in Media, k \in Unused : Mount(c, m, k)
  \/ \E c \in Components : Unmount(c)
  \/ \E m \in Media, k \in Unused : Download(m, k)
  \/ \E k \in Calls : Answer(k)

Spec == Init /\ [][Next]_vars

-------------------------------------------------------------------------------
Holders == {k \in Calls : call[k].stage \in {"fetching", "delayed"}}

\* The slots are exactly the calls that hold one, never more than the limit;
\* who waits is in the line once, and waits only while every slot is taken.
SlotsAreCounted ==
  /\ active = Cardinality(Holders) /\ active <= MaxFetches
  /\ waiters # <<>> => active = MaxFetches
  /\ {k \in Calls : call[k].stage = "queued"} = Range(waiters)
  /\ Cardinality(Range(waiters)) = Len(waiters)

\* The pool of slots behaves as FetchPool promises: first come, first served.
SlotPool == INSTANCE FetchPool
              WITH Limit <- MaxFetches, serving <- Holders, queue <- waiters
RefinesFetchPool == SlotPool!Spec

\* A component of the present session shows the medium it asked for, from a
\* fetch that the same user began (lines 16-17 and 174-176).
ShownIsTheirs ==
  \A c \in Components :
    shows[c].state = "shown" => /\ call[shows[c].url].medium = shows[c].medium
                                /\ call[shows[c].url].user = shows[c].owner

\* The URL that a component of the present session shows has not been revoked,
\* unless an eviction did it: neither a release nor another session does.
OnlyEvictionKills ==
  \A c \in Components :
    shows[c].state = "shown" /\ shows[c].owner = session =>
      shows[c].url \in live \cup evicted

\* Two fetches of one medium for one user are on their way at once only if one
\* of the maps they work on was dropped meanwhile, or the flight of a dropped
\* map has ended (lines 20-21, 161-170).
FlightsAreShared ==
  \A j, k \in Calls :
    /\ j # k /\ call[j].kind = "flight" /\ call[k].kind = "flight"
    /\ call[j].user = call[k].user /\ call[j].medium = call[k].medium
    /\ {call[j].stage, call[k].stage} \cap {"unused", "following", "settled"} = {}
    => \E i \in Calls : call[i].detached /\ call[i].user = call[j].user
                        /\ call[i].medium = call[j].medium
===============================================================================
