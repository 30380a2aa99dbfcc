------------------------------ MODULE Session -------------------------------
(***************************************************************************)
(* The signed-in session of one browser tab: the auth store, the session   *)
(* query and the route guard, the forms that start and end a session, and  *)
(* what the tab holds of a user (the query cache and the presence store).  *)
(* Requests are answered, refused or lost at any later time; the tab may be *)
(* reloaded, tokens expire, and storage may refuse a write.                *)
(***************************************************************************)
EXTENDS Integers, FiniteSets

CONSTANTS Users,    \* accounts that sign in on this tab
          Tokens,   \* tokens the server can sign, in no order
          Owner,    \* the account of a token
          MaxSent,  \* bound on the mutations without an answer
          None

ASSUME OwnerAssumption == Owner \in [Tokens -> Users] /\ None \notin Tokens \cup Users

VARIABLES
  page,      \* where the tab is
  token,     \* the token of the auth store
  stored,    \* the token of localStorage
  user,      \* the user of the auth store
  resolved,  \* hasSessionResolved
  query,     \* the session query in the cache: its status and the user it holds
  checks,    \* session checks in flight; live: of the query now in the cache
  held,      \* whose data the query cache and the presence store hold
      \* whose data is being fetched into the cache
  sent,      \* mutations without an answer
  done,      \* the form on screen has succeeded
  leaving,   \* the guard has asked the router for /login
  issued,    \* tokens signed so far
  dead,      \* tokens that are expired or belong to a deleted account
  checked,   \* tokens a session check of which has ended
  crossed,   \* a session was replaced, or ended while a check was in flight
  unwiped    \* a session ended or was replaced and its data was left in the tab

server == <<issued, dead>>
history == <<checked, crossed, unwiped>>
vars == <<page, token, stored, user, resolved, query, checks, held, sent, done,
          leaving, issued, dead, checked, crossed, unwiped>>

Pages == {"root", "guarded", "login", "register", "verify"}

\* Pages that run the session query.
Observing == {"root", "guarded"}

Forms == {"register", "verify"}

Calls == ({"login"} \X Users) \cup (Forms \X {None}) \cup ({"logout", "delete"} \X Tokens)

Check == [token : Tokens, live : BOOLEAN]

NoQuery == [status |-> "pending", data |-> None]

TypeOK ==
  /\ page \in Pages
  /\ token \in Tokens \cup {None} /\ stored \in Tokens \cup {None}
  /\ user \in Users \cup {None}
  /\ resolved \in BOOLEAN /\ done \in BOOLEAN /\ leaving \in BOOLEAN
  /\ query \in [status : {"pending", "success", "error"}, data : Users \cup {None}]
  /\ checks \subseteq Check
  /\ held \subseteq Users
  /\ sent \subseteq Calls
  /\ issued \subseteq Tokens /\ dead \subseteq issued /\ checked \subseteq issued
  /\ crossed \in BOOLEAN /\ unwiped \in BOOLEAN

-----------------------------------------------------------------------------
\* What the hooks report of the session query q with the flights c.

Fetching(c) == \E f \in c : f.live

IsLoading == Fetching(checks) /\ query.status = "pending"

IsError == query.status = "error"

\* RequireAuth renders its children.
Showing ==
  /\ page = "guarded"
  /\ ~(token # None /\ IsLoading /\ ~resolved)
  /\ ~(token # None /\ IsError)

\* A mounted observer fetches at once, as nothing in the cache counts as fresh,
\* unless the query is being fetched already.
Mount(p, t, q, c) ==
  IF p \in Observing /\ t # None /\ ~Fetching(c)
  THEN /\ checks' = c \cup {[token |-> t, live |-> TRUE]}
       /\ query' = IF q.data = None THEN NoQuery ELSE q
  ELSE checks' = c /\ query' = q

\* The two effects of RequireAuth, after the step: no token, or a rejected check.
GuardEffects(remounted) ==
  leaving' = (/\ page' = "guarded"
              /\ \/ leaving /\ ~remounted
                 \/ token' = None
                 \/ resolved' /\ query'.status = "error")

\* Mutant: the session check of the ended session still counts as done.
clearSession_StaysResolved ==
  token' = None /\ stored' = None /\ user' = None /\ UNCHANGED resolved

\* Mutant: the token stays in localStorage.
clearSession_KeepsStored ==
  token' = None /\ user' = None /\ resolved' = FALSE /\ UNCHANGED stored

\* The store forgets the session, and localStorage with it.
clearSession ==
  token' = None /\ stored' = None /\ user' = None /\ resolved' = FALSE

\* Mutant: only the session query is removed.
WipeTab_OnlySession ==
  /\ query' = NoQuery
  /\ checks' = {[f EXCEPT !.live = FALSE] : f \in checks}
  /\ unwiped' = FALSE
  /\ UNCHANGED held

\* queryClient.clear() and resetPresence(): fetches go on, but not into this cache.
WipeTab ==
  /\ query' = NoQuery
  /\ checks' = {[f EXCEPT !.live = FALSE] : f \in checks}
  /\ held' = {}
  /\ unwiped' = FALSE

-----------------------------------------------------------------------------
\* The page is opened anew: only localStorage survives.
Reload(p) ==
  /\ page' = p
  /\ token' = stored
  /\ user' = None
  /\ resolved' = FALSE
  /\ Mount(p, stored, NoQuery, {})
  /\ held' = {} /\ sent' = {}
  /\ done' = FALSE
  /\ crossed' = FALSE /\ unwiped' = FALSE
  /\ UNCHANGED <<stored, issued, dead, checked>>
  /\ GuardEffects(TRUE)

\* A link, the back button or a redirect inside the app mounts another page.
\* A form that unmounts no longer acts on its answer.
Visit(p) ==
  /\ page' = p
  /\ done' = FALSE
  /\ sent' = sent \ (Forms \X {None})
  /\ Mount(p, token, query, checks)
  /\ UNCHANGED <<token, stored, user, resolved, held, server, history>>
  /\ GuardEffects(TRUE)

\* The redirect the guard has asked for.
Redirect == leaving /\ Visit("login")

\* The entry page waits for the check, then leaves for the dashboard or the login.
HomeLeaves ==
  /\ page = "root"
  /\ ~IsLoading
  /\ token = None \/ resolved
  /\ Visit(IF token # None /\ ~IsError THEN "guarded" ELSE "login")

-----------------------------------------------------------------------------
\* A session check ends: with the user, ...
CheckOk(f) ==
  /\ f \in checks
  /\ f.token \notin dead
  /\ checks' = checks \ {f}
  /\ user' = Owner[f.token]
  /\ resolved' = TRUE
  /\ query' = IF f.live THEN [status |-> "success", data |-> Owner[f.token]] ELSE query
  /\ checked' = checked \cup {f.token}
  /\ UNCHANGED <<page, token, stored, held, sent, done, server, crossed, unwiped>>
  /\ GuardEffects(FALSE)

\* ... with a 401, which ends the session whatever token the tab has by now, ...
CheckRefused(f) ==
  /\ f \in checks
  /\ f.token \in dead
  /\ checks' = checks \ {f}
  /\ clearSession
  /\ query' = IF f.live THEN [query EXCEPT !.status = "error"] ELSE query
  /\ checked' = checked \cup {f.token}
  /\ unwiped' = TRUE
  /\ UNCHANGED <<page, held, sent, done, server, crossed>>
  /\ GuardEffects(FALSE)

\* Mutant: only a successful check is marked as finished.
CheckLost_Unmarked(f) ==
  /\ f \in checks
  /\ checks' = checks \ {f}
  /\ query' = IF f.live THEN [query EXCEPT !.status = "error"] ELSE query
  /\ checked' = checked \cup {f.token}
  /\ UNCHANGED <<page, token, stored, user, resolved, held, sent, done, server, crossed,
                 unwiped>>
  /\ GuardEffects(FALSE)

\* ... or without an answer the client can use.
CheckLost(f) ==
  /\ f \in checks
  /\ checks' = checks \ {f}
  /\ resolved' = TRUE
  /\ query' = IF f.live THEN [query EXCEPT !.status = "error"] ELSE query
  /\ checked' = checked \cup {f.token}
  /\ UNCHANGED <<page, token, stored, user, held, sent, done, server, crossed, unwiped>>
  /\ GuardEffects(FALSE)

-----------------------------------------------------------------------------
\* A form is submitted; its button is disabled until the answer.
Submit(form, who) ==
  /\ page = form
  /\ <<form, who>> \notin sent /\ Cardinality(sent) < MaxSent
  /\ ~done
  /\ sent' = sent \cup {<<form, who>>}
  /\ UNCHANGED <<page, token, stored, user, resolved, query, checks, held, done, leaving,
                 server, history>>

\* The call fails; the form shows why and is there for another try.
CallFails(c) ==
  /\ c \in sent /\ c[1] # "logout"
  /\ sent' = sent \ {c}
  /\ UNCHANGED <<page, token, stored, user, resolved, query, checks, held, done, leaving,
                 server, history>>

\* Registering and verifying start no session: the form only shows its success.
FormDone(form) ==
  /\ <<form, None>> \in sent
  /\ sent' = sent \ {<<form, None>>}
  /\ done' = TRUE
  /\ UNCHANGED <<page, token, stored, user, resolved, query, checks, held, leaving,
                 server, history>>

\* After a pause the confirmation of a registration moves on to the verification.
RegisterMovesOn == page = "register" /\ done /\ Visit("verify")

\* A login ends well: the session is stored, perhaps in memory only, and the form,
\* mounted or not, moves on to the dashboard.
LoginDone(u, t) ==
  /\ <<"login", u>> \in sent
  /\ t \notin issued /\ Owner[t] = u
  /\ issued' = issued \cup {t}
  /\ token' = t
  /\ stored' \in {t, stored}
  /\ user' = u
  /\ page' = "guarded"
  /\ done' = FALSE
  /\ sent' = (sent \ {<<"login", u>>}) \ (Forms \X {None})
  /\ Mount("guarded", t, query, checks)
  /\ crossed' = (crossed \/ token # None)
  /\ unwiped' = (unwiped \/ token # None)
  /\ UNCHANGED <<resolved, held, dead, checked>>
  /\ GuardEffects(TRUE)

-----------------------------------------------------------------------------
\* Logging out, or confirming the deletion of the account, from a guarded page.
Ask(kind) ==
  /\ Showing /\ token # None
  /\ <<kind, token>> \notin sent /\ Cardinality(sent) < MaxSent
  /\ sent' = sent \cup {<<kind, token>>}
  /\ UNCHANGED <<page, token, stored, user, resolved, query, checks, held, done, leaving,
                 server, history>>

\* What both do to the tab: the session first, then everything it brought.
EndSession(c) ==
  /\ c \in sent
  /\ sent' = (sent \ {c}) \ (Forms \X {None})
  /\ clearSession
  /\ WipeTab
  /\ page' = "login" /\ done' = FALSE /\ leaving' = FALSE
  /\ crossed' = (crossed \/ checks # {})
  /\ UNCHANGED <<issued, checked>>

\* A logout is settled, whatever its answer; the token stays valid.
LoggedOut(t) == EndSession(<<"logout", t>>) /\ UNCHANGED dead

\* The server deletes the account: none of its tokens counts any more.
DeleteAccount(t) == dead' = dead \cup {s \in issued : Owner[s] = Owner[t]}

Deleted(t) == t \notin dead /\ DeleteAccount(t) /\ EndSession(<<"delete", t>>)

\* The account is deleted, but the client sees a failure and stays signed in.
DeletedUnheard(t) ==
  /\ <<"delete", t>> \in sent
  /\ DeleteAccount(t)
  /\ sent' = sent \ {<<"delete", t>>}
  /\ UNCHANGED <<page, token, stored, user, resolved, query, checks, held, done, leaving,
                 issued, history>>

\* A token expires.
Expire(t) ==
  /\ t \in issued \ dead
  /\ dead' = dead \cup {t}
  /\ UNCHANGED <<page, token, stored, user, resolved, query, checks, held, sent, done,
                 leaving, issued, history>>

-----------------------------------------------------------------------------
\* A guarded page caches what it has fetched with the token of the moment, and the
\* presence store keeps what the socket of that token reports.
Load ==
  /\ Showing /\ token # None
  /\ held' = held \cup {Owner[token]}
  /\ UNCHANGED <<page, token, stored, user, resolved, query, checks, sent, done, leaving,
                 server, history>>

-----------------------------------------------------------------------------
Init ==
  /\ page = "root"
  /\ token = None /\ stored = None /\ user = None
  /\ resolved = FALSE
  /\ query = NoQuery /\ checks = {}
  /\ held = {} /\ sent = {}
  /\ done = FALSE /\ leaving = FALSE
  /\ issued = {} /\ dead = {} /\ checked = {}
  /\ crossed = FALSE /\ unwiped = FALSE

Next ==
  \/ \E p \in Pages : Reload(p) \/ Visit(p)
  \/ Redirect \/ HomeLeaves
  \/ \E f \in Check : CheckOk(f) \/ CheckRefused(f) \/ CheckLost(f)
  \/ \E u \in Users : Submit("login", u)
  \/ \E form \in Forms : Submit(form, None) \/ FormDone(form)
  \/ \E c \in Calls : CallFails(c)
  \/ RegisterMovesOn
  \/ \E u \in Users, t \in Tokens : LoginDone(u, t)
  \/ Ask("logout") \/ Ask("delete")
  \/ \E t \in Tokens : LoggedOut(t) \/ Deleted(t) \/ DeletedUnheard(t) \/ Expire(t)
  \/ Load

Spec == Init /\ [][Next]_vars

\* Every request ends, at the latest by its timeout, and the router follows a redirect
\* unless the user keeps opening pages before it can.
Fairness ==
  /\ \A f \in Check : WF_vars(CheckOk(f) \/ CheckRefused(f) \/ CheckLost(f))
  /\ SF_vars(Redirect)

FairSpec == Spec /\ Fairness

-----------------------------------------------------------------------------
\* A protected page never shows before a check of its token has ended, unless the
\* session crossed with another one (auth.store.ts:72-74, RequireAuth.tsx:52-66).
NoFlash == Showing /\ token # None /\ ~crossed => token \in checked

\* Nothing a tab holds belongs to anybody but the signed-in user, unless a session
\* ended by a 401 or was replaced, which leaves the cache as it is
\* (use-auth-mutations.ts:47-65).
CacheIsTheirs ==
  token # None /\ ~unwiped => held \subseteq {Owner[token]}

\* A tab without a session stays without one when it is opened again
\* (auth.store.ts:29-41, 70-76).
SignedOutIsOut == token = None => stored = None

\* The guard never stays blank or loading: its page shows, or it is left
\* (use-session.ts:28-31, RequireAuth.tsx:37-66).
GuardNeverHangs == page = "guarded" /\ ~Showing ~> page # "guarded" \/ Showing
=============================================================================
