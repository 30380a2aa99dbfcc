---------------------------- MODULE SessionProofs ----------------------------
(***************************************************************************)
(* Proofs about Session, for any accounts, tokens and bound: a tab that is *)
(* signed out stays so, what it holds belongs to its user, and a protected *)
(* page never shows before the check of its token.                         *)
(***************************************************************************)
EXTENDS Session, TLAPS

\* What the tab holds, also while nobody is signed in.
HeldIsTheirs ==
  ~unwiped => held \subseteq (IF token = None THEN {} ELSE {Owner[token]})

\* While no two sessions have crossed, what is in flight asks for the present
\* token, ...
ChecksAreOfToken == ~crossed => \A f \in checks : f.live /\ f.token = token

\* ... and neither the store nor the query takes the check of another for its own.
ResolvedIsChecked == ~crossed /\ resolved => token \in checked
SuccessIsChecked == ~crossed /\ query.status = "success" => token \in checked

\* One check at a time is of the query in the cache, ...
OneIsLive == \A f, g \in checks : f.live /\ g.live => f = g

\* ... and a page that waits for an answer has one on its way.
PendingIsFetched ==
  page \in Observing /\ token # None /\ query.status = "pending" => Fetching(checks)

\* Only signed tokens are in use.
TokensAreIssued ==
  /\ token \in issued \cup {None} /\ stored \in issued \cup {None}
  /\ \A f \in checks : f.token \in issued

IInv ==
  /\ TypeOK /\ TokensAreIssued /\ SignedOutIsOut /\ HeldIsTheirs
  /\ ChecksAreOfToken /\ ResolvedIsChecked /\ SuccessIsChecked
  /\ OneIsLive /\ PendingIsFetched

USE OwnerAssumption DEF OwnerAssumption

\* The query of an empty cache.
LEMMA NoQueryType ==
  /\ NoQuery \in [status : {"pending", "success", "error"}, data : Users \cup {None}]
  /\ NoQuery.status = "pending" /\ NoQuery.data = None
  BY DEF NoQuery

\* The invariant holds before the tab is opened.
LEMMA InitInv == Init => IInv
<1> SUFFICES ASSUME Init PROVE IInv OBVIOUS
<1>1. TypeOK BY NoQueryType DEF Init, TypeOK, Pages
<1>2. token = None /\ stored = None /\ held = {} /\ checks = {} /\ ~resolved
      /\ query.status = "pending"
  BY NoQueryType DEF Init
<1> QED
  BY <1>1, <1>2 DEF IInv, Init, TokensAreIssued, SignedOutIsOut, HeldIsTheirs, ChecksAreOfToken, ResolvedIsChecked,
     SuccessIsChecked, OneIsLive, PendingIsFetched

\* What mounting a page does to the query and its checks.
LEMMA MountChecks ==
  ASSUME TypeOK, NEW p \in Pages, NEW t \in Tokens \cup {None},
         NEW q \in [status : {"pending", "success", "error"}, data : Users \cup {None}],
         NEW c \in SUBSET Check, Mount(p, t, q, c)
  PROVE  /\ checks' \subseteq Check
         /\ query' \in [status : {"pending", "success", "error"}, data : Users \cup {None}]
         /\ \A f \in checks' \ c : /\ f = [token |-> t, live |-> TRUE] /\ f.token = t /\ f.live
                                 /\ t # None /\ ~Fetching(c)
         /\ query' = q \/ query'.status = "pending"
         /\ p \in Observing /\ t # None => Fetching(checks')
<1> DEFINE new == [token |-> t, live |-> TRUE]
<1>1. new.token = t /\ new.live /\ (t # None => new \in Check) BY DEF Check
<1>2. CASE p \in Observing /\ t # None /\ ~Fetching(c)
  <2>1. checks' = c \cup {new} /\ (query' = NoQuery \/ query' = q) BY <1>2 DEF Mount
  <2>2. Fetching(checks') BY <1>1, <2>1 DEF Fetching
  <2> HIDE DEF new
  <2>3. checks' \subseteq Check /\ \A f \in checks' \ c : f = new BY <1>1, <1>2, <2>1
  <2> QED BY <1>1, <1>2, <2>1, <2>2, <2>3, NoQueryType DEF new
<1>3. CASE ~(p \in Observing /\ t # None /\ ~Fetching(c))
  BY <1>3 DEF Mount
<1> QED BY <1>2, <1>3

\* The tab is opened again.
LEMMA ReloadInv == ASSUME IInv, NEW p \in Pages, Reload(p) PROVE IInv'
<1> USE DEF IInv
<1>1. /\ {} \in SUBSET Check
      /\ NoQuery \in [status : {"pending", "success", "error"}, data : Users \cup {None}]
      /\ ~Fetching({})
  BY NoQueryType DEF Fetching
<1>2. Mount(p, stored, NoQuery, {}) BY DEF Reload
<1>3. /\ checks' \subseteq Check
      /\ query' \in [status : {"pending", "success", "error"}, data : Users \cup {None}]
      /\ \A f \in checks' : f = [token |-> stored, live |-> TRUE] /\ f.token = stored /\ f.live
                          /\ stored # None
      /\ query'.status = "pending"
      /\ p \in Observing /\ stored # None => Fetching(checks')
  BY <1>1, <1>2, MountChecks, NoQueryType DEF TypeOK
<1>4. TypeOK' BY <1>3 DEF TypeOK, Reload, GuardEffects
<1>5. (SignedOutIsOut /\ HeldIsTheirs)' BY DEF Reload, SignedOutIsOut, HeldIsTheirs
<1>6. (ChecksAreOfToken /\ OneIsLive)' BY <1>3 DEF Reload, ChecksAreOfToken, OneIsLive
<1>7. (ResolvedIsChecked /\ SuccessIsChecked)'
  BY <1>3 DEF Reload, ResolvedIsChecked, SuccessIsChecked
<1>8. PendingIsFetched' BY <1>3 DEF Reload, PendingIsFetched
<1>9. TokensAreIssued' BY <1>3 DEF Reload, TokensAreIssued
<1> QED BY <1>4, <1>5, <1>6, <1>7, <1>8, <1>9

\* The user goes to another page.
LEMMA VisitInv == ASSUME IInv, NEW p \in Pages, Visit(p) PROVE IInv'
<1> USE DEF IInv
<1>1. Mount(p, token, query, checks) BY DEF Visit
<1>2. /\ checks' \subseteq Check
      /\ query' \in [status : {"pending", "success", "error"}, data : Users \cup {None}]
      /\ \A f \in checks' \ checks :
           /\ f = [token |-> token, live |-> TRUE] /\ f.token = token /\ f.live
           /\ token # None /\ ~Fetching(checks)
      /\ query' = query \/ query'.status = "pending"
      /\ p \in Observing /\ token # None => Fetching(checks')
  BY <1>1, MountChecks DEF TypeOK
<1>3. TypeOK' BY <1>2 DEF TypeOK, Visit, GuardEffects, server, history
<1>4. (SignedOutIsOut /\ HeldIsTheirs)' BY DEF Visit, SignedOutIsOut, HeldIsTheirs, history
<1>5. (ChecksAreOfToken /\ OneIsLive)'
  <2>1. ChecksAreOfToken' BY <1>2 DEF Visit, ChecksAreOfToken, history
  <2>2. ASSUME NEW f \in checks', NEW g \in checks', f.live, g.live PROVE f = g
    <3>1. CASE Fetching(checks) BY <1>2, <2>2, <3>1 DEF OneIsLive, Check
    <3>2. CASE ~Fetching(checks)
      <4>1. f \notin checks /\ g \notin checks BY <2>2, <3>2 DEF Fetching
      <4>2. f = [token |-> token, live |-> TRUE] BY <1>2, <4>1
      <4>3. g = [token |-> token, live |-> TRUE] BY <1>2, <4>1
      <4> QED BY <4>2, <4>3, Zenon
    <3> QED BY <3>1, <3>2
  <2> QED BY <2>1, <2>2 DEF OneIsLive
<1>6. (ResolvedIsChecked /\ SuccessIsChecked)'
  BY <1>2 DEF Visit, ResolvedIsChecked, SuccessIsChecked, history
<1>7. PendingIsFetched' BY <1>2 DEF Visit, PendingIsFetched
<1>8. TokensAreIssued' BY <1>2 DEF Visit, TokensAreIssued, server
<1> QED BY <1>3, <1>4, <1>5, <1>6, <1>7, <1>8

\* A login is answered.
LEMMA LoginInv ==
  ASSUME IInv, NEW u \in Users, NEW t \in Tokens, LoginDone(u, t) PROVE IInv'
<1> USE DEF IInv
<1>1. Mount("guarded", t, query, checks) /\ "guarded" \in Pages BY DEF LoginDone, Pages
<1>2. /\ checks' \subseteq Check
      /\ query' \in [status : {"pending", "success", "error"}, data : Users \cup {None}]
      /\ \A f \in checks' \ checks :
           f = [token |-> t, live |-> TRUE] /\ f.token = t /\ f.live /\ ~Fetching(checks)
      /\ query' = query \/ query'.status = "pending"
      /\ Fetching(checks')
  BY <1>1, MountChecks DEF TypeOK, Observing
<1>3. TypeOK' BY <1>1, <1>2 DEF TypeOK, LoginDone, GuardEffects
<1>4. SignedOutIsOut' BY DEF LoginDone, SignedOutIsOut
<1>5. HeldIsTheirs' BY DEF LoginDone, HeldIsTheirs
<1>6. ~crossed' => ~crossed /\ token = None BY DEF LoginDone
<1>7. ~crossed /\ token = None => checks = {} /\ ~resolved /\ query.status # "success"
  BY DEF ChecksAreOfToken, ResolvedIsChecked, SuccessIsChecked, TypeOK, Check
<1>8. (ChecksAreOfToken /\ OneIsLive)'
  <2>1. ChecksAreOfToken' BY <1>2, <1>6, <1>7 DEF LoginDone, ChecksAreOfToken, history
  <2>2. ASSUME NEW f \in checks', NEW g \in checks', f.live, g.live PROVE f = g
    <3>1. CASE Fetching(checks) BY <1>2, <2>2, <3>1 DEF OneIsLive, Check
    <3>2. CASE ~Fetching(checks)
      <4>1. f \notin checks /\ g \notin checks BY <2>2, <3>2 DEF Fetching
      <4>2. f = [token |-> t, live |-> TRUE] BY <1>2, <4>1
      <4>3. g = [token |-> t, live |-> TRUE] BY <1>2, <4>1
      <4> QED BY <4>2, <4>3, Zenon
    <3> QED BY <3>1, <3>2
  <2> QED BY <2>1, <2>2 DEF OneIsLive
<1>9. (ResolvedIsChecked /\ SuccessIsChecked)'
  BY <1>2, <1>6, <1>7 DEF LoginDone, ResolvedIsChecked, SuccessIsChecked
<1>10. PendingIsFetched' BY <1>2 DEF LoginDone, PendingIsFetched
<1>11. TokensAreIssued' BY <1>2 DEF LoginDone, TokensAreIssued
<1> QED BY <1>3, <1>4, <1>5, <1>8, <1>9, <1>10, <1>11

\* The check that has ended is the only one of the query, and of the token.
LEMMA CheckInv ==
  ASSUME IInv, NEW f \in Check, CheckOk(f) \/ CheckRefused(f) \/ CheckLost(f) PROVE IInv'
<1> USE DEF IInv
<1>1. /\ f \in checks /\ checks' = checks \ {f} /\ checked' = checked \cup {f.token}
      /\ page' = page /\ crossed' = crossed /\ held' = held /\ issued' = issued
  BY DEF CheckOk, CheckRefused, CheckLost, server
<1>2. f.token \in Tokens /\ f.live \in BOOLEAN BY DEF Check
<1>3. f.live => \A g \in checks' : ~g.live BY <1>1 DEF OneIsLive
<1>4. /\ query' \in [status : {"pending", "success", "error"}, data : Users \cup {None}]
      /\ f.live \/ query' = query
      /\ f.live => query'.status \in {"success", "error"}
  <2>1. CASE CheckOk(f)
    <3>1. Owner[f.token] \in Users BY <1>2
    <3> QED BY <1>2, <2>1, <3>1 DEF CheckOk, TypeOK
  <2>2. CASE CheckRefused(f) \/ CheckLost(f) BY <1>2, <2>2 DEF CheckRefused, CheckLost, TypeOK
  <2> QED BY <2>1, <2>2
<1>5. checks' \subseteq Check /\ checked' \subseteq issued'
  BY <1>1 DEF TypeOK, TokensAreIssued
<1>9. TokensAreIssued'
  BY <1>1 DEF CheckOk, CheckRefused, CheckLost, clearSession, TokensAreIssued
<1>6. CASE CheckOk(f)
  <2>1. TypeOK'
    <3>1. Owner[f.token] \in Users BY <1>2
    <3> QED BY <1>1, <1>4, <1>5, <1>6, <3>1 DEF TypeOK, CheckOk, GuardEffects, server
  <2>2. (SignedOutIsOut /\ HeldIsTheirs)' BY <1>6 DEF CheckOk, SignedOutIsOut, HeldIsTheirs
  <2>3. (ChecksAreOfToken /\ OneIsLive)'
    BY <1>1, <1>6 DEF CheckOk, ChecksAreOfToken, OneIsLive
  <2>4. (ResolvedIsChecked /\ SuccessIsChecked)'
    BY <1>1, <1>6 DEF CheckOk, ChecksAreOfToken, ResolvedIsChecked, SuccessIsChecked
  <2>5. PendingIsFetched'
    BY <1>1, <1>2, <1>4, <1>6 DEF CheckOk, PendingIsFetched, Fetching
  <2> QED BY <1>9, <2>1, <2>2, <2>3, <2>4, <2>5
<1>7. CASE CheckRefused(f)
  <2>1. TypeOK'
    BY <1>1, <1>4, <1>5, <1>7 DEF TypeOK, CheckRefused, clearSession, GuardEffects, server
  <2>2. (SignedOutIsOut /\ HeldIsTheirs)'
    BY <1>7 DEF CheckRefused, clearSession, SignedOutIsOut, HeldIsTheirs
  <2>3. ~crossed => f.live /\ checks' = {}
    BY <1>1, <1>3 DEF ChecksAreOfToken
  <2>4. ~crossed => query'.status = "error" BY <1>1, <1>7, <2>3 DEF CheckRefused, TypeOK
  <2>5. (ChecksAreOfToken /\ OneIsLive)'
    BY <1>1, <1>7, <2>3 DEF CheckRefused, ChecksAreOfToken, OneIsLive
  <2>6. (ResolvedIsChecked /\ SuccessIsChecked)'
    BY <1>1, <1>7, <2>4 DEF CheckRefused, clearSession, ResolvedIsChecked, SuccessIsChecked
  <2>7. PendingIsFetched' BY <1>7 DEF CheckRefused, clearSession, PendingIsFetched
  <2> QED BY <1>9, <2>1, <2>2, <2>5, <2>6, <2>7
<1>8. CASE CheckLost(f)
  <2>1. TypeOK'
    BY <1>1, <1>4, <1>5, <1>8 DEF TypeOK, CheckLost, GuardEffects, server
  <2>2. (SignedOutIsOut /\ HeldIsTheirs)' BY <1>8 DEF CheckLost, SignedOutIsOut, HeldIsTheirs
  <2>3. (ChecksAreOfToken /\ OneIsLive)'
    BY <1>1, <1>8 DEF CheckLost, ChecksAreOfToken, OneIsLive
  <2>4. (ResolvedIsChecked /\ SuccessIsChecked)'
    BY <1>1, <1>8 DEF CheckLost, ChecksAreOfToken, ResolvedIsChecked, SuccessIsChecked
  <2>5. PendingIsFetched'
    BY <1>1, <1>2, <1>4, <1>8 DEF CheckLost, PendingIsFetched, Fetching
  <2> QED BY <1>9, <2>1, <2>2, <2>3, <2>4, <2>5
<1> QED BY <1>6, <1>7, <1>8

\* A check whose answer no longer goes to the query in the cache.
LEMMA Dropped ==
  ASSUME NEW f \in Check
  PROVE  /\ [f EXCEPT !.live = FALSE] \in Check
         /\ [f EXCEPT !.live = FALSE].token = f.token
         /\ [f EXCEPT !.live = FALSE].live = FALSE
  BY DEF Check

\* A session ends, by the user or by a 401.
LEMMA EndInv == ASSUME IInv, NEW c \in Calls, EndSession(c), dead' \subseteq issued PROVE IInv'
<1> USE DEF IInv
<1>0. \A g \in checks' : g \in Check /\ ~g.live /\ \E f \in checks : g.token = f.token
  <2>1. \A g \in checks' : \E f \in checks : g = [f EXCEPT !.live = FALSE]
    BY Zenon DEF EndSession, WipeTab
  <2>2. checks \subseteq Check BY DEF TypeOK
  <2>3. ASSUME NEW g \in checks', NEW f \in checks, g = [f EXCEPT !.live = FALSE]
        PROVE  g \in Check /\ ~g.live /\ g.token = f.token
    BY <2>2, <2>3, Dropped
  <2> QED BY <2>1, <2>3, Zenon
<1>1. TypeOK'
  <2>1. checks' \subseteq Check BY <1>0
  <2>2. sent' \subseteq Calls BY DEF TypeOK, EndSession
  <2> QED BY <2>1, <2>2, NoQueryType DEF TypeOK, EndSession, clearSession, WipeTab, Pages
<1>2. (SignedOutIsOut /\ HeldIsTheirs)'
  BY DEF EndSession, clearSession, WipeTab, SignedOutIsOut, HeldIsTheirs
<1>3. ~crossed' => checks' = {} BY DEF EndSession, WipeTab
<1>5. (ChecksAreOfToken /\ OneIsLive)' BY <1>0, <1>3 DEF ChecksAreOfToken, OneIsLive
<1>6. (ResolvedIsChecked /\ SuccessIsChecked)'
  BY DEF EndSession, clearSession, WipeTab, NoQuery, ResolvedIsChecked, SuccessIsChecked
<1>7. PendingIsFetched' BY DEF EndSession, clearSession, PendingIsFetched
<1>8. TokensAreIssued' BY <1>0 DEF EndSession, clearSession, TokensAreIssued
<1> QED BY <1>1, <1>2, <1>5, <1>6, <1>7, <1>8

\* A step that leaves the session, its checks and what the tab holds alone.
LEMMA AsideInv ==
  ASSUME IInv, TypeOK',
         UNCHANGED <<page, token, stored, resolved, query, checks, held, issued, history>>
  PROVE  IInv'
  BY DEF IInv, TokensAreIssued, SignedOutIsOut, HeldIsTheirs, ChecksAreOfToken, ResolvedIsChecked,
         SuccessIsChecked, OneIsLive, PendingIsFetched, Fetching, history

\* The data of the signed-in user is loaded.
LEMMA LoadInv == ASSUME IInv, Load PROVE IInv'
<1> USE DEF IInv
<1>1. TypeOK' BY DEF TypeOK, Load, server, history
<1>2. HeldIsTheirs' BY DEF Load, HeldIsTheirs, history
<1> QED
  BY <1>1, <1>2 DEF Load, TokensAreIssued, server, SignedOutIsOut, ChecksAreOfToken, ResolvedIsChecked, SuccessIsChecked,
     OneIsLive, PendingIsFetched, Fetching, history

\* Every step keeps the invariant.
LEMMA NextInv == IInv /\ [Next]_vars => IInv'
<1> SUFFICES ASSUME IInv, [Next]_vars PROVE IInv' OBVIOUS
<1>0. TypeOK BY DEF IInv
<1> USE <1>0
<1>1. ASSUME NEW p \in Pages, Reload(p) PROVE IInv' BY <1>1, ReloadInv
<1>2. ASSUME NEW p \in Pages, Visit(p) PROVE IInv' BY <1>2, VisitInv
<1>3. CASE Redirect BY <1>3, VisitInv DEF Redirect, Pages
<1>4. CASE HomeLeaves BY <1>4, VisitInv DEF HomeLeaves, Pages
<1>5. CASE RegisterMovesOn BY <1>5, VisitInv DEF RegisterMovesOn, Pages
<1>6. ASSUME NEW f \in Check, CheckOk(f) \/ CheckRefused(f) \/ CheckLost(f) PROVE IInv'
  BY <1>6, CheckInv
<1>7. ASSUME NEW u \in Users, Submit("login", u) PROVE IInv'
  <2>1. TypeOK' BY <1>7 DEF Submit, TypeOK, Calls, server, history
  <2> QED BY <1>7, <2>1, AsideInv DEF Submit, server
<1>8. ASSUME NEW form \in Forms, Submit(form, None) \/ FormDone(form) PROVE IInv'
  <2>1. <<form, None>> \in Calls BY DEF Calls
  <2>2. TypeOK' BY <1>8, <2>1 DEF Submit, FormDone, TypeOK, server, history
  <2> QED BY <1>8, <2>2, AsideInv DEF Submit, FormDone, server
<1>9. ASSUME NEW c \in Calls, CallFails(c) PROVE IInv'
  <2>1. TypeOK' BY <1>9 DEF CallFails, TypeOK, server, history
  <2> QED BY <1>9, <2>1, AsideInv DEF CallFails, server
<1>10. ASSUME NEW u \in Users, NEW t \in Tokens, LoginDone(u, t) PROVE IInv'
  BY <1>10, LoginInv
<1>11. ASSUME NEW kind \in {"logout", "delete"}, Ask(kind) PROVE IInv'
  <2>1. TypeOK' BY <1>11 DEF Ask, TypeOK, Calls, server, history
  <2> QED BY <1>11, <2>1, AsideInv DEF Ask, server
<1>12. ASSUME NEW t \in Tokens, LoggedOut(t) \/ Deleted(t) PROVE IInv'
  <2>1. dead' \subseteq issued BY <1>12 DEF LoggedOut, Deleted, DeleteAccount, TypeOK
  <2> QED BY <1>12, <2>1, EndInv DEF LoggedOut, Deleted, Calls
<1>13. ASSUME NEW t \in Tokens, DeletedUnheard(t) \/ Expire(t) PROVE IInv'
  <2>1. TypeOK' BY <1>13 DEF DeletedUnheard, DeleteAccount, Expire, TypeOK, history
  <2> QED BY <1>13, <2>1, AsideInv DEF DeletedUnheard, Expire
<1>14. CASE Load BY <1>14, LoadInv
<1>15. CASE UNCHANGED vars
  <2>1. TypeOK' BY <1>15 DEF vars, TypeOK
  <2> QED BY <1>15, <2>1, AsideInv DEF vars, history
<1> QED
  BY <1>1, <1>2, <1>3, <1>4, <1>5, <1>6, <1>7, <1>8, <1>9, <1>10, <1>11, <1>12, <1>13, <1>14,
     <1>15 DEF Next

\* The inductive invariant holds throughout.
THEOREM Invariant == Spec => []IInv
  BY InitInv, NextInv, PTL DEF Spec

\* The store, the query and the calls are always of their types.
THEOREM TypeCorrect == Spec => []TypeOK
<1>1. IInv => TypeOK BY DEF IInv
<1> QED BY <1>1, Invariant, PTL

\* A tab that is signed out is signed out when it is opened again: whatever
\* ends a session forgets its token in both places, and storage that refuses a
\* write only ever makes a session shorter.
THEOREM SignedOut == Spec => []SignedOutIsOut
<1>1. IInv => SignedOutIsOut BY DEF IInv
<1> QED BY <1>1, Invariant, PTL

\* What the tab holds belongs to the signed-in user, unless a session ended by
\* a 401 or was replaced.
THEOREM CacheOfUser == Spec => []CacheIsTheirs
<1>1. IInv => CacheIsTheirs BY DEF IInv, HeldIsTheirs, CacheIsTheirs
<1> QED BY <1>1, Invariant, PTL

\* A protected page is never shown before a check of its token has ended,
\* however loads, logins, reloads and lost answers interleave, unless sessions
\* crossed.
THEOREM ProtectedNeverFlashes == Spec => []NoFlash
<1>1. IInv => NoFlash
  <2> SUFFICES ASSUME IInv, Showing, token # None, ~crossed PROVE token \in checked
    BY DEF NoFlash
  <2>1. query.status # "error" /\ ~(IsLoading /\ ~resolved) /\ page \in Observing
    BY DEF Showing, IsError, Observing
  <2>2. CASE query.status = "success" BY <2>2 DEF IInv, SuccessIsChecked
  <2>3. CASE query.status = "pending"
    BY <2>1, <2>3 DEF IInv, PendingIsFetched, IsLoading, ResolvedIsChecked
  <2> QED BY <2>1, <2>2, <2>3 DEF IInv, TypeOK
<1> QED BY <1>1, Invariant, PTL

-----------------------------------------------------------------------------
\* What GuardNeverHangs needs besides fairness.

\* A guarded page with a token has a check behind it or on its way, ...
GuardIsChecked == page = "guarded" /\ token # None => resolved \/ Fetching(checks)

\* ... and one that must be left is being left.
GuardLeaves ==
  page = "guarded" /\ (token = None \/ (resolved /\ query.status = "error")) => leaving

\* The guard that does not show its page waits for a check that is in flight, or
\* has asked the router to leave.
GuardIsDecided == page = "guarded" /\ ~Showing => leaving \/ Fetching(checks)

GuardInv == GuardIsChecked /\ GuardLeaves

\* The two effects run after each step that moves what they read.
LEMMA EffectsLeave ==
  ASSUME NEW b \in BOOLEAN, GuardEffects(b) PROVE GuardLeaves'
  BY DEF GuardEffects, GuardLeaves

\* A check that ends marks the session as resolved, or ends it.
LEMMA CheckResolves ==
  ASSUME IInv, GuardInv, NEW f \in Check, CheckOk(f) \/ CheckRefused(f) \/ CheckLost(f)
  PROVE  GuardInv'
<1>1. resolved' \/ token' = None
  BY DEF CheckOk, CheckRefused, CheckLost, clearSession
<1>2. GuardLeaves'
  BY EffectsLeave DEF CheckOk, CheckRefused, CheckLost
<1> QED BY <1>1, <1>2 DEF GuardInv, GuardIsChecked

\* A step that leaves the page, the session and its checks alone.
LEMMA AsideGuard ==
  ASSUME GuardInv, UNCHANGED <<page, token, resolved, query, checks, leaving>>
  PROVE  GuardInv'
  BY DEF GuardInv, GuardIsChecked, GuardLeaves, Fetching

\* No step leaves a guarded page without a check and without a way out.
LEMMA NextGuard == IInv /\ GuardInv /\ [Next]_vars => GuardInv'
<1> SUFFICES ASSUME IInv, GuardInv, [Next]_vars PROVE GuardInv' OBVIOUS
<1>0. TypeOK BY DEF IInv
<1>1. ASSUME NEW p \in Pages, Reload(p) PROVE GuardInv'
  <2>1. /\ {} \in SUBSET Check
        /\ NoQuery \in [status : {"pending", "success", "error"}, data : Users \cup {None}]
    BY NoQueryType
  <2>2. Mount(p, stored, NoQuery, {}) /\ page' = p /\ token' = stored
    BY <1>1 DEF Reload
  <2>3. p \in Observing /\ stored # None => Fetching(checks')
    BY <1>0, <2>1, <2>2, MountChecks DEF TypeOK
  <2>4. GuardIsChecked' BY <2>2, <2>3 DEF GuardIsChecked, Observing, Fetching
  <2> QED BY <1>1, <2>4, EffectsLeave DEF Reload, GuardInv
<1>2. ASSUME NEW p \in Pages, Visit(p) PROVE GuardInv'
  <2>1. Mount(p, token, query, checks) /\ page' = p /\ token' = token
    BY <1>2 DEF Visit
  <2>2. p \in Observing /\ token # None => Fetching(checks')
    BY <1>0, <2>1, MountChecks DEF TypeOK
  <2>3. GuardIsChecked' BY <2>1, <2>2 DEF GuardIsChecked, Observing, Fetching
  <2> QED BY <1>2, <2>3, EffectsLeave DEF Visit, GuardInv
<1>3. CASE Redirect \/ HomeLeaves \/ RegisterMovesOn
  BY <1>2, <1>3 DEF Redirect, HomeLeaves, RegisterMovesOn, Pages
<1>4. ASSUME NEW f \in Check, CheckOk(f) \/ CheckRefused(f) \/ CheckLost(f) PROVE GuardInv'
  BY <1>4, CheckResolves
<1>5. ASSUME NEW u \in Users, NEW t \in Tokens, LoginDone(u, t) PROVE GuardInv'
  <2>1. Mount("guarded", t, query, checks) /\ "guarded" \in Pages \cap Observing /\ t # None
    BY <1>5 DEF LoginDone, Pages, Observing
  <2>2. Fetching(checks') BY <1>0, <2>1, MountChecks DEF TypeOK
  <2>3. GuardIsChecked' BY <2>2 DEF GuardIsChecked, Fetching
  <2> QED BY <1>5, <2>3, EffectsLeave DEF LoginDone, GuardInv
<1>6. ASSUME NEW t \in Tokens, LoggedOut(t) \/ Deleted(t) PROVE GuardInv'
  <2>1. page' = "login" BY <1>6 DEF LoggedOut, Deleted, EndSession
  <2> QED BY <2>1 DEF GuardInv, GuardIsChecked, GuardLeaves
<1>7. ASSUME NEW form, NEW who, Submit(form, who) PROVE GuardInv'
  BY <1>7, AsideGuard DEF Submit
<1>8. ASSUME NEW c, CallFails(c) \/ FormDone(c) PROVE GuardInv'
  BY <1>8, AsideGuard DEF CallFails, FormDone
<1>9. ASSUME NEW kind, Ask(kind) PROVE GuardInv'
  BY <1>9, AsideGuard DEF Ask
<1>10. ASSUME NEW t \in Tokens, DeletedUnheard(t) \/ Expire(t) PROVE GuardInv'
  BY <1>10, AsideGuard DEF DeletedUnheard, Expire
<1>11. CASE Load \/ UNCHANGED vars
  BY <1>11, AsideGuard DEF Load, vars
<1> QED
  BY <1>1, <1>2, <1>3, <1>4, <1>5, <1>6, <1>7, <1>8, <1>9, <1>10, <1>11 DEF Next

\* A guarded page that does not show is never left standing: a check that decides
\* it is in flight, or the redirect to the login is under way, however sessions
\* cross, checks are lost and the tab is opened again.
THEOREM GuardDecides == Spec => []GuardIsDecided
<1>1. Init => GuardInv
  BY DEF Init, GuardInv, GuardIsChecked, GuardLeaves
<1>2. GuardInv => GuardIsDecided
  <2> SUFFICES ASSUME GuardInv, page = "guarded", ~Showing PROVE leaving \/ Fetching(checks)
    BY DEF GuardIsDecided
  <2>1. token # None BY DEF Showing
  <2>2. (IsLoading /\ ~resolved) \/ query.status = "error" BY <2>1 DEF Showing, IsError
  <2> QED BY <2>1, <2>2 DEF GuardInv, GuardIsChecked, GuardLeaves, IsLoading
<1> QED BY <1>1, <1>2, InitInv, NextInv, NextGuard, PTL DEF Spec
==============================================================================
