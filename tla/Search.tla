------------------------------- MODULE Search -------------------------------
(* The search page.  UserSearchBar mirrors the text into the address after  *)
(* a quiet period, and the address into the text; a query for the address's *)
(* text asks the server, which matches names with an escaped LIKE.  A row's *)
(* button sends that user a contact request.  Texts and names are sequences *)
(* of characters.                                                           *)
EXTENDS Naturals, Sequences, SequencesExt

CONSTANTS Queries,     \* trimmed texts
          Blank, Nowhere,
          Directory,   \* accounts: [username, email, isActive, isCaller], fewer than the limit
          MaxEdits     \* what the user types, submits, navigates, retries or sends

VARIABLES text,        \* the input
          urlQuery,
          committedQuery,
          replacing,   \* the navigation under way: a newer one discards it
          timer,       \* the debounce timer runs
          edits,
          entered,     \* what the user typed last, or adopted by navigating
          undone,      \* a navigation to the address at hand discarded one
          found,       \* ['search', 'users'] of the query cache, by text
          sends,       \* the contact request to each user, and its row
          latest       \* who the last request went to: the mutation the page observes

barVars == <<text, urlQuery, committedQuery, replacing, timer, entered, undone>>
vars == <<barVars, edits, found, sends, latest>>

-----------------------------------------------------------------------------
(* The server. *)

Special == {"\\", "%", "_"}
Lower(s) == [i \in DOMAIN s |-> IF s[i] = "A" THEN "a" ELSE s[i]]

\* s LIKE p of PostgreSQL: m[<<i, j>>] matches s from its i-th character with p
\* from its j-th.
Matches(s, p, i, j, m) ==
  IF j > Len(p) THEN i > Len(s)
  ELSE CASE p[j] = "%" -> m[<<i, j + 1>>] \/ (i <= Len(s) /\ m[<<i + 1, j>>])
         [] p[j] = "\\" -> i <= Len(s) /\ s[i] = p[j + 1] /\ m[<<i + 1, j + 2>>]
         [] OTHER -> i <= Len(s) /\ p[j] \in {"_", s[i]} /\ m[<<i + 1, j + 1>>]

Like(s, p) ==
  LET m[at \in (1..Len(s) + 1) \X (1..Len(p) + 1)] == Matches(s, p, at[1], at[2], m)
  IN  m[<<1, 1>>]

EscapeLikePattern(t) ==
  FlattenSeq([i \in DOMAIN t |-> IF t[i] \in Special THEN <<"\\", t[i]>> ELSE <<t[i]>>])

SearchUsers(t) ==
  {u \in Directory :
     /\ u.isActive /\ ~u.isCaller
     /\ \/ Like(Lower(u.username), Lower(<<"%">> \o EscapeLikePattern(t) \o <<"%">>))
        \/ Lower(u.email) = Lower(t)}

-----------------------------------------------------------------------------
(* The page. *)

NotFound == [busy |-> FALSE, fault |-> "none", users |-> {}]

\* stored: on the server; marked: in requestedIds; unheard: a call stored it and
\* ended without a mark.
Unsent == [stage |-> "none", stored |-> FALSE, marked |-> FALSE, unheard |-> FALSE]

\* useSearchUsers with a new text: nothing is fresh, and a fetch is shared.
Looked(f, q) == IF q = Blank THEN f ELSE [f EXCEPT ![q].busy = TRUE]

Init ==
  /\ urlQuery \in Queries \cup {Blank}
  /\ found = Looked([q \in Queries |-> NotFound], urlQuery)
  /\ text = urlQuery /\ committedQuery = urlQuery /\ entered = urlQuery
  /\ replacing = Nowhere /\ timer = FALSE
  /\ edits = 0 /\ undone = FALSE
  /\ sends = [u \in Directory |-> Unsent] /\ latest = Nowhere

Edit == edits < MaxEdits /\ edits' = edits + 1

Type(t) ==
  /\ Edit
  /\ t # text
  /\ text' = t /\ entered' = t
  /\ timer' = (t # urlQuery)
  /\ UNCHANGED <<urlQuery, committedQuery, replacing, undone, found, sends, latest>>

Replace ==
  /\ committedQuery' = text
  /\ replacing' = text

\* handleSubmit: it leaves the timer running.
Submit ==
  /\ Edit
  /\ Replace
  /\ UNCHANGED <<text, urlQuery, timer, entered, undone, found, sends, latest>>

Debounce ==
  /\ timer
  /\ Replace
  /\ timer' = FALSE
  /\ UNCHANGED <<text, urlQuery, edits, entered, undone, found, sends, latest>>

\* Mutant: the input adopts every new address, the user's own included.
Render_Adopts(q) ==
  /\ urlQuery' = q
  /\ found' = Looked(found, q)
  /\ IF urlQuery = q THEN UNCHANGED <<text, committedQuery, timer>>
     ELSE /\ committedQuery' = q
          /\ text' = q
          /\ timer' = FALSE

\* The two effects after a render with the address q. If it is the present
\* one they do not run, and nothing is asked.
Render(q) ==
  /\ urlQuery' = q
  /\ found' = IF urlQuery = q THEN found ELSE Looked(found, q)
  /\ IF urlQuery = q THEN UNCHANGED <<text, committedQuery, timer>>
     ELSE /\ committedQuery' = q
          /\ text' = IF q = committedQuery THEN text ELSE q
          /\ timer' = (text' # q)

Arrive ==
  /\ replacing # Nowhere
  /\ Render(replacing)
  /\ replacing' = Nowhere
  /\ UNCHANGED <<edits, entered, undone, sends, latest>>

\* Back, forward or a link.
Navigate(q) ==
  /\ Edit
  /\ Render(q)
  /\ undone' = (undone \/ (q = urlQuery /\ replacing # Nowhere))
  /\ replacing' = Nowhere
  /\ entered' = text'
  /\ UNCHANGED <<sends, latest>>

\* The answer is kept under its own text, however late.
Answer(q) ==
  /\ found[q].busy
  /\ found' = [found EXCEPT ![q] = [NotFound EXCEPT !.users = SearchUsers(q)]]
  /\ UNCHANGED <<barVars, edits, sends, latest>>

\* retry is off; what was found before stays.
Fail(q) ==
  /\ found[q].busy
  /\ \E fault \in {"limited", "other"}: found' = [found EXCEPT ![q].busy = FALSE, ![q].fault = fault]
  /\ UNCHANGED <<barVars, edits, sends, latest>>

Answers == \E q \in Queries: Answer(q) \/ Fail(q)

\* The button, which a 429 does not get.
Retry ==
  /\ Edit
  /\ urlQuery # Blank /\ found[urlQuery].fault = "other" /\ ~found[urlQuery].busy
  /\ found' = Looked(found, urlQuery)
  /\ UNCHANGED <<barVars, sends, latest>>

\* onSendRequest: the row of the last call is the only one that is disabled.
\* Bound: one call for a user at a time.
SendRequest(u) ==
  /\ Edit
  /\ urlQuery # Blank /\ u \in found[urlQuery].users /\ ~u.isCaller /\ ~sends[u].marked
  /\ sends[u].stage = "none"
  /\ sends' = [sends EXCEPT ![u].stage = "sent"] /\ latest' = u
  /\ UNCHANGED <<barVars, found>>

\* POST /contacts/requests: 409 if it exists.  Answers of the user are left out.
ServerStores(u) ==
  /\ sends[u].stage = "sent"
  /\ sends' = [sends EXCEPT ![u].stage = IF sends[u].stored THEN "refused" ELSE "stored", ![u].stored = TRUE]
  /\ UNCHANGED <<barVars, edits, found, latest>>

\* The onSuccess given to mutate runs if no other call was made since; a call
\* that fails or was refused leaves the row as it is.
SendEnds(u) ==
  /\ sends[u].stage # "none"
  /\ \E heard \in BOOLEAN:
       LET marks == heard /\ sends[u].stage = "stored" /\ latest = u
       IN  sends' = [sends EXCEPT ![u].stage = "none", ![u].marked = marks,
                                  ![u].unheard = @ \/ (sends[u].stage = "stored" /\ ~marks)]
  /\ UNCHANGED <<barVars, edits, found, latest>>

Next ==
  \/ \E q \in Queries \cup {Blank}: Type(q) \/ Navigate(q)
  \/ Submit \/ Debounce \/ Arrive \/ Answers \/ Retry
  \/ \E u \in Directory: SendRequest(u) \/ ServerStores(u) \/ SendEnds(u)

Spec == Init /\ [][Next]_vars /\ WF_vars(Debounce) /\ WF_vars(Arrive) /\ WF_vars(Answers)

-----------------------------------------------------------------------------
\* Once the user stops, input and address agree on what the user typed last,
\* or navigated to since: a navigation that arrives late drops no character,
\* and every pause reaches the address; unless a navigation to the very
\* address at hand discarded the one under way.  Then the rows are the users
\* whose name holds the very text of the address ("Escapes LIKE wildcards so
\* user input matches literally", users.service.ts:284), or whose email it is;
\* unless the last fetch failed.  A row is marked as requested just when the
\* server has the request, unless its answer was lost or overtaken by a later
\* call (UserSearchResult.tsx:21).
Literal(u, t) ==
  \/ \E i \in 0..Len(u.username): IsPrefix(Lower(t), SubSeq(Lower(u.username), i + 1, Len(u.username)))
  \/ Lower(u.email) = Lower(t)
RowsAreRight(q) ==
  /\ ~found[q].busy
  /\ \/ found[q].fault # "none"
     \/ found[q].users = {u \in Directory: u.isActive /\ ~u.isCaller /\ Literal(u, q)}
MarksAreRight(u) == sends[u].stage = "none" => (sends[u].marked <=> sends[u].stored /\ ~sends[u].unheard)
Settled ==
  /\ text = entered /\ (urlQuery = text \/ undone)
  /\ urlQuery = Blank \/ RowsAreRight(urlQuery)
  /\ \A u \in Directory: MarksAreRight(u)
SettlesOnText == <>[]Settled
=============================================================================
