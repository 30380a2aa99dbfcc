---------------------------- MODULE MediaViewer ----------------------------
(* The viewer over a chat: MediaViewer.tsx and its store. The media of the  *)
(* loaded history are numbered from the newest down; the viewer fetches the *)
(* one it is at through the attachment cache and can move, close and retry  *)
(* while earlier fetches are still under way.                               *)
EXTENDS Integers

CONSTANTS Latest, First,   \* the media the history may come to hold
          Avatar, Closed

VARIABLES loaded,   \* the part of the history in the query cache
          at,       \* what the viewer is opened on
          stage,    \* the state of the component: src, loading, failed
          fetches,  \* fetches whose effect has not been cleaned up
          retries,  \* fetches started by the retry button: nothing cancels them
          cached,   \* media with an object URL in the attachment cache
          overtaken \* a retry for another medium has answered since the move

vars == <<loaded, at, stage, fetches, retries, cached, overtaken>>

Gallery == loaded.newest .. loaded.oldest
Things  == (Latest .. First) \cup {Avatar}

Init ==
  /\ \E m \in Latest .. First: loaded = [newest |-> m, oldest |-> m]
  /\ at = Closed
  /\ stage = [src |-> Closed, loading |-> TRUE, failed |-> FALSE]
  /\ fetches = {} /\ retries = {} /\ cached = {}
  /\ overtaken = FALSE

\* Mutant: the cleanup does not mark the fetch of the last medium as cancelled.
Cancelled_Not(fs) == fs

\* The cleanup of the effect.
Cancelled(fs) == {}

\* The effect of a change of what is shown.
Resolve(m) ==
  /\ at' = m
  /\ overtaken' = FALSE
  /\ IF m \in cached
     THEN /\ stage' = [src |-> m, loading |-> FALSE, failed |-> FALSE]
          /\ fetches' = Cancelled(fetches)
     ELSE /\ stage' = [stage EXCEPT !.loading = TRUE, !.failed = FALSE]
          /\ fetches' = Cancelled(fetches) \cup {m}
  /\ UNCHANGED <<loaded, retries, cached>>

Open(m) == at # m /\ m \in Gallery \cup {Avatar} /\ (at = Closed \/ m = Avatar) /\ Resolve(m)

\* prevMedia and nextMedia, by button or by key.
Prev == at \in Gallery /\ at > loaded.newest /\ Resolve(at - 1)
Following == at \in Gallery /\ at < loaded.oldest /\ Resolve(at + 1)

Close ==
  /\ at # Closed
  /\ at' = Closed
  /\ fetches' = Cancelled(fetches)
  /\ UNCHANGED <<loaded, stage, retries, cached, overtaken>>

Shows(m, ok) ==
  /\ stage' = IF ok THEN [src |-> m, loading |-> FALSE, failed |-> FALSE]
              ELSE [stage EXCEPT !.loading = FALSE, !.failed = TRUE]
  /\ cached' = IF ok THEN cached \cup {m} ELSE cached

FetchEnds(m, ok) ==
  /\ m \in fetches
  /\ fetches' = fetches \ {m}
  /\ Shows(m, ok)
  /\ UNCHANGED <<loaded, at, retries, overtaken>>

Retry ==
  /\ at # Closed /\ stage.failed
  /\ stage' = [stage EXCEPT !.loading = TRUE, !.failed = FALSE]
  /\ retries' = retries \cup {at}
  /\ UNCHANGED <<loaded, at, fetches, cached, overtaken>>

RetryEnds(m, ok) ==
  /\ m \in retries
  /\ retries' = retries \ {m}
  /\ Shows(m, ok)
  /\ overtaken' = (m # at)
  /\ UNCHANGED <<loaded, at, fetches>>

\* A message with a picture arrives, an older page is loaded.
HistoryGrows ==
  /\ \/ loaded.newest > Latest /\ loaded' = [loaded EXCEPT !.newest = @ - 1]
     \/ loaded.oldest < First /\ loaded' = [loaded EXCEPT !.oldest = @ + 1]
  /\ UNCHANGED <<at, stage, fetches, retries, cached, overtaken>>

\* The cache evicts an entry and revokes its URL; what is drawn stays drawn.
Evicted(m) ==
  /\ m \in cached
  /\ cached' = cached \ {m}
  /\ UNCHANGED <<loaded, at, stage, fetches, retries, overtaken>>

Next ==
  \/ \E m \in Things: Open(m) \/ Evicted(m) \/ \E ok \in BOOLEAN: FetchEnds(m, ok) \/ RetryEnds(m, ok)
  \/ Prev \/ Following \/ Close \/ Retry \/ HistoryGrows

Spec == Init /\ [][Next]_vars

-----------------------------------------------------------------------------
\* However fast the user moves through the gallery and however late the
\* fetches answer, the medium on the stage is the one the viewer is at, with
\* its caption and download, unless a retry begun elsewhere answered since.
ShownIsCurrent ==
  at # Closed /\ ~stage.loading /\ ~stage.failed /\ ~overtaken => stage.src = at
=============================================================================
