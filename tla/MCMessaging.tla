---------------------------- MODULE MCMessaging -----------------------------
\* Messaging on small instances: two participants, uploads owned by the first.
EXTENDS Messaging, TLC

CONSTANTS a, b

\* Every upload belongs to the first user.
OwnedByA == [f \in Attachments |-> a]

\* Only the request from the first user to the second moves.
OneRequest == {<<a, b>>}

\* Handlers are interchangeable in the safety properties.
WorkerSymmetry == Permutations(Senders) \cup Permutations(Readers)
=============================================================================
