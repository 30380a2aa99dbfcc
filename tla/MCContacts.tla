----------------------------- MODULE MCContacts -----------------------------
\* Contacts on small instances; Workers and Users are sets of model values.
EXTENDS Contacts, TLC

\* Handlers are interchangeable: no property distinguishes one from another.
WorkerSymmetry == Permutations(Workers)
=============================================================================
