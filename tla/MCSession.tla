----------------------------- MODULE MCSession ------------------------------
\* Session with two accounts on one tab, the first of which signs in twice.
EXTENDS Session

CONSTANTS a, b, t1, t2

Signers == [t \in Tokens |-> IF t = t2 THEN b ELSE a]
=============================================================================
