----------------------------- MODULE MCAccounts ------------------------------
\* Accounts on small instances with a single username.
EXTENDS Accounts, TLC

CONSTANT n

\* Handlers are interchangeable in the safety properties.
WorkerSymmetry == Permutations(Workers)

Claim == [name |-> n, full |-> None]
Fill(full) == [name |-> None, full |-> full]

\* The username is claimed, and the other required field is set.
ClaimOrFill == {Claim, Fill(TRUE)}

\* The other required field may be cleared again as well.
ClaimFillOrClear == {Claim, Fill(TRUE), Fill(FALSE)}
=============================================================================
