----------------------------- MODULE MCAccounts -----------------------------
EXTENDS Accounts, TLC

Symmetry == Permutations(Machines) \cup Permutations(Handlers) \cup Permutations(Tokens)
=============================================================================
