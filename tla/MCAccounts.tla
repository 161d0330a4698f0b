----------------------------- MODULE MCAccounts -----------------------------
\* Accounts for TLC: session threads are interchangeable.
EXTENDS Accounts, TLC

Sym == Permutations(Thread)
=============================================================================
