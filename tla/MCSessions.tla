----------------------------- MODULE MCSessions -----------------------------
EXTENDS Sessions, TLC

\* Clients and addresses are interchangeable.
Sym == Permutations(Client) \cup Permutations(Addr) \cup Permutations(KAddr)
=============================================================================
