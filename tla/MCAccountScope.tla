--------------------------- MODULE MCAccountScope ---------------------------
EXTENDS AccountScope, TLC

\* Reads are alike, and so are accounts.
Alike == Permutations(Reads) \cup Permutations(Accounts)
=============================================================================
