------------------------ MODULE SharedStateCacheMC ------------------------
(***************************************************************************)
(* Instances of SharedStateCache for TLC.                                  *)
(***************************************************************************)
EXTENDS SharedStateCacheRefinement, TLC

CacheAll == [kind |-> "CacheAll", capacity |-> 0]
NoCache  == [kind |-> "NoCache", capacity |-> 0]
Lru(n)   == [kind |-> "Lru", capacity |-> n]

EveryKind == {CacheAll, NoCache, Lru(1), Lru(2)}
LruTwoOrAll == {Lru(2), CacheAll}
LruTwo == {Lru(2)}
Symmetric == Permutations(Addresses) \cup Permutations(Ids) \cup Permutations(Workers)
=============================================================================
