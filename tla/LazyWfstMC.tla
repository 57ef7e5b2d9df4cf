----------------------------- MODULE LazyWfstMC -----------------------------
(***************************************************************************)
(* The instances of LazyWfst that TLC checks.                              *)
(***************************************************************************)
EXTENDS LazyWfstRefinement, Sequences, SequencesExt

CacheAll == [kind |-> "CacheAll", max |-> 0]
NoCache  == [kind |-> "NoCache", max |-> 0]
Lru(n)   == [kind |-> "Lru", max |-> n]

AllKinds == {CacheAll, NoCache, Lru(1), Lru(2), Lru(3)}
LruTwoThree == {Lru(2), Lru(3)}
OnlyAll == {CacheAll}

(* Three languages; the first two report the same snapshot.                *)
SharedDigest == [s \in {1, 2, 3} |-> IF s = 3 THEN 1 ELSE 0]
(* A digest of the language: one snapshot each.                            *)
ContentDigest == [s \in {1, 2} |-> s]
OneDigest == [s \in {1} |-> 0]
=============================================================================
