-------------------------- MODULE CacheStatistics --------------------------
(***************************************************************************)
(* The statistics of SharedStateCache, over a bounded number of operations *)
(* so that no counter saturates: what the counters add up to, allowing for *)
(* the increments each worker still owes.                                  *)
(***************************************************************************)
EXTENDS SharedStateCache

CONSTANT Operations   \* bound: how many operations are started

ASSUME OperationsAssumption == Operations \in 0..CounterMax
ASSUME WorkersAssumption == IsFiniteSet(Workers)

VARIABLES started,    \* operations started so far
          flushed     \* history: residents dropped by clears and policy changes

statisticsVars == <<vars, started, flushed>>

StatisticsInit == Init /\ started = 0 /\ flushed = 0

Flushed == flushed' = flushed + IF root'.generation # root.generation
                                THEN Cardinality(Residents(root.storage)) ELSE 0

StatisticsNext ==
    \E w \in Workers :
       \/ Start(w) /\ started < Operations /\ started' = started + 1 /\ Flushed
       \/ Continue(w) /\ started' = started /\ Flushed

StatisticsSpec == StatisticsInit /\ [][StatisticsNext]_statisticsVars

(* The increments that workers owe to a counter: <<w, k>> is the k-th one  *)
(* that w owes.  A publication owes at most two.                           *)
Debts(c) == {m \in Workers \X (1..2) : m[2] \in DOMAIN owed[m[1]] /\ owed[m[1]][m[2]] = c}
Total(c) == counters[c] + Cardinality(Debts(c))

(* insertions - evictions accounts for every resident, in this generation  *)
(* or dropped with an earlier one, whatever raced.                         *)
ResidencyBalance ==
    Total("insertions") = Total("evictions") + Cardinality(Residents(root.storage)) + flushed

Clearing == {w \in Workers : pc[w] = "clear"}

(* Every request counts once, as a hit or a miss, at its first lookup, and *)
(* every clear once, however often its swap is retried.                    *)
RequestBalance ==
    Total("hits") + Total("misses") + Total("clears") + Cardinality(Clearing) = started

(* A miss ends at most once: in a fault, a refusal, a lost race, or an     *)
(* insertion; what is left of the insertions was reinserted by hits.       *)
MissOutcomes ==
    /\ Total("faults") + Total("uncacheable_results") + Total("raced_publications")
          <= Total("misses")
    /\ Total("faults") + Total("uncacheable_results") + Total("raced_publications")
          + Total("insertions") <= Total("misses") + Total("hits")

(* The statistics of concurrent operations add up at every moment.         *)
StatisticsAddUp == ResidencyBalance /\ RequestBalance /\ MissOutcomes
=============================================================================
