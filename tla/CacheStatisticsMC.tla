------------------------- MODULE CacheStatisticsMC -------------------------
(***************************************************************************)
(* The instance of CacheStatistics for TLC.                                *)
(***************************************************************************)
EXTENDS CacheStatistics, SharedStateCacheMC
=============================================================================
