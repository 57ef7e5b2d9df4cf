---------------------------- MODULE GraphPipeline ----------------------------
(***************************************************************************)
(* The analysis of a captured machine: a graph cursor copies it, the       *)
(* client takes the graph, and opens on it a distance cursor               *)
(* (src/src/ffi/distance.rs), a ranked path cursor                         *)
(* (src/src/ffi/ranked_path.rs) or a sample path cursor                    *)
(* (src/src/ffi/sample_path.rs).                                           *)
(***************************************************************************)
EXTENDS GraphCursor, RankedPaths, SamplePaths

CONSTANT Uses   \* what a client may open: [kind, work, call, more]

captureVars == cursorVars
vars == <<captureVars, distanceVars, searchVars, sampleVars>>

Init == CaptureInit /\ Closed /\ RankedClosed /\ SampleClosed

CaptureGraph ==
    /\ graph = NULL
    /\ Capture
    /\ UNCHANGED <<distanceVars, searchVars, sampleVars>>

OpenDistances(u) ==
    /\ graph # NULL /\ g = Null
    /\ Open(graph, "semiring", u.work, u.call)
    /\ UNCHANGED <<captureVars, searchVars, sampleVars>>

OpenRanked(u) ==
    /\ graph # NULL /\ g = Null
    /\ RankedOpen(graph, u.work, u.call, u.more)
    /\ UNCHANGED <<captureVars, sampleVars>>

OpenSamples(u, uniform) ==
    /\ graph # NULL /\ g = Null
    /\ SampleOpen(graph, uniform, u.work, u.call, u.more)
    /\ UNCHANGED <<captureVars, searchVars>>

OpenAny ==
    \E u \in Uses :
       \/ u.kind = "distances" /\ OpenDistances(u)
       \/ u.kind = "ranked" /\ OpenRanked(u)
       \/ u.kind = "uniform" /\ OpenSamples(u, TRUE)
       \/ u.kind = "proportional" /\ OpenSamples(u, FALSE)

MeasureGraph ==
    /\ ~IsOpen /\ ~Sampling
    /\ Measure
    /\ UNCHANGED <<captureVars, searchVars, sampleVars>>

RankPaths == Rank /\ UNCHANGED <<captureVars, sampleVars>>
DrawPaths == Sample /\ UNCHANGED <<captureVars, searchVars>>

Next == CaptureGraph \/ OpenAny \/ MeasureGraph \/ RankPaths \/ DrawPaths

Spec == Init /\ [][Next]_vars
=============================================================================
