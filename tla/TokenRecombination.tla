-------------------------- MODULE TokenRecombination --------------------------
(***************************************************************************)
(* RecombinationBuffer (src/src/gpu/token_recombine.rs): workers offer     *)
(* tokens to the states of a decoder; each state keeps the cheapest in one *)
(* atomic word, and each arc the last token of its own that won.           *)
(*                                                                         *)
(* A word is a cost in its high half and an arc in its low half.  A cost   *)
(* is a floating-point pattern, the sign bit first, whose magnitude orders *)
(* like the number; the largest magnitude is not a number, and the next    *)
(* one is infinite.                                                        *)
(***************************************************************************)
EXTENDS Integers, FiniteSets

CONSTANTS Workers,
          Destinations,  \* state indices of the buffer
          ArcCount,      \* arcs are 0..ArcCount-1
          Half,          \* the sign bit of a cost
          Nothing

ASSUME HalfAssumption == Half \in Nat /\ Half >= 2

ASSUME ArcCountAssumption == ArcCount \in Nat

Patterns == 0..(2 * Half - 1)
ArcIds == 0..(ArcCount - 1)
Words == [high : Patterns, low : ArcIds]

ASSUME NothingAssumption == Nothing \notin Words

Magnitude(c) == IF c < Half THEN c ELSE c - Half
IsNan(c) == Magnitude(c) = Half - 1
Number(c) == IF c < Half THEN Magnitude(c) ELSE 0 - Magnitude(c)

-----------------------------------------------------------------------------
(* The word                                                                *)

(* Mutant of Ordered: negative costs keep their pattern.                   *)
Ordered_KeepsNegative(c) == IF c < Half THEN c + Half ELSE c - Half

(* The sign bit is flipped in a positive pattern, every bit in a negative. *)
Ordered(c) == IF c < Half THEN c + Half ELSE 2 * Half - 1 - c

(* pack_cost_arc and unpack_cost_arc                                       *)
Pack(c, arc) == [high |-> Ordered(IF IsNan(c) THEN Half - 2 ELSE c), low |-> arc]
CostOf(word) == IF word.high < Half THEN 2 * Half - 1 - word.high ELSE word.high - Half

(* PackedToken::EMPTY, all ones: the pattern of no number, and no arc.     *)
EmptyWord == [high |-> 2 * Half - 1, low |-> ArcCount]

(* Words compare as integers.                                              *)
Below(v, w) == v.high < w.high \/ (v.high = w.high /\ v.low < w.low)

-----------------------------------------------------------------------------
VARIABLES stateToken,  \* by state, its best token
          arcToken,    \* by arc, the last token that won
          storing,     \* by worker, the word it has yet to store, or Nothing
          statesLeft,  \* by worker, the states its reset has yet to clear
          arcsLeft,    \* by worker, the arcs its reset has yet to clear
          offered,     \* history: by state, the tokens since it was cleared, <<state, cost, arc>>
          expanded,    \* history: the arcs offered since the last reset began
          overlapped   \* history: those of which a call overlapped a reset

clearing == <<statesLeft, arcsLeft>>
tokenVars == <<stateToken, arcToken, storing, clearing, offered, expanded, overlapped>>

TokenInit ==
    /\ stateToken = [s \in Destinations |-> EmptyWord]
    /\ arcToken = [a \in ArcIds |-> EmptyWord]
    /\ storing = [w \in Workers |-> Nothing]
    /\ statesLeft = [w \in Workers |-> {}] /\ arcsLeft = [w \in Workers |-> {}]
    /\ offered = {} /\ expanded = {} /\ overlapped = {}

Resetting(w) == statesLeft[w] # {} \/ arcsLeft[w] # {}
NoReset == \A w \in Workers : ~Resetting(w)
AtRest(w) == storing[w] = Nothing /\ ~Resetting(w)

(* The decoder expands an arc once in a frame, which begins with a reset   *)
(* (the loop of src/docs/advanced/gpu-acceleration.md).                    *)
Unexpanded(arc) == arc \notin expanded

(* recombine, up to the atomic minimum: a cost that is not a number leaves *)
(* no trace, like a state or an arc that is out of range.                  *)
Offer(w, s, c, arc) ==
    /\ AtRest(w) /\ Unexpanded(arc)
    /\ IF IsNan(c) THEN UNCHANGED <<stateToken, storing, offered, expanded, overlapped>>
       ELSE LET word == Pack(c, arc)
                wins == Below(word, stateToken[s])
            IN /\ stateToken' = [stateToken EXCEPT ![s] = IF wins THEN word ELSE @]
               /\ storing' = [storing EXCEPT ![w] = IF wins THEN word ELSE Nothing]
               /\ offered' = offered \cup {<<s, c, arc>>}
               /\ expanded' = expanded \cup {arc}
               /\ overlapped' = IF NoReset THEN overlapped ELSE overlapped \cup {arc}
    /\ UNCHANGED <<arcToken, clearing>>

(* The winner is stored for its arc.                                       *)
Store(w) ==
    /\ storing[w] # Nothing
    /\ arcToken' = [arcToken EXCEPT ![storing[w].low] = storing[w]]
    /\ storing' = [storing EXCEPT ![w] = Nothing]
    /\ UNCHANGED <<stateToken, clearing, offered, expanded, overlapped>>

(* Mutant of ClearedArcs: only the states are reset.                       *)
ClearedArcs_None == {}

ClearedArcs == ArcIds

(* reset, for a new frame.  It takes &self, so that any worker may call it *)
(* while the others are about to store or clear.                           *)
BeginReset(w) ==
    /\ AtRest(w)
    /\ statesLeft' = [statesLeft EXCEPT ![w] = Destinations]
    /\ arcsLeft' = [arcsLeft EXCEPT ![w] = ClearedArcs]
    /\ expanded' = {}
    /\ overlapped' = {storing[v].low : v \in {u \in Workers : storing[u] # Nothing}}
    /\ UNCHANGED <<stateToken, arcToken, storing, offered>>

(* One store of its loops.  They are relaxed: they may be seen in any      *)
(* order.                                                                  *)
ClearState(w, s) ==
    /\ s \in statesLeft[w]
    /\ statesLeft' = [statesLeft EXCEPT ![w] = @ \ {s}]
    /\ stateToken' = [stateToken EXCEPT ![s] = EmptyWord]
    /\ offered' = {o \in offered : o[1] # s}
    /\ UNCHANGED <<arcToken, storing, arcsLeft, expanded, overlapped>>

ClearArc(w, a) ==
    /\ a \in arcsLeft[w]
    /\ arcsLeft' = [arcsLeft EXCEPT ![w] = @ \ {a}]
    /\ arcToken' = [arcToken EXCEPT ![a] = EmptyWord]
    /\ UNCHANGED <<stateToken, storing, statesLeft, offered, expanded, overlapped>>

TokenNext ==
    \E w \in Workers :
       \/ \E s \in Destinations, c \in Patterns, arc \in ArcIds : Offer(w, s, c, arc)
       \/ Store(w)
       \/ BeginReset(w)
       \/ \E s \in Destinations : ClearState(w, s)
       \/ \E a \in ArcIds : ClearArc(w, a)

TokenSpec == TokenInit /\ [][TokenNext]_tokenVars

-----------------------------------------------------------------------------
OffersTo(s) == {o \in offered : o[1] = s}

(* get_token and collect_survivors: a state holds the cheapest of the      *)
(* tokens offered to it since it was cleared, with the cost it was offered *)
(* at, and none when none was offered; resets may come at any time.        *)
CheapestSurvives ==
    \A s \in Destinations :
       IF OffersTo(s) = {} THEN stateToken[s] = EmptyWord
       ELSE /\ stateToken[s] # EmptyWord
            /\ <<s, CostOf(stateToken[s]), stateToken[s].low>> \in offered
            /\ \A o \in OffersTo(s) : Number(CostOf(stateToken[s])) <= Number(o[2])

(* get_arc_token, once no reset is running: the arc of a survivor has the  *)
(* survivor's own token, as soon as no worker is about to store it, and an *)
(* arc has no token of another frame.  Only an arc of which a call of      *)
(* recombine overlapped a reset is excepted, since the last reset began:   *)
(* its token may be lost or late.  It does not disturb the other arcs.     *)
WinnersAreStored ==
    NoReset =>
       \A a \in ArcIds \ overlapped :
          /\ \A s \in Destinations :
                stateToken[s] # EmptyWord /\ stateToken[s].low = a =>
                   \/ arcToken[a] = stateToken[s]
                   \/ \E w \in Workers : storing[w] = stateToken[s]
          /\ arcToken[a] # EmptyWord =>
                \E o \in offered : o[3] = a /\ Pack(o[2], a) = arcToken[a]
=============================================================================
