------------------------- MODULE SmallMachines_proofs ------------------------
(***************************************************************************)
(* Theorems about the components whose state is one variable or two: the   *)
(* callback gate with the copy that runs in it (CallbackGate), the token   *)
(* recombination buffer (TokenRecombination) and the recency list beside   *)
(* the sequence it stands for (LruMachine); and about the capture of a     *)
(* graph (GraphCursor).                                                    *)
(***************************************************************************)
EXTENDS CallbackGate, TokenRecombination, LruMachine, GraphCursor, LruStorage_proofs

-----------------------------------------------------------------------------
(* The gate                                                                *)

GateTypes ==
    /\ policy \in Policies /\ inCall \in BOOLEAN
    /\ pc \in [Threads -> {"idle", "sizing", "filling"}]

(* The flag, and the one thread that set it.                               *)
FlagInv ==
    policy # "parallel" =>
       /\ \A t, u \in Threads : Inside(t) /\ Inside(u) => t = u
       /\ inCall <=> \E t \in Threads : Inside(t)
       /\ policy = "threadBound" => \A t \in Threads : Inside(t) => t = Owner

GateInv == GateTypes /\ FlagInv

LEMMA GateInitially == GateInit => GateInv
BY DEF GateInit, GateInv, GateTypes, FlagInv, Inside, Policies, PolicyOf

(* A step that moves no thread in or out of a call.                        *)
LEMMA GateStays ==
    ASSUME GateInv, NEW t \in Threads, Inside(t),
           UNCHANGED <<policy, inCall>>,
           \/ pc' = pc
           \/ pc' = [pc EXCEPT ![t] = "filling"]
    PROVE  GateInv'
<1>1. \A u \in Threads : Inside(u)' <=> Inside(u)
  BY DEF GateInv, GateTypes, Inside
<1>2. GateTypes'
  BY DEF GateInv, GateTypes
<1>3. FlagInv'
  BY <1>1 DEF GateInv, FlagInv
<1> QED BY <1>2, <1>3 DEF GateInv

LEMMA GateOpens ==
    ASSUME GateInv, NEW t \in Threads, NEW a, NEW v, Inside(t), Leave(t, a, v)
    PROVE  GateInv'
<1>1. /\ pc' = [pc EXCEPT ![t] = "idle"] /\ policy' = policy
      /\ inCall' = (policy = "parallel" /\ inCall)
  BY DEF Leave
<1>2. GateTypes'
  BY <1>1 DEF GateInv, GateTypes, Policies
<1>3. \A u \in Threads : Inside(u)' <=> Inside(u) /\ u # t
  BY <1>1 DEF GateInv, GateTypes, Inside
<1>4. FlagInv'
  BY <1>1, <1>3 DEF GateInv, FlagInv
<1> QED BY <1>2, <1>4 DEF GateInv

LEMMA GateEnters ==
    ASSUME GateInv, NEW t \in Threads, Enter(t)
    PROVE  GateInv'
<1>1. CASE Admitted(t)
  <2>1. /\ pc' = [pc EXCEPT ![t] = "sizing"] /\ policy' = policy
        /\ inCall' = (policy # "parallel" \/ inCall)
    BY <1>1 DEF Enter
  <2>2. GateTypes'
    BY <2>1 DEF GateInv, GateTypes, Policies
  <2>3. \A u \in Threads : Inside(u)' <=> Inside(u) \/ u = t
    BY <2>1 DEF GateInv, GateTypes, Inside
  <2>4. FlagInv'
    BY <1>1, <2>1, <2>3 DEF GateInv, GateTypes, FlagInv, Admitted, Policies
  <2> QED BY <2>2, <2>4 DEF GateInv
<1>2. CASE ~Admitted(t)
  BY <1>2 DEF Enter, GateInv, GateTypes, FlagInv, Inside
<1> QED BY <1>1, <1>2

LEMMA GateStep == GateInv /\ [GateNext]_gateVars => GateInv'
<1> SUFFICES ASSUME GateInv, [GateNext]_gateVars PROVE GateInv'
  OBVIOUS
<1>1. ASSUME NEW t \in Threads, CopyStep(t) PROVE GateInv'
  <2>1. CASE Enter(t)
    BY <2>1, GateEnters
  <2>2. CASE AskSize(t)
    BY <2>2, GateStays DEF AskSize, Inside
  <2>3. CASE SizeFails(t)
    BY <2>3, GateOpens DEF SizeFails, Refuse, Inside
  <2>4. CASE TooLarge(t)
    BY <2>4, GateOpens DEF TooLarge, Refuse, Inside
  <2>5. ASSUME NEW written \in Sizes, NEW needs \in Sizes, Fill(t, written, needs)
        PROVE  GateInv'
    <3>1. Inside(t)
      BY <2>5 DEF Fill, Inside
    <3>2. \/ \E a, v : Leave(t, a, v)
          \/ UNCHANGED <<policy, inCall, pc>>
      BY <2>5 DEF Fill, Refuse
    <3> QED BY <3>1, <3>2, GateOpens, GateStays
  <2>6. CASE FillFails(t)
    <3>1. Inside(t) /\ \E a, v : Leave(t, a, v)
      BY <2>6 DEF FillFails, Refuse, Inside
    <3> QED BY <3>1, GateOpens
  <2> QED BY <1>1, <2>1, <2>2, <2>3, <2>4, <2>5, <2>6 DEF CopyStep
<1>2. ASSUME UNCHANGED <<policy, inCall, pc>> PROVE GateInv'
  BY <1>2 DEF GateInv, GateTypes, FlagInv, Inside
<1> QED BY <1>1, <1>2 DEF GateNext, Change, gateVars

LEMMA FlagMeansOne == GateInv => GateIsHeld
<1> SUFFICES ASSUME GateInv, policy # "parallel"
             PROVE  Cardinality({t \in Threads : Inside(t)}) <= 1
  BY DEF GateInv, FlagInv, GateIsHeld
<1> DEFINE S == {t \in Threads : Inside(t)}
<1>1. CASE S = {}
  BY <1>1, FS_EmptySet
<1>2. CASE S # {}
  <2> PICK t \in S : TRUE
    BY <1>2
  <2>1. S = {t}
    BY DEF GateInv, FlagInv
  <2>2. Cardinality(S) = 1
    BY <2>1, FS_Singleton
  <2> QED BY <2>2
<1> QED BY <1>1, <1>2

(* A serial provider runs one callback at a time and a thread-bound one on *)
(* its own thread, and no way out of a call leaves the flag behind, for    *)
(* any threads, limits and values.                                         *)
THEOREM GateAdmitsOne == GateSpec => []GateIsHeld
<1>1. GateInit => GateInv
  BY GateInitially
<1>2. GateInv /\ [GateNext]_gateVars => GateInv'
  BY GateStep
<1>3. GateInv => GateIsHeld
  BY FlagMeansOne
<1> QED BY <1>1, <1>2, <1>3, PTL DEF GateSpec

-----------------------------------------------------------------------------
(* The copy                                                                *)

Answers == {"wrongThread", "concurrent", "provider", "invalid", "limit",
            "copied", "unstable", Absent}

CopyTypes ==
    /\ value \in Values
    /\ pc \in [Threads -> {"idle", "sizing", "filling"}]
    /\ required \in [Threads -> Nat] /\ attempt \in [Threads -> Nat]
    /\ moved \in [Threads -> 0..Attempts]
    /\ answer \in [Threads -> Answers]
    /\ copied \in [Threads -> Values \cup {Absent}]

(* Every vain attempt was made vain by a change of its own: one that came  *)
(* after the size was asked, and before the next attempt.                  *)
Excused(t) ==
    \/ moved[t] = Attempts
    \/ /\ attempt[t] <= moved[t]
       /\ value.size > required[t] => attempt[t] < moved[t]

AttemptsInv ==
    \A t \in Threads :
       /\ pc[t] = "sizing" => attempt[t] = 0
       /\ pc[t] = "filling" => Excused(t)

CopyInv == CopyTypes /\ AttemptsInv /\ CopyIsWhole

LEMMA SizesAreNumbers == \A v \in Values : v.size \in Nat
BY ValuesAssumption

LEMMA CopyInitially == GateInit => CopyInv
BY LimitsAssumption, AbsentAssumption
   DEF GateInit, CopyInv, CopyTypes, AttemptsInv, CopyIsWhole, Answers

(* A call ends with an answer that is not one of the two at issue.         *)
LEMMA CopyRefused ==
    ASSUME CopyInv, NEW t \in Threads, UNCHANGED required,
           NEW a \in {"provider", "invalid", "limit"}, Refuse(t, a)
    PROVE  CopyInv'
<1>1. /\ pc' = [pc EXCEPT ![t] = "idle"] /\ answer' = [answer EXCEPT ![t] = a]
      /\ copied' = [copied EXCEPT ![t] = Absent]
      /\ UNCHANGED <<value, attempt, moved, required>>
  BY DEF Refuse, Leave
<1>2. CopyTypes'
  BY <1>1 DEF CopyInv, CopyTypes, Answers
<1>3. AttemptsInv'
  BY <1>1 DEF CopyInv, CopyTypes, AttemptsInv, Excused
<1>4. CopyIsWhole'
  BY <1>1 DEF CopyInv, CopyTypes, CopyIsWhole
<1> QED BY <1>2, <1>3, <1>4 DEF CopyInv

LEMMA CopyEnters ==
    ASSUME CopyInv, NEW t \in Threads, Enter(t)
    PROVE  CopyInv'
<1>1. /\ copied' = [copied EXCEPT ![t] = Absent] /\ UNCHANGED <<value, required>>
      /\ \E a \in Answers \ {"copied", "unstable"} : answer' = [answer EXCEPT ![t] = a]
  BY AbsentAssumption DEF Enter, Answers
<1>2. \/ UNCHANGED <<pc, attempt, moved>>
      \/ /\ pc' = [pc EXCEPT ![t] = "sizing"]
         /\ attempt' = [attempt EXCEPT ![t] = 0] /\ moved' = [moved EXCEPT ![t] = 0]
  BY DEF Enter
<1>3. CopyTypes'
  BY <1>1, <1>2, LimitsAssumption DEF CopyInv, CopyTypes
<1>4. AttemptsInv'
  BY <1>1, <1>2 DEF CopyInv, CopyTypes, AttemptsInv, Excused
<1>5. CopyIsWhole'
  BY <1>1, <1>2 DEF CopyInv, CopyTypes, CopyIsWhole, Enter
<1> QED BY <1>3, <1>4, <1>5 DEF CopyInv

LEMMA CopyFills ==
    ASSUME CopyInv, NEW t \in Threads,
           NEW written \in Sizes, NEW needs \in Sizes, Fill(t, written, needs)
    PROVE  CopyInv'
<1> DEFINE room == required[t]
<1>1. /\ room \in Nat /\ value.size \in Nat /\ room <= Largest /\ needs = value.size
      /\ attempt[t] \in Nat /\ moved[t] \in 0..Attempts /\ Excused(t)
  BY SizesAreNumbers DEF Fill, KeepsContract, CopyInv, CopyTypes, AttemptsInv
<1>2. CASE Fits(room, written, needs)
  <2>1. [text |-> value.text, size |-> written] = value
    BY <1>1, <1>2, ValuesAssumption DEF Fill, KeepsContract, Fits, CopyInv, CopyTypes
  <2>2. /\ pc' = [pc EXCEPT ![t] = "idle"] /\ answer' = [answer EXCEPT ![t] = "copied"]
        /\ copied' = [copied EXCEPT ![t] = value]
        /\ UNCHANGED <<value, attempt, moved, required>>
    BY <1>2, <2>1 DEF Fill, Leave
  <2>3. CopyTypes'
    BY <2>2 DEF CopyInv, CopyTypes, Answers
  <2>4. AttemptsInv'
    BY <2>2 DEF CopyInv, CopyTypes, AttemptsInv, Excused
  <2>5. value.size <= Largest
    BY <1>1, <1>2, LimitsAssumption DEF Fits
  <2>6. CopyIsWhole'
    BY <2>2, <2>5 DEF CopyInv, CopyTypes, CopyIsWhole
  <2> QED BY <2>3, <2>4, <2>6 DEF CopyInv
<1>3. CASE ~Fits(room, written, needs) /\ attempt[t] + 1 = Attempts
  <2>1. /\ pc' = [pc EXCEPT ![t] = "idle"] /\ answer' = [answer EXCEPT ![t] = "unstable"]
        /\ copied' = [copied EXCEPT ![t] = Absent]
        /\ UNCHANGED <<value, attempt, moved, required>>
    BY <1>3 DEF Fill, Refuse, Leave
  <2>2. moved[t] = Attempts
    BY <1>1, <1>3, LimitsAssumption DEF Fits, Excused
  <2>3. CopyTypes'
    BY <2>1 DEF CopyInv, CopyTypes, Answers
  <2>4. AttemptsInv'
    BY <2>1 DEF CopyInv, CopyTypes, AttemptsInv, Excused
  <2>5. CopyIsWhole'
    BY <2>1, <2>2 DEF CopyInv, CopyTypes, CopyIsWhole
  <2> QED BY <2>3, <2>4, <2>5 DEF CopyInv
<1>4. CASE ~Fits(room, written, needs) /\ attempt[t] + 1 # Attempts
  <2>1. /\ attempt' = [attempt EXCEPT ![t] = @ + 1]
        /\ required' = [required EXCEPT ![t] = needs]
        /\ UNCHANGED <<value, pc, answer, copied, moved>>
    BY <1>4 DEF Fill
  <2>2. CopyTypes'
    BY <1>1, <2>1 DEF CopyInv, CopyTypes
  <2>3. Excused(t)'
    BY <1>1, <1>4, <2>1, LimitsAssumption DEF Fits, Excused, CopyInv, CopyTypes
  <2>4. AttemptsInv'
    <3> SUFFICES ASSUME NEW u \in Threads
                 PROVE  /\ (pc[u] = "sizing" => attempt[u] = 0)'
                        /\ (pc[u] = "filling" => Excused(u))'
      BY DEF AttemptsInv
    <3>1. CASE u = t
      BY <3>1, <2>1, <2>3 DEF Fill
    <3>2. CASE u # t
      BY <3>2, <2>1 DEF CopyInv, CopyTypes, AttemptsInv, Excused
    <3> QED BY <3>1, <3>2
  <2>5. CopyIsWhole'
    BY <2>1 DEF CopyInv, CopyIsWhole
  <2> QED BY <2>2, <2>4, <2>5 DEF CopyInv
<1> QED BY <1>2, <1>3, <1>4

LEMMA CopyChanges ==
    ASSUME CopyInv, NEW v \in Values, Change(v)
    PROVE  CopyInv'
<1>1. /\ value' = v /\ UNCHANGED <<pc, required, attempt, answer, copied>>
      /\ moved' = [t \in Threads |-> IF Inside(t) /\ moved[t] < Attempts
                                     THEN moved[t] + 1 ELSE moved[t]]
  BY DEF Change
<1>2. CopyTypes'
  BY <1>1, LimitsAssumption DEF CopyInv, CopyTypes
<1>3. AttemptsInv'
  <2> SUFFICES ASSUME NEW t \in Threads, pc[t] = "filling"
               PROVE  Excused(t)'
    BY <1>1 DEF AttemptsInv, CopyInv
  <2>1. /\ moved[t] \in 0..Attempts /\ attempt[t] \in Nat /\ Excused(t) /\ Inside(t)
        /\ attempt'[t] = attempt[t]
    BY <1>1 DEF CopyInv, CopyTypes, AttemptsInv, Inside
  <2>2. CASE moved[t] = Attempts
    BY <1>1, <2>1, <2>2, LimitsAssumption DEF Excused
  <2>3. CASE moved[t] # Attempts
    <3>1. moved'[t] = moved[t] + 1
      BY <1>1, <2>1, <2>3, LimitsAssumption
    <3> QED BY <2>1, <2>3, <3>1, LimitsAssumption DEF Excused
  <2> QED BY <2>2, <2>3
<1>4. CopyIsWhole'
  <2>1. \A t \in Threads : answer[t] = "unstable" => moved'[t] = Attempts
    BY <1>1, LimitsAssumption DEF CopyInv, CopyTypes, CopyIsWhole
  <2> QED BY <1>1, <2>1 DEF CopyInv, CopyIsWhole
<1> QED BY <1>2, <1>3, <1>4 DEF CopyInv

LEMMA CopyInvStep == CopyInv /\ [GateNext]_gateVars => CopyInv'
<1> SUFFICES ASSUME CopyInv, [GateNext]_gateVars PROVE CopyInv'
  OBVIOUS
<1>1. ASSUME NEW t \in Threads, CopyStep(t) PROVE CopyInv'
  <2>1. CASE Enter(t)
    BY <2>1, CopyEnters
  <2>2. CASE AskSize(t)
    <3>1. /\ pc[t] = "sizing" /\ required' = [required EXCEPT ![t] = value.size]
          /\ pc' = [pc EXCEPT ![t] = "filling"]
          /\ UNCHANGED <<value, attempt, answer, copied, moved>>
      BY <2>2 DEF AskSize
    <3>2. value.size \in Nat /\ attempt[t] = 0 /\ moved[t] \in Nat
      BY <3>1, SizesAreNumbers, LimitsAssumption DEF CopyInv, CopyTypes, AttemptsInv
    <3>3. CopyTypes'
      BY <3>1, <3>2 DEF CopyInv, CopyTypes
    <3>4. AttemptsInv'
      BY <3>1, <3>2 DEF CopyInv, CopyTypes, AttemptsInv, Excused
    <3>5. CopyIsWhole'
      BY <3>1 DEF CopyInv, CopyIsWhole
    <3> QED BY <3>3, <3>4, <3>5 DEF CopyInv
  <2>3. CASE SizeFails(t)
    BY <2>3, CopyRefused DEF SizeFails
  <2>4. CASE TooLarge(t)
    BY <2>4, CopyRefused DEF TooLarge
  <2>5. ASSUME NEW written \in Sizes, NEW needs \in Sizes, Fill(t, written, needs)
        PROVE  CopyInv'
    BY <2>5, CopyFills
  <2>6. CASE FillFails(t)
    BY <2>6, CopyRefused DEF FillFails
  <2> QED BY <1>1, <2>1, <2>2, <2>3, <2>4, <2>5, <2>6 DEF CopyStep
<1>2. CASE UNCHANGED gateVars
  BY <1>2 DEF gateVars, CopyInv, CopyTypes, AttemptsInv, Excused, CopyIsWhole
<1> QED BY <1>1, <1>2, CopyChanges DEF GateNext

(* What is copied was held by the provider, whole and within the limit,    *)
(* and a copy is given up only when the value changed as often as it was   *)
(* tried, for any threads, limits and values.                              *)
THEOREM CopiesAreWhole == GateSpec => []CopyIsWhole
<1>1. GateInit => CopyInv
  BY CopyInitially
<1>2. CopyInv /\ [GateNext]_gateVars => CopyInv'
  BY CopyInvStep
<1>3. CopyInv => CopyIsWhole
  BY DEF CopyInv
<1> QED BY <1>1, <1>2, <1>3, PTL DEF GateSpec

-----------------------------------------------------------------------------
(* The token                                                               *)

(* The tokens a worker can offer: no cost is other than a number.          *)
Tokens == {o \in Destinations \X Patterns \X ArcIds : ~IsNan(o[2])}

WordOf(o) == Pack(o[2], o[3])

TokenTypes ==
    /\ stateToken \in [Destinations -> Words \cup {EmptyWord}]
    /\ arcToken \in [ArcIds -> Words \cup {EmptyWord}]
    /\ storing \in [Workers -> Words \cup {Nothing}]
    /\ statesLeft \in [Workers -> SUBSET Destinations]
    /\ arcsLeft \in [Workers -> SUBSET ArcIds]
    /\ offered \subseteq Tokens

(* A state holds the word of an offer to it, and the lowest of them.       *)
StatesInv ==
    /\ \A s \in Destinations :
          stateToken[s] # EmptyWord => \E o \in OffersTo(s) : stateToken[s] = WordOf(o)
    /\ \A o \in offered :
          stateToken[o[1]] # EmptyWord /\ ~Below(WordOf(o), stateToken[o[1]])

(* Between resets, an arc whose calls overlapped none has one offer, and   *)
(* with it one word, in a frame.                                           *)
OffersAreUnique == \A o, p \in offered : o[3] = p[3] /\ o[3] \notin overlapped => o = p
OffersAreExpanded == \A o \in offered : o[3] \notin overlapped => o[3] \in expanded
StoringInv ==
    \A w \in Workers : storing[w] # Nothing /\ storing[w].low \notin overlapped =>
       \E o \in offered : storing[w] = WordOf(o)
FrameInv == OffersAreUnique /\ OffersAreExpanded /\ StoringInv /\ WinnersAreStored

(* While resets run, what such arcs left behind is still to be cleared.    *)
ClearingInv ==
    /\ \A a \in ArcIds \ overlapped :
          arcToken[a] # EmptyWord => \E w \in Workers : a \in arcsLeft[w]
    /\ \A o \in offered :
          o[3] \notin overlapped => \E w \in Workers : o[1] \in statesLeft[w]
    /\ \A w \in Workers : storing[w] # Nothing => storing[w].low \in overlapped

TokenInv == TokenTypes /\ StatesInv /\ (NoReset => FrameInv) /\ (~NoReset => ClearingInv)

(* A cost comes out of its word as it went in, and below no word.          *)
LEMMA PackFacts ==
    ASSUME NEW c \in Patterns, ~IsNan(c), NEW a \in ArcIds
    PROVE  /\ Pack(c, a) \in Words /\ Pack(c, a).low = a /\ CostOf(Pack(c, a)) = c
           /\ Pack(c, a) # EmptyWord /\ Below(Pack(c, a), EmptyWord)
           /\ Pack(c, a).high = Ordered(c)
<1>1. Ordered(c) \in Patterns /\ Ordered(c) < 2 * Half - 1
  BY HalfAssumption DEF Ordered, Patterns, IsNan, Magnitude
<1>2. Pack(c, a) = [high |-> Ordered(c), low |-> a]
  BY DEF Pack
<1>3. IF Ordered(c) < Half THEN c = 2 * Half - 1 - Ordered(c) ELSE c = Ordered(c) - Half
  BY HalfAssumption DEF Ordered, Patterns, IsNan, Magnitude
<1>4. CostOf(Pack(c, a)) = c
  BY <1>2, <1>3 DEF CostOf
<1>5. Pack(c, a) \in Words
  BY ONLY <1>1, <1>2, a \in ArcIds DEF Words
<1>6. Pack(c, a).low = a /\ Pack(c, a).high = Ordered(c)
  BY ONLY <1>2
<1>7. Ordered(c) \in Int /\ EmptyWord.high = 2 * Half - 1
  BY <1>1, HalfAssumption DEF Patterns, EmptyWord
<1>8. Pack(c, a) # EmptyWord /\ Below(Pack(c, a), EmptyWord)
  BY ONLY <1>1, <1>6, <1>7, HalfAssumption DEF Below
<1> QED BY <1>4, <1>5, <1>6, <1>8

(* Words compare the way the numbers in them do.                           *)
LEMMA OrderedFacts ==
    ASSUME NEW c \in Patterns, NEW d \in Patterns, ~IsNan(c), ~IsNan(d),
           Ordered(d) <= Ordered(c)
    PROVE  Number(d) <= Number(c)
BY HalfAssumption DEF Ordered, Patterns, IsNan, Magnitude, Number

LEMMA BelowFacts ==
    ASSUME NEW u \in Words \cup {EmptyWord}, NEW v \in Words \cup {EmptyWord},
           NEW w \in Words \cup {EmptyWord}
    PROVE  /\ ~Below(u, u)
           /\ ~Below(u, v) => v.high <= u.high
           /\ ~Below(u, v) /\ Below(w, v) => ~Below(u, w)
<1>1. \A x \in Words \cup {EmptyWord} : x.high \in Int /\ x.low \in Int
  BY HalfAssumption, ArcCountAssumption DEF Words, EmptyWord, Patterns, ArcIds
<1> QED BY <1>1 DEF Below

LEMMA WordFacts ==
    ASSUME NEW o \in Tokens
    PROVE  /\ WordOf(o) \in Words /\ WordOf(o).low = o[3] /\ CostOf(WordOf(o)) = o[2]
           /\ WordOf(o) # EmptyWord /\ WordOf(o) # Nothing /\ Below(WordOf(o), EmptyWord)
           /\ o = <<o[1], o[2], o[3]>> /\ o[1] \in Destinations /\ o[3] \in ArcIds
BY PackFacts, NothingAssumption DEF Tokens, WordOf

LEMMA TokenInitially == TokenInit => TokenInv
BY DEF TokenInit, TokenInv, TokenTypes, StatesInv, NoReset, Resetting, FrameInv,
       OffersAreUnique, OffersAreExpanded, StoringInv, WinnersAreStored, OffersTo

(* When the last reset has ended, nothing is left of any such arc.         *)
LEMMA ResetEnds == (TokenTypes /\ StatesInv /\ ClearingInv /\ NoReset)' => FrameInv'
<1> SUFFICES ASSUME TokenTypes', StatesInv', ClearingInv', NoReset' PROVE FrameInv'
  OBVIOUS
<1>1. \A w \in Workers : statesLeft'[w] = {} /\ arcsLeft'[w] = {}
  BY DEF NoReset, Resetting
<1>2. \A o \in offered' : o[3] \in overlapped'
  BY <1>1 DEF ClearingInv
<1>3. \A w \in Workers : storing'[w] # Nothing => storing'[w].low \in overlapped'
  BY DEF ClearingInv
<1>4. \A a \in ArcIds \ overlapped' : arcToken'[a] = EmptyWord
  BY <1>1 DEF ClearingInv
<1>5. ASSUME NEW s \in Destinations, stateToken'[s] # EmptyWord
      PROVE  stateToken'[s].low \in overlapped'
  <2>1. PICK o \in offered' : stateToken'[s] = WordOf(o)
    BY <1>5 DEF StatesInv, OffersTo
  <2>2. WordOf(o).low = o[3]
    BY <2>1, WordFacts DEF TokenTypes
  <2> QED BY <1>2, <2>1, <2>2
<1>6. WinnersAreStored'
  BY <1>4, <1>5 DEF WinnersAreStored
<1> QED BY <1>2, <1>3, <1>6 DEF FrameInv, OffersAreUnique, OffersAreExpanded, StoringInv

LEMMA TokenOffered ==
    ASSUME TokenInv, NEW w \in Workers, NEW s \in Destinations, NEW c \in Patterns,
           NEW arc \in ArcIds, Offer(w, s, c, arc), ~IsNan(c)
    PROVE  TokenInv'
<1> DEFINE o == <<s, c, arc>>
           word == WordOf(o)
           wins == Below(word, stateToken[s])
<1>1. o \in Tokens /\ o[1] = s /\ o[2] = c /\ o[3] = arc /\ word = Pack(c, arc)
  BY DEF Tokens, WordOf
<1>2. /\ word \in Words /\ word # EmptyWord /\ word # Nothing /\ Below(word, EmptyWord)
      /\ word.low = arc
  BY <1>1, WordFacts
<1>3. /\ stateToken' = [stateToken EXCEPT ![s] = IF wins THEN word ELSE @]
      /\ storing' = [storing EXCEPT ![w] = IF wins THEN word ELSE Nothing]
      /\ offered' = offered \cup {o} /\ arcToken' = arcToken
      /\ expanded' = expanded \cup {arc}
      /\ overlapped' = IF NoReset THEN overlapped ELSE overlapped \cup {arc}
      /\ storing[w] = Nothing /\ arc \notin expanded
      /\ UNCHANGED <<statesLeft, arcsLeft>>
  <2>1. storing[w] = Nothing /\ arc \notin expanded
    BY DEF Offer, AtRest, Unexpanded
  <2>2. arcToken' = arcToken /\ UNCHANGED <<statesLeft, arcsLeft>>
    BY DEF Offer, clearing
  <2>3. /\ offered' = offered \cup {o} /\ expanded' = expanded \cup {arc}
        /\ overlapped' = IF NoReset THEN overlapped ELSE overlapped \cup {arc}
    BY DEF Offer
  <2>4. /\ stateToken' = [stateToken EXCEPT ![s] = IF wins THEN word ELSE @]
        /\ storing' = [storing EXCEPT ![w] = IF wins THEN word ELSE Nothing]
    BY <1>1 DEF Offer
  <2> QED BY <2>1, <2>2, <2>3, <2>4
<1>4. /\ stateToken[s] \in Words \cup {EmptyWord}
      /\ stateToken \in [Destinations -> Words \cup {EmptyWord}]
      /\ storing \in [Workers -> Words \cup {Nothing}]
      /\ offered \subseteq Tokens
  BY DEF TokenInv, TokenTypes
<1>5. TokenTypes'
  BY <1>1, <1>2, <1>3 DEF TokenInv, TokenTypes
<1> HIDE DEF o, word, wins
<1>6. wins \/ stateToken[s] # EmptyWord
  BY <1>2 DEF wins
<1>7. StatesInv'
  <2>1. ASSUME NEW d \in Destinations, stateToken'[d] # EmptyWord
        PROVE  \E p \in offered' : p[1] = d /\ stateToken'[d] = WordOf(p)
    <3>1. CASE d = s /\ wins
      <4>1. stateToken'[d] = word /\ word = WordOf(o)
        BY <1>3, <1>4, <3>1 DEF word
      <4> QED BY <1>1, <1>3, <3>1, <4>1
    <3>2. CASE ~(d = s /\ wins)
      <4>1. stateToken'[d] = stateToken[d]
        BY <1>3, <1>4, <3>2
      <4> QED BY <1>3, <2>1, <4>1 DEF TokenInv, StatesInv, OffersTo
    <3> QED BY <3>1, <3>2
  <2>2. ASSUME NEW p \in offered'
        PROVE  stateToken'[p[1]] # EmptyWord /\ ~Below(WordOf(p), stateToken'[p[1]])
    <3>1. p \in Tokens /\ p[1] \in Destinations
      BY <2>2, <1>1, <1>3, <1>4 DEF Tokens
    <3>2. WordOf(p) \in Words
      BY <3>1, WordFacts
    <3>3. CASE p[1] = s /\ wins
      <4>1. stateToken'[p[1]] = word
        BY <1>3, <1>4, <3>3
      <4>2. ~Below(word, word)
        BY <1>2, BelowFacts
      <4>3. p \in offered => ~Below(WordOf(p), stateToken[s])
        BY <3>3 DEF TokenInv, StatesInv
      <4>4. Below(word, stateToken[s])
        BY <3>3 DEF wins
      <4>5. p \in offered => ~Below(WordOf(p), word)
        BY <1>2, <1>4, <3>2, <4>3, <4>4, BelowFacts
      <4>6. p = o => WordOf(p) = word
        BY DEF word
      <4> QED BY <1>2, <1>3, <2>2, <4>1, <4>2, <4>5, <4>6
    <3>4. CASE ~(p[1] = s /\ wins)
      <4>1. stateToken'[p[1]] = stateToken[p[1]]
        BY <1>3, <1>4, <3>1, <3>4
      <4>2. CASE p \in offered
        BY <4>1, <4>2 DEF TokenInv, StatesInv
      <4>3. CASE p = o
        BY <1>1, <1>6, <3>4, <4>1, <4>3 DEF wins, word
      <4> QED BY <1>3, <2>2, <4>2, <4>3
    <3> QED BY <3>3, <3>4
  <2> QED BY <2>1, <2>2 DEF StatesInv, OffersTo
<1>8. NoReset' = NoReset
  BY <1>3 DEF NoReset, Resetting
<1>9. ASSUME NoReset PROVE FrameInv'
  <2>1. FrameInv /\ overlapped' = overlapped
    BY <1>3, <1>9 DEF TokenInv
  <2>2. \A p \in offered : p[3] \notin overlapped => p[3] # arc
    BY <1>3, <2>1 DEF FrameInv, OffersAreExpanded
  <2>3. OffersAreUnique' /\ OffersAreExpanded'
    BY <1>1, <1>3, <2>1, <2>2 DEF FrameInv, OffersAreUnique, OffersAreExpanded
  <2>4. StoringInv'
    <3> SUFFICES ASSUME NEW v \in Workers, storing'[v] # Nothing,
                        storing'[v].low \notin overlapped
                 PROVE  \E p \in offered' : storing'[v] = WordOf(p)
      BY <2>1 DEF StoringInv
    <3>1. CASE v = w
      BY <1>3, <1>4, <3>1 DEF word
    <3>2. CASE v # w
      BY <1>3, <1>4, <2>1, <3>2 DEF FrameInv, StoringInv
    <3> QED BY <3>1, <3>2
  <2>5. ASSUME NEW a \in ArcIds \ overlapped, NEW d \in Destinations,
               stateToken'[d] # EmptyWord, stateToken'[d].low = a
        PROVE  \/ arcToken'[a] = stateToken'[d]
               \/ \E v \in Workers : storing'[v] = stateToken'[d]
    <3>1. CASE d = s /\ wins
      <4>1. stateToken'[d] = word /\ storing'[w] = word
        BY <1>3, <1>4, <3>1
      <4> QED BY <4>1
    <3>2. CASE ~(d = s /\ wins)
      <4>1. stateToken'[d] = stateToken[d] /\ stateToken[d] \in Words
        BY <1>3, <1>4, <2>5, <3>2
      <4>2. \A v \in Workers : storing[v] = stateToken[d] => storing'[v] = stateToken[d]
        BY <1>3, <1>4, <4>1, NothingAssumption
      <4>3. \/ arcToken[a] = stateToken[d]
            \/ \E v \in Workers : storing[v] = stateToken[d]
        BY <1>9, <2>1, <2>5, <4>1 DEF FrameInv, WinnersAreStored
      <4> QED BY <1>3, <4>1, <4>2, <4>3
    <3> QED BY <3>1, <3>2
  <2>6. ASSUME NEW a \in ArcIds \ overlapped, arcToken'[a] # EmptyWord
        PROVE  \E p \in offered' : p[3] = a /\ Pack(p[2], a) = arcToken'[a]
    BY <1>3, <1>9, <2>1, <2>6 DEF FrameInv, WinnersAreStored
  <2>7. WinnersAreStored'
    BY <2>1, <2>5, <2>6 DEF WinnersAreStored
  <2> QED BY <2>3, <2>4, <2>7 DEF FrameInv
<1>10. ASSUME ~NoReset PROVE ClearingInv'
  <2>1. ClearingInv /\ overlapped' = overlapped \cup {arc}
    BY <1>3, <1>10 DEF TokenInv
  <2>2. \A p \in offered' : p[3] \notin overlapped' => \E v \in Workers : p[1] \in statesLeft'[v]
    BY <1>1, <1>3, <2>1 DEF ClearingInv
  <2>3. ASSUME NEW v \in Workers, storing'[v] # Nothing
        PROVE  storing'[v].low \in overlapped'
    <3>1. CASE v = w
      BY <1>2, <1>3, <1>4, <2>1, <2>3, <3>1
    <3>2. CASE v # w
      BY <1>3, <1>4, <2>1, <2>3, <3>2 DEF ClearingInv
    <3> QED BY <3>1, <3>2
  <2>4. \A a \in ArcIds \ overlapped' :
           arcToken'[a] # EmptyWord => \E v \in Workers : a \in arcsLeft'[v]
    BY <1>3, <2>1 DEF ClearingInv
  <2> QED BY <2>2, <2>3, <2>4 DEF ClearingInv
<1> QED BY <1>5, <1>7, <1>8, <1>9, <1>10 DEF TokenInv

LEMMA TokenStored ==
    ASSUME TokenInv, NEW w \in Workers, Store(w)
    PROVE  TokenInv'
<1> DEFINE word == storing[w]
<1>1. /\ word # Nothing
      /\ arcToken' = [arcToken EXCEPT ![word.low] = word]
      /\ storing' = [storing EXCEPT ![w] = Nothing]
      /\ UNCHANGED <<stateToken, statesLeft, arcsLeft, offered, expanded, overlapped>>
  BY DEF Store, clearing
<1>2. /\ stateToken \in [Destinations -> Words \cup {EmptyWord}]
      /\ arcToken \in [ArcIds -> Words \cup {EmptyWord}]
      /\ storing \in [Workers -> Words \cup {Nothing}]
      /\ offered \subseteq Tokens
  BY DEF TokenInv, TokenTypes
<1>3. word \in Words /\ word.low \in ArcIds
  BY <1>1, <1>2 DEF Words
<1> HIDE DEF word
<1>4. TokenTypes'
  BY <1>1, <1>2, <1>3 DEF TokenInv, TokenTypes
<1>5. StatesInv' /\ NoReset' = NoReset
  BY <1>1 DEF TokenInv, StatesInv, OffersTo, NoReset, Resetting
<1>6. /\ \A a \in ArcIds : a # word.low => arcToken'[a] = arcToken[a]
      /\ arcToken'[word.low] = word
      /\ \A v \in Workers : v # w => storing'[v] = storing[v]
      /\ storing'[w] = Nothing /\ storing[w] = word
  BY <1>1, <1>2, <1>3 DEF word
<1>7. ASSUME NoReset PROVE FrameInv'
  <2>1. FrameInv
    BY <1>7 DEF TokenInv
  <2>2. word.low \notin overlapped => \E o \in offered : word = WordOf(o)
    BY <1>1, <1>6, <2>1 DEF FrameInv, StoringInv
  <2>3. OffersAreUnique' /\ OffersAreExpanded'
    BY <1>1, <2>1 DEF FrameInv, OffersAreUnique, OffersAreExpanded
  <2>4. StoringInv'
    BY <1>1, <1>6, <2>1 DEF FrameInv, StoringInv
  <2>5. ASSUME NEW a \in ArcIds \ overlapped, NEW d \in Destinations,
               stateToken[d] # EmptyWord, stateToken[d].low = a
        PROVE  \/ arcToken'[a] = stateToken[d]
               \/ \E v \in Workers : storing'[v] = stateToken[d]
    <3>1. PICK p \in offered : stateToken[d] = WordOf(p)
      BY <2>5 DEF TokenInv, StatesInv, OffersTo
    <3>2. p[3] = a
      BY <1>2, <2>5, <3>1, WordFacts
    <3>3. CASE word.low = a
      <4>1. PICK o \in offered : word = WordOf(o)
        BY <2>2, <3>3
      <4>2. o[3] = a
        BY <1>2, <3>3, <4>1, WordFacts
      <4>3. o = p
        BY <2>1, <3>2, <4>2 DEF FrameInv, OffersAreUnique
      <4> QED BY <1>6, <3>1, <3>3, <4>1, <4>3
    <3>4. CASE word.low # a
      <4>1. arcToken'[a] = arcToken[a] /\ stateToken[d] # word
        BY <1>6, <2>5, <3>4
      <4>2. \/ arcToken[a] = stateToken[d]
            \/ \E v \in Workers : storing[v] = stateToken[d]
        BY <1>7, <2>1, <2>5 DEF FrameInv, WinnersAreStored
      <4> QED BY <1>6, <4>1, <4>2
    <3> QED BY <3>3, <3>4
  <2>6. ASSUME NEW a \in ArcIds \ overlapped, arcToken'[a] # EmptyWord
        PROVE  \E p \in offered : p[3] = a /\ Pack(p[2], a) = arcToken'[a]
    <3>1. CASE word.low = a
      <4>1. PICK o \in offered : word = WordOf(o)
        BY <2>2, <3>1
      <4>2. o[3] = a
        BY <1>2, <3>1, <4>1, WordFacts
      <4> QED BY <1>6, <3>1, <4>1, <4>2 DEF WordOf
    <3>2. CASE word.low # a
      BY <1>6, <1>7, <2>1, <2>6, <3>2 DEF FrameInv, WinnersAreStored
    <3> QED BY <3>1, <3>2
  <2>7. WinnersAreStored'
    BY <1>1, <2>5, <2>6 DEF WinnersAreStored
  <2> QED BY <2>3, <2>4, <2>7 DEF FrameInv
<1>8. ASSUME ~NoReset PROVE ClearingInv'
  <2>1. ClearingInv /\ word.low \in overlapped
    BY <1>1, <1>6, <1>8 DEF TokenInv, ClearingInv
  <2> QED BY <1>1, <1>6, <2>1 DEF ClearingInv
<1> QED BY <1>4, <1>5, <1>7, <1>8 DEF TokenInv

(* A reset leaves everything to be cleared, and then clears it.            *)
LEMMA TokenResetBegins ==
    ASSUME TokenInv, NEW w \in Workers, BeginReset(w)
    PROVE  TokenInv'
<1>1. /\ statesLeft' = [statesLeft EXCEPT ![w] = Destinations]
      /\ arcsLeft' = [arcsLeft EXCEPT ![w] = ArcIds]
      /\ overlapped' = {storing[v].low : v \in {u \in Workers : storing[u] # Nothing}}
      /\ UNCHANGED <<stateToken, arcToken, storing, offered>>
  BY DEF BeginReset, ClearedArcs
<1>2. TokenTypes' /\ StatesInv'
  BY <1>1 DEF TokenInv, TokenTypes, StatesInv, OffersTo
<1>3. statesLeft'[w] = Destinations /\ arcsLeft'[w] = ArcIds /\ offered \subseteq Tokens
  BY <1>1 DEF TokenInv, TokenTypes
<1>4. \A o \in offered : o[1] \in Destinations
  BY <1>3 DEF Tokens
<1>5. ClearingInv'
  BY <1>1, <1>3, <1>4 DEF ClearingInv
<1> QED BY <1>2, <1>5, ResetEnds DEF TokenInv

LEMMA TokenStateCleared ==
    ASSUME TokenInv, NEW w \in Workers, NEW s \in Destinations, ClearState(w, s)
    PROVE  TokenInv'
<1>1. /\ s \in statesLeft[w]
      /\ statesLeft' = [statesLeft EXCEPT ![w] = @ \ {s}]
      /\ stateToken' = [stateToken EXCEPT ![s] = EmptyWord]
      /\ offered' = {o \in offered : o[1] # s}
      /\ UNCHANGED <<arcToken, storing, arcsLeft, expanded, overlapped>>
  BY DEF ClearState
<1>2. /\ stateToken \in [Destinations -> Words \cup {EmptyWord}]
      /\ statesLeft \in [Workers -> SUBSET Destinations]
      /\ offered \subseteq Tokens
  BY DEF TokenInv, TokenTypes
<1>3. TokenTypes'
  BY <1>1, <1>2 DEF TokenInv, TokenTypes
<1>4. /\ \A d \in Destinations : d # s => stateToken'[d] = stateToken[d]
      /\ stateToken'[s] = EmptyWord
  BY <1>1, <1>2
<1>5. \A o \in offered : o[1] \in Destinations
  BY <1>2 DEF Tokens
<1>6. StatesInv'
  BY <1>1, <1>4, <1>5 DEF TokenInv, StatesInv, OffersTo
<1>7. ~NoReset /\ ClearingInv
  BY <1>1 DEF TokenInv, NoReset, Resetting
<1>8. \A v \in Workers : \A d \in statesLeft[v] : d # s => d \in statesLeft'[v]
  BY <1>1, <1>2
<1>9. ClearingInv'
  BY <1>1, <1>7, <1>8 DEF ClearingInv
<1> QED BY <1>3, <1>6, <1>9, ResetEnds DEF TokenInv

LEMMA TokenArcCleared ==
    ASSUME TokenInv, NEW w \in Workers, NEW a \in ArcIds, ClearArc(w, a)
    PROVE  TokenInv'
<1>1. /\ a \in arcsLeft[w]
      /\ arcsLeft' = [arcsLeft EXCEPT ![w] = @ \ {a}]
      /\ arcToken' = [arcToken EXCEPT ![a] = EmptyWord]
      /\ UNCHANGED <<stateToken, storing, statesLeft, offered, expanded, overlapped>>
  BY DEF ClearArc
<1>2. /\ arcToken \in [ArcIds -> Words \cup {EmptyWord}]
      /\ arcsLeft \in [Workers -> SUBSET ArcIds]
  BY DEF TokenInv, TokenTypes
<1>3. TokenTypes' /\ StatesInv'
  BY <1>1, <1>2 DEF TokenInv, TokenTypes, StatesInv, OffersTo
<1>4. ~NoReset /\ ClearingInv
  BY <1>1 DEF TokenInv, NoReset, Resetting
<1>5. /\ \A b \in ArcIds : arcToken'[b] # EmptyWord => b # a /\ arcToken[b] # EmptyWord
      /\ \A v \in Workers : \A b \in arcsLeft[v] : b # a => b \in arcsLeft'[v]
  BY <1>1, <1>2
<1>6. ClearingInv'
  BY <1>1, <1>4, <1>5 DEF ClearingInv
<1> QED BY <1>3, <1>6, ResetEnds DEF TokenInv

LEMMA TokenStep == TokenInv /\ [TokenNext]_tokenVars => TokenInv'
<1> SUFFICES ASSUME TokenInv, [TokenNext]_tokenVars PROVE TokenInv'
  OBVIOUS
<1>1. ASSUME UNCHANGED tokenVars PROVE TokenInv'
  BY <1>1 DEF tokenVars, clearing, TokenInv, TokenTypes, StatesInv, OffersTo, NoReset, Resetting,
              FrameInv, OffersAreUnique, OffersAreExpanded, StoringInv, WinnersAreStored,
              ClearingInv
<1>2. ASSUME NEW w \in Workers, NEW s \in Destinations, NEW c \in Patterns,
             NEW arc \in ArcIds, Offer(w, s, c, arc)
      PROVE  TokenInv'
  <2>1. CASE IsNan(c)
    BY <1>1, <1>2, <2>1 DEF Offer, tokenVars
  <2> QED BY <1>2, <2>1, TokenOffered
<1>3. ASSUME NEW w \in Workers, Store(w) PROVE TokenInv'
  BY <1>3, TokenStored
<1>4. ASSUME NEW w \in Workers, BeginReset(w) PROVE TokenInv'
  BY <1>4, TokenResetBegins
<1>5. ASSUME NEW w \in Workers, NEW s \in Destinations, ClearState(w, s) PROVE TokenInv'
  BY <1>5, TokenStateCleared
<1>6. ASSUME NEW w \in Workers, NEW a \in ArcIds, ClearArc(w, a) PROVE TokenInv'
  BY <1>6, TokenArcCleared
<1> QED BY <1>1, <1>2, <1>3, <1>4, <1>5, <1>6 DEF TokenNext

LEMMA LowestIsCheapest == TokenInv => CheapestSurvives
<1> SUFFICES ASSUME TokenInv, NEW s \in Destinations
             PROVE  IF OffersTo(s) = {} THEN stateToken[s] = EmptyWord
                    ELSE /\ stateToken[s] # EmptyWord
                         /\ <<s, CostOf(stateToken[s]), stateToken[s].low>> \in offered
                         /\ \A o \in OffersTo(s) :
                               Number(CostOf(stateToken[s])) <= Number(o[2])
  BY DEF CheapestSurvives
<1>1. CASE OffersTo(s) = {}
  BY <1>1 DEF TokenInv, StatesInv
<1>2. CASE OffersTo(s) # {}
  <2>1. stateToken[s] # EmptyWord
    BY <1>2 DEF TokenInv, StatesInv, OffersTo
  <2>2. PICK p \in offered : p[1] = s /\ stateToken[s] = WordOf(p)
    BY <2>1 DEF TokenInv, StatesInv, OffersTo
  <2>3. offered \subseteq Tokens
    BY DEF TokenInv, TokenTypes
  <2>4. /\ CostOf(stateToken[s]) = p[2] /\ stateToken[s].low = p[3]
        /\ p = <<p[1], p[2], p[3]>> /\ stateToken[s] \in Words
    BY <2>2, <2>3, WordFacts
  <2>5. ASSUME NEW o \in OffersTo(s) PROVE Number(p[2]) <= Number(o[2])
    <3>1. o \in Tokens /\ p \in Tokens /\ ~Below(WordOf(o), stateToken[s])
      BY <2>3 DEF OffersTo, TokenInv, StatesInv
    <3>2. /\ o[2] \in Patterns /\ ~IsNan(o[2]) /\ o[3] \in ArcIds
          /\ p[2] \in Patterns /\ ~IsNan(p[2]) /\ p[3] \in ArcIds
      BY <3>1 DEF Tokens
    <3>3. WordOf(o).high = Ordered(o[2]) /\ WordOf(p).high = Ordered(p[2])
      BY <3>2, PackFacts DEF WordOf
    <3>4. WordOf(o) \in Words /\ WordOf(p) \in Words
      BY <3>1, WordFacts
    <3>5. WordOf(p).high <= WordOf(o).high
      BY <2>2, <3>1, <3>4, BelowFacts
    <3> QED BY <3>2, <3>3, <3>5, OrderedFacts
  <2> QED BY <1>2, <2>1, <2>2, <2>4, <2>5
<1> QED BY <1>1, <1>2

(* However the workers' minima, stores and resets interleave, a state      *)
(* keeps the cheapest token offered to it since it was cleared, at the     *)
(* cost it was offered at, for any workers, states, arcs and width of a    *)
(* cost.                                                                   *)
THEOREM CheapestAlwaysSurvives == TokenSpec => []CheapestSurvives
<1>1. TokenInit => TokenInv
  BY TokenInitially
<1>2. TokenInv /\ [TokenNext]_tokenVars => TokenInv'
  BY TokenStep
<1>3. TokenInv => CheapestSurvives
  BY LowestIsCheapest
<1> QED BY <1>1, <1>2, <1>3, PTL DEF TokenSpec

(* Once no reset runs, and for every arc of which no call overlapped one:  *)
(* a survivor's token is in its slot or about to be stored, and the slot   *)
(* holds no token of another frame.                                        *)
THEOREM WinnersAlwaysStored == TokenSpec => []WinnersAreStored
<1>1. TokenInit => TokenInv
  BY TokenInitially
<1>2. TokenInv /\ [TokenNext]_tokenVars => TokenInv'
  BY TokenStep
<1>3. TokenInv => WinnersAreStored
  BY DEF TokenInv, FrameInv, WinnersAreStored
<1> QED BY <1>1, <1>2, <1>3, PTL DEF TokenSpec

-----------------------------------------------------------------------------
(* The recency list                                                        *)

(* The linked list is well formed and its walk is the plain sequence.      *)
LruInv ==
    /\ Threaded(storage, Ids, {Payload})
    /\ RecencyOrder(storage) = recency

LEMMA RecencyInitially == LruInit => LruInv
<1> SUFFICES ASSUME LruInit PROVE LruInv
  OBVIOUS
<1>1. PICK c \in Capacities : storage = EmptyStorage(c)
  BY DEF LruInit
<1>2. c \in Nat \ {0}
  BY CapacityAssumption
<1> QED BY <1>1, <1>2, EmptyIsThreaded DEF LruInit, LruInv

LEMMA RecencyStep == LruInv /\ [LruNext]_lruVars => LruInv'
<1> SUFFICES ASSUME LruInv, [LruNext]_lruVars PROVE LruInv'
  OBVIOUS
<1>1. Threaded(storage, Ids, {Payload}) /\ RecencyOrder(storage) = recency
  BY DEF LruInv
<1>2. ASSUME NEW i \in Ids, TouchResident(i) PROVE LruInv'
  <2>1. i \in Residents(storage) /\ storage' = TouchSlot(storage, storage.entries[i].slot)
    BY <1>2 DEF TouchResident, TouchOf
  <2>2. Threaded(storage', Ids, {Payload})
    BY <1>1, <2>1, TouchIsMove
  <2>3. PICK m \in 1..Len(recency) :
           /\ recency[m] = i
           /\ RecencyOrder(storage') = Append(RemoveAt(recency, m), i)
    BY <1>1, <2>1, TouchIsMove
  <2>4. PICK n \in 1..Len(recency) :
           recency[n] = i /\ recency' = Append(RemoveAt(recency, n), i)
    BY <1>2 DEF TouchResident
  <2>5. m = n
    <3>1. Len(recency) = storage.len
      BY <1>1, OrderIsSequence
    <3> QED BY <1>1, <2>3, <2>4, <3>1, RecencyListsResidents
  <2> QED BY <2>2, <2>3, <2>4, <2>5 DEF LruInv
<1>3. ASSUME NEW i \in Ids, InsertAbsent(i) PROVE LruInv'
  <2>1. i \notin Residents(storage) /\ storage' = InsertId(storage, i, Payload)
    BY <1>3 DEF InsertAbsent
  <2>2. Payload \in {Payload}
    OBVIOUS
  <2>3. Threaded(storage', Ids, {Payload})
    BY <1>1, <2>1, <2>2, InsertIsAppend
  <2>4. RecencyOrder(InsertId(storage, i, Payload)) =
           Append(IF Len(RecencyOrder(storage)) = storage.capacity
                  THEN Tail(RecencyOrder(storage)) ELSE RecencyOrder(storage), i)
    BY <1>1, <2>1, <2>2, InsertIsAppend
  <2> QED BY <1>1, <1>3, <2>1, <2>3, <2>4 DEF InsertAbsent, LruInv
<1>4. CASE UNCHANGED lruVars
  BY <1>1, <1>4 DEF lruVars, LruInv
<1> QED BY <1>2, <1>3, <1>4 DEF LruNext

(* Walking the links yields exactly the order a plain sequence keeps, for  *)
(* any capacity and any calls (lru.rs, touch and insert).                  *)
THEOREM ListIsRecency == LruSpec => []RecencyIsExact
<1>1. LruInv => RecencyIsExact
  BY ThreadedIsChecked DEF LruInv, RecencyIsExact
<1> QED BY <1>1, RecencyInitially, RecencyStep, PTL DEF LruSpec

-----------------------------------------------------------------------------
(* The capture of a graph: the numbers of its states                       *)

Fanout(m, s) == Len(m.data[s].arcs)
Target(m, s, i) == m.data[s].arcs[i].target

(* A machine in terms of places and targets.                              *)
LEMMA GraphFacts ==
    ASSUME NEW m, IsGraph(m)
    PROVE  /\ m.start \in DOMAIN m.data
           /\ \A s \in DOMAIN m.data :
                 /\ Fanout(m, s) \in Nat /\ DOMAIN m.data[s].arcs = 1..Fanout(m, s)
                 /\ m.data[s].arcs \in Seq(Range(m.data[s].arcs))
                 /\ \A i \in 1..Fanout(m, s) :
                       /\ Target(m, s, i) \in DOMAIN m.data
                       /\ m.data[s].arcs[i] = [target |-> Target(m, s, i),
                                              weight |-> m.data[s].arcs[i].weight]
<1>1. ASSUME NEW s \in DOMAIN m.data
      PROVE  /\ Fanout(m, s) \in Nat /\ DOMAIN m.data[s].arcs = 1..Fanout(m, s)
             /\ m.data[s].arcs \in Seq(Range(m.data[s].arcs))
             /\ \A i \in 1..Fanout(m, s) :
                   /\ Target(m, s, i) \in DOMAIN m.data
                   /\ m.data[s].arcs[i] = [target |-> Target(m, s, i),
                                          weight |-> m.data[s].arcs[i].weight]
  <2> DEFINE arcs == m.data[s].arcs
             W == {arc.weight : arc \in Range(arcs)}
             A == [target : DOMAIN m.data, weight : W]
  <2>1. arcs \in Seq(A)
    BY DEF IsGraph
  <2>2. \A a \in A : a.target \in DOMAIN m.data /\ a = [target |-> a.target, weight |-> a.weight]
    <3> HIDE DEF W
    <3> QED
      OBVIOUS
  <2> HIDE DEF A, arcs
  <2>3. Len(arcs) \in Nat /\ DOMAIN arcs = 1..Len(arcs) /\ \A i \in 1..Len(arcs) : arcs[i] \in A
    BY ONLY <2>1
  <2>4. arcs \in Seq(Range(arcs))
    BY ONLY <2>1, <2>3 DEF Range
  <2> QED
    BY ONLY <2>2, <2>3, <2>4 DEF Fanout, Target, arcs
<1> QED
  BY <1>1 DEF IsGraph

(* A hop that leaves s, said by its place.                                 *)
LEMMA LeavingByPlace ==
    ASSUME NEW m, NEW S, S \subseteq DOMAIN m.data
    PROVE  /\ \A h \in Leaving(m, S) :
                 /\ h.from \in S /\ h.via \in 1..Fanout(m, h.from)
                 /\ Taken(m, h).target = Target(m, h.from, h.via)
           /\ \A s \in S : \A i \in 1..Fanout(m, s) :
                 /\ [from |-> s, via |-> i] \in Leaving(m, S)
                 /\ Taken(m, [from |-> s, via |-> i]).target = Target(m, s, i)
  BY DEF Leaving, Hops, HopsOf, Taken, Target, Fanout

(* What can be found holds the start, goes wherever its arcs lead, and is  *)
(* part of every set of states that does.                                  *)
LEMMA FoundFacts ==
    ASSUME NEW m, IsGraph(m)
    PROVE  /\ Found(m) \subseteq DOMAIN m.data /\ m.start \in Found(m)
           /\ \A s \in Found(m) : \A i \in 1..Fanout(m, s) : Target(m, s, i) \in Found(m)
           /\ \A S \in SUBSET DOMAIN m.data :
                 /\ m.start \in S
                 /\ \A s \in S : \A i \in 1..Fanout(m, s) : Target(m, s, i) \in S
                 => Found(m) \subseteq S
<1>1. Found(m) \subseteq DOMAIN m.data
  BY DEF Found
<1>2. m.start \in Found(m)
  BY GraphFacts DEF Found
<1>3. ASSUME NEW s \in Found(m), NEW i \in 1..Fanout(m, s)
      PROVE  Target(m, s, i) \in Found(m)
  <2>1. s \in DOMAIN m.data /\ Target(m, s, i) \in DOMAIN m.data
    BY <1>1, GraphFacts
  <2>2. ASSUME NEW S \in SUBSET DOMAIN m.data, m.start \in S,
               \A h \in Leaving(m, S) : Taken(m, h).target \in S
        PROVE  Target(m, s, i) \in S
    <3>1. s \in S
      BY <2>2 DEF Found
    <3>2. [from |-> s, via |-> i] \in Leaving(m, S)
      BY <3>1, LeavingByPlace
    <3> QED
      BY <2>2, <3>1, <3>2, LeavingByPlace
  <2> QED
    BY <2>1, <2>2 DEF Found
<1>4. ASSUME NEW S \in SUBSET DOMAIN m.data, m.start \in S,
             \A s \in S : \A i \in 1..Fanout(m, s) : Target(m, s, i) \in S
      PROVE  Found(m) \subseteq S
  <2>1. \A h \in Leaving(m, S) : Taken(m, h).target \in S
    BY <1>4, LeavingByPlace
  <2> QED
    BY <1>4, <2>1 DEF Found
<1> QED
  BY ONLY <1>1, <1>2, <1>3, <1>4

(* The states numbered so far, d of them read: each has one number, and    *)
(* those that the read ones lead to have one.                              *)
Numbered(m, R, d) ==
    /\ R \in Seq(Found(m)) /\ Len(R) >= 1 /\ d \in 0..Len(R) /\ R[1] = m.start
    /\ \A j, k \in 1..Len(R) : R[j] = R[k] => j = k
    /\ \A p \in 1..d : \A i \in 1..Fanout(m, R[p]) : \E k \in 1..Len(R) : R[k] = Target(m, R[p], i)

(* Numbers are given in reading order.                                     *)
InReadingOrder(m, R, d) ==
    /\ \A k \in 2..Len(R) : \E p \in 1..d : \E i \in 1..Fanout(m, R[p]) : Target(m, R[p], i) = R[k]
    /\ \A q \in 1..d, k \in 3..Len(R) : \A l \in 1..Fanout(m, R[q]) :
          Target(m, R[q], l) = R[k] =>
             \E p \in 1..q : \E i \in 1..Fanout(m, R[p]) :
                Target(m, R[p], i) = R[k - 1] /\ (p < q \/ i < l)

(* F lists the states that s is the first to lead to.                      *)
Discovers(m, R, s, F) ==
    /\ F \in Seq(DOMAIN m.data)
    /\ \A j \in 1..Len(F) : \E i \in 1..Fanout(m, s) : Target(m, s, i) = F[j]
    /\ \A j \in 1..Len(F), k \in 1..Len(R) : F[j] # R[k]
    /\ \A j, k \in 1..Len(F) : F[j] = F[k] => j = k
    /\ \A i \in 1..Fanout(m, s) : \/ \E k \in 1..Len(R) : R[k] = Target(m, s, i)
                                  \/ \E j \in 1..Len(F) : F[j] = Target(m, s, i)
    /\ \A j \in 2..Len(F) : \A l \in 1..Fanout(m, s) :
          Target(m, s, l) = F[j] => \E i \in 1..Fanout(m, s) : i < l /\ Target(m, s, i) = F[j - 1]

(* Two sequences, one after the other.                                    *)
LEMMA Joined ==
    ASSUME NEW S, NEW T, NEW R \in Seq(S), NEW F \in Seq(T)
    PROVE  /\ Len(R) \in Nat /\ Len(F) \in Nat
           /\ Len(R \o F) = Len(R) + Len(F)
           /\ \A k \in 1..Len(R) : (R \o F)[k] = R[k] /\ k \in 1..Len(R \o F)
           /\ \A j \in 1..Len(F) : (R \o F)[Len(R) + j] = F[j] /\ Len(R) + j \in 1..Len(R \o F)
           /\ \A k \in 1..Len(R \o F) : k \in 1..Len(R) \/ (k - Len(R) \in 1..Len(F))
  OBVIOUS

IsJoin(a, b, c) ==
    /\ Len(a) \in Nat /\ Len(b) \in Nat
    /\ DOMAIN c = 1..Len(c) /\ Len(c) = Len(a) + Len(b)
    /\ \A k \in 1..Len(a) : c[k] = a[k]
    /\ \A j \in 1..Len(b) : c[Len(a) + j] = b[j]

(* Two sequences over one set.                                            *)
LEMMA JoinedWithin ==
    ASSUME NEW S, NEW a \in Seq(S), NEW b \in Seq(S)
    PROVE  a \o b \in Seq(S) /\ IsJoin(a, b, a \o b)
BY DEF IsJoin

(* Reading one state more keeps the numbering.                            *)
LEMMA NumberingGrows ==
    ASSUME NEW m, IsGraph(m), NEW R, NEW d, Numbered(m, R, d), d + 1 <= Len(R),
           NEW F, Discovers(m, R, R[d + 1], F)
    PROVE  Numbered(m, R \o F, d + 1)
<1> DEFINE Q == R \o F
           s == R[d + 1]
<1>1. /\ R \in Seq(Found(m)) /\ F \in Seq(DOMAIN m.data) /\ d \in Nat /\ d + 1 \in 1..Len(R)
      /\ Len(R) \in Nat /\ Len(F) \in Nat
  BY DEF Numbered, Discovers
<1>2. s \in Found(m)
  BY ONLY <1>1
<1>3. /\ Len(Q) = Len(R) + Len(F)
      /\ \A k \in 1..Len(R) : Q[k] = R[k] /\ k \in 1..Len(Q)
      /\ \A j \in 1..Len(F) : Q[Len(R) + j] = F[j] /\ Len(R) + j \in 1..Len(Q)
      /\ \A k \in 1..Len(Q) : k \in 1..Len(R) \/ (k - Len(R) \in 1..Len(F))
  BY ONLY <1>1, Joined
<1>4. \A j \in 1..Len(F) : F[j] \in Found(m)
  BY <1>2, FoundFacts DEF Discovers
<1>5. Q \in Seq(Found(m))
  <2>1. F \in Seq(Found(m))
    BY ONLY <1>1, <1>4
  <2> QED
    BY ONLY <1>1, <2>1
<1> HIDE DEF Q, s
<1>6. ASSUME NEW k \in 1..Len(Q), k \notin 1..Len(R)
      PROVE  \E j \in 1..Len(F) : k = Len(R) + j /\ Q[k] = F[j]
  <2>1. k - Len(R) \in 1..Len(F) /\ k = Len(R) + (k - Len(R))
    BY ONLY <1>1, <1>3, <1>6
  <2> QED
    BY ONLY <1>3, <2>1
<1>7. ASSUME NEW j \in 1..Len(Q), NEW k \in 1..Len(Q), Q[j] = Q[k] PROVE j = k
  <2>1. CASE j \in 1..Len(R) /\ k \in 1..Len(R)
    BY <1>3, <1>7, <2>1 DEF Numbered
  <2>2. CASE j \in 1..Len(R) /\ k \notin 1..Len(R)
    BY <1>3, <1>6, <1>7, <2>2 DEF Discovers
  <2>3. CASE j \notin 1..Len(R) /\ k \in 1..Len(R)
    BY <1>3, <1>6, <1>7, <2>3 DEF Discovers
  <2>4. CASE j \notin 1..Len(R) /\ k \notin 1..Len(R)
    <3>1. \A u, v \in 1..Len(F) : F[u] = F[v] => u = v
      BY DEF Discovers
    <3> QED
      BY ONLY <1>6, <1>7, <2>4, <3>1
  <2> QED
    BY ONLY <2>1, <2>2, <2>3, <2>4
<1>8. ASSUME NEW p \in 1..(d + 1), NEW i \in 1..Fanout(m, Q[p])
      PROVE  \E k \in 1..Len(Q) : Q[k] = Target(m, Q[p], i)
  <2>1. p \in 1..Len(R) /\ Q[p] = R[p]
    BY ONLY <1>1, <1>3, p \in 1..(d + 1)
  <2>2. \/ \E k \in 1..Len(R) : R[k] = Target(m, R[p], i)
        \/ \E j \in 1..Len(F) : F[j] = Target(m, R[p], i)
    <3>1. CASE p = d + 1
      BY <1>8, <2>1, <3>1 DEF Discovers
    <3>2. CASE p # d + 1
      <4>1. p \in 1..d
        BY ONLY <1>1, <3>2, p \in 1..(d + 1)
      <4> QED
        BY <1>8, <2>1, <4>1 DEF Numbered
    <3> QED
      BY <3>1, <3>2
  <2> QED
    BY ONLY <1>3, <2>1, <2>2
<1>9. Len(Q) >= 1 /\ d + 1 \in 0..Len(Q) /\ Q[1] = m.start
  <2>1. 1 \in 1..Len(R) /\ R[1] = m.start
    BY <1>1 DEF Numbered
  <2> QED
    BY ONLY <1>1, <1>3, <2>1
<1> QED
  BY ONLY <1>5, <1>7, <1>8, <1>9 DEF Numbered, Q

(* Reading one state more keeps the reading order.                        *)
LEMMA ReadingOrderGrows ==
    ASSUME NEW m, IsGraph(m), NEW R, NEW d, Numbered(m, R, d), d + 1 <= Len(R),
           InReadingOrder(m, R, d), NEW F, Discovers(m, R, R[d + 1], F)
    PROVE  InReadingOrder(m, R \o F, d + 1)
<1> DEFINE Q == R \o F
           s == R[d + 1]
<1>1. /\ R \in Seq(Found(m)) /\ F \in Seq(DOMAIN m.data) /\ d \in Nat /\ d + 1 \in 1..Len(R)
      /\ Len(R) \in Nat /\ Len(F) \in Nat
  BY DEF Numbered, Discovers
<1>2. /\ Len(Q) = Len(R) + Len(F)
      /\ \A k \in 1..Len(R) : Q[k] = R[k] /\ k \in 1..Len(Q)
      /\ \A j \in 1..Len(F) : Q[Len(R) + j] = F[j] /\ Len(R) + j \in 1..Len(Q)
      /\ \A k \in 1..Len(Q) : k \in 1..Len(R) \/ (k - Len(R) \in 1..Len(F))
  BY ONLY <1>1, Joined
<1> HIDE DEF Q
<1>3. \A p \in 1..(d + 1) : Q[p] = R[p] /\ (p = d + 1 \/ p \in 1..d)
  <2>1. \A p \in 1..(d + 1) : p \in 1..Len(R)
    BY ONLY <1>1
  <2> QED
    BY ONLY <1>1, <1>2, <2>1
<1>4. ASSUME NEW k \in 1..Len(Q), k \notin 1..Len(R)
      PROVE  \E j \in 1..Len(F) : k = Len(R) + j /\ Q[k] = F[j]
  <2>1. k - Len(R) \in 1..Len(F) /\ k = Len(R) + (k - Len(R))
    BY ONLY <1>1, <1>2, <1>4
  <2> QED
    BY ONLY <1>2, <2>1
<1>5. ASSUME NEW k \in 2..Len(Q)
      PROVE  \E p \in 1..(d + 1) : \E i \in 1..Fanout(m, Q[p]) : Target(m, Q[p], i) = Q[k]
  <2>1. CASE k \in 1..Len(R)
    <3>1. k \in 2..Len(R)
      BY ONLY <1>1, <1>2, <2>1, k \in 2..Len(Q)
    <3>2. PICK p \in 1..d : \E i \in 1..Fanout(m, R[p]) : Target(m, R[p], i) = R[k]
      BY <3>1 DEF InReadingOrder
    <3>3. p \in 1..(d + 1)
      BY ONLY <1>1, p \in 1..d
    <3> QED
      BY ONLY <1>2, <1>3, <2>1, <3>2, <3>3
  <2>2. CASE k \notin 1..Len(R)
    <3>1. PICK j \in 1..Len(F) : Q[k] = F[j]
      <4>1. k \in 1..Len(Q)
        BY ONLY <1>1, <1>2, k \in 2..Len(Q)
      <4> QED
        BY ONLY <1>4, <2>2, <4>1
    <3>2. PICK i \in 1..Fanout(m, s) : Target(m, s, i) = F[j]
      BY DEF Discovers
    <3>3. d + 1 \in 1..(d + 1) /\ Q[d + 1] = s
      BY ONLY <1>1, <1>3
    <3> QED
      BY ONLY <3>1, <3>2, <3>3
  <2> QED
    BY ONLY <2>1, <2>2
<1>6. ASSUME NEW q \in 1..(d + 1), NEW k \in 3..Len(Q), NEW l \in 1..Fanout(m, Q[q]),
             Target(m, Q[q], l) = Q[k]
      PROVE  \E p \in 1..q : \E i \in 1..Fanout(m, Q[p]) :
                Target(m, Q[p], i) = Q[k - 1] /\ (p < q \/ i < l)
  <2>1. Q[q] = R[q] /\ k \in Nat /\ k \in 1..Len(Q) /\ k - 1 \in 1..Len(Q) /\ k - 1 \in 2..Len(Q)
    BY ONLY <1>1, <1>2, <1>3, q \in 1..(d + 1), k \in 3..Len(Q)
  <2>2. ASSUME NEW p \in 1..d, NEW i \in 1..Fanout(m, R[p]), Target(m, R[p], i) = Q[k - 1], q = d + 1
        PROVE  \E u \in 1..q : \E v \in 1..Fanout(m, Q[u]) :
                  Target(m, Q[u], v) = Q[k - 1] /\ (u < q \/ v < l)
    <3>1. p \in 1..q /\ p < q /\ Q[p] = R[p]
      BY ONLY <1>1, <1>3, <2>2
    <3> QED
      BY ONLY <2>2, <3>1
  <2>3. CASE q \in 1..d
    <3>1. k \in 3..Len(R)
      <4>1. PICK n \in 1..Len(R) : R[n] = Target(m, R[q], l)
        BY <1>6, <2>1, <2>3 DEF Numbered
      <4>2. k \notin 1..Len(R) => \E j \in 1..Len(F) : Q[k] = F[j]
        BY ONLY <1>4, <2>1
      <4>3. \A j \in 1..Len(F) : F[j] # R[n]
        BY DEF Discovers
      <4>4. k \in 1..Len(R)
        BY ONLY <1>6, <2>1, <4>1, <4>2, <4>3
      <4> QED
        BY ONLY <1>1, <4>4, k \in 3..Len(Q)
    <3>2. Q[k] = R[k] /\ Q[k - 1] = R[k - 1]
      BY ONLY <1>1, <1>2, <3>1
    <3>3. PICK p \in 1..q : \E i \in 1..Fanout(m, R[p]) :
                               Target(m, R[p], i) = R[k - 1] /\ (p < q \/ i < l)
      <4>1. \A a \in 1..d, b \in 3..Len(R) : \A c \in 1..Fanout(m, R[a]) :
               Target(m, R[a], c) = R[b] =>
                  \E p \in 1..a : \E i \in 1..Fanout(m, R[p]) :
                     Target(m, R[p], i) = R[b - 1] /\ (p < a \/ i < c)
        BY ONLY InReadingOrder(m, R, d) DEF InReadingOrder
      <4>2. l \in 1..Fanout(m, R[q]) /\ Target(m, R[q], l) = R[k]
        BY ONLY <1>6, <2>1, <3>2
      <4> QED
        BY ONLY <2>3, <3>1, <4>1, <4>2
    <3>4. p \in 1..(d + 1)
      BY ONLY <1>1, <2>3, p \in 1..q
    <3> QED
      BY ONLY <1>3, <3>2, <3>3, <3>4
  <2>4. CASE q = d + 1 /\ k \in 1..Len(R)
    <3>1. k - 1 \in 2..Len(R) /\ k - 1 \in 1..Len(R)
      BY ONLY <1>1, <2>4, k \in 3..Len(Q)
    <3>2. Q[k - 1] = R[k - 1]
      BY ONLY <1>2, <3>1
    <3>3. PICK p \in 1..d : \E i \in 1..Fanout(m, R[p]) : Target(m, R[p], i) = R[k - 1]
      BY <3>1 DEF InReadingOrder
    <3> QED
      BY ONLY <2>2, <2>4, <3>2, <3>3
  <2>5. CASE q = d + 1 /\ k \notin 1..Len(R)
    <3>1. PICK j \in 1..Len(F) : k = Len(R) + j /\ Q[k] = F[j]
      BY ONLY <1>4, <2>1, <2>5
    <3>2. CASE j = 1
      <4>1. k - 1 = Len(R) /\ Len(R) \in 2..Len(R) /\ Len(R) \in 1..Len(R)
        BY ONLY <1>1, <3>1, <3>2, k \in 3..Len(Q)
      <4>2. Q[k - 1] = R[Len(R)]
        BY ONLY <1>2, <4>1
      <4>3. PICK p \in 1..d : \E i \in 1..Fanout(m, R[p]) : Target(m, R[p], i) = R[Len(R)]
        BY <4>1 DEF InReadingOrder
      <4> QED
        BY ONLY <2>2, <2>5, <4>2, <4>3
    <3>3. CASE j # 1
      <4>1. j \in 2..Len(F) /\ j - 1 \in 1..Len(F) /\ k - 1 = Len(R) + (j - 1)
        <5>1. j \in Nat /\ j \in 2..Len(F) /\ j - 1 \in 1..Len(F)
          BY ONLY <1>1, <3>3, j \in 1..Len(F)
        <5>2. k - 1 = Len(R) + (j - 1)
          BY ONLY <1>1, <3>1, <5>1
        <5> QED
          BY ONLY <5>1, <5>2
      <4>2. Q[k - 1] = F[j - 1]
        BY ONLY <1>2, <4>1
      <4>3. Q[q] = s /\ Target(m, s, l) = F[j] /\ l \in 1..Fanout(m, s)
        BY ONLY <1>6, <2>1, <2>5, <3>1
      <4>4. PICK i \in 1..Fanout(m, s) : i < l /\ Target(m, s, i) = F[j - 1]
        BY <4>1, <4>3 DEF Discovers
      <4>5. q \in 1..q
        BY ONLY <1>1, <2>5
      <4> QED
        BY ONLY <4>2, <4>3, <4>4, <4>5
    <3> QED
      BY <3>2, <3>3
  <2> QED
    BY ONLY <1>3, <2>3, <2>4, <2>5, q \in 1..(d + 1)
<1> QED
  BY ONLY <1>5, <1>6 DEF InReadingOrder, Q

(* The rank of a number in a set.                                          *)
Rank(S, i) == Cardinality({j \in S : j <= i})

(* The k-th member of a set of numbers up to n.                            *)
LEMMA NthFacts ==
    ASSUME NEW n \in Nat, NEW S, S \subseteq 1..n
    PROVE  /\ IsFiniteSet(S) /\ Cardinality(S) \in Nat
           /\ \A k \in 1..Cardinality(S) : Nth(S, k) \in S /\ Rank(S, Nth(S, k)) = k
           /\ \A i \in S : /\ Rank(S, i) \in 1..Cardinality(S)
                           /\ Nth(S, Rank(S, i)) = i
           /\ \A h, i \in S : h < i => Rank(S, h) < Rank(S, i)
<1> DEFINE Upto(i) == {j \in S : j <= i}
           C(i) == Cardinality(Upto(i))
<1>1. IsFiniteSet(S) /\ Cardinality(S) \in Nat
  <2>1. IsFiniteSet(1..n)
    BY FS_Interval
  <2> QED
    BY <2>1, FS_Subset, FS_CardinalityType
<1>2. \A i : IsFiniteSet(Upto(i)) /\ C(i) \in Nat /\ C(i) <= Cardinality(S) /\ Upto(i) \subseteq S
  BY <1>1, FS_Subset, FS_CardinalityType
<1>3. \A i \in S : i \in Nat /\ 1 <= i /\ i <= n
  OBVIOUS
<1>4. C(0) = 0 /\ C(n) = Cardinality(S)
  <2>1. Upto(0) = {}
    <3>1. \A i \in S : ~(i <= 0)
      BY ONLY <1>3
    <3> QED
      BY ONLY <3>1
  <2>2. Upto(n) = S
    <3>1. \A i \in S : i <= n
      BY ONLY <1>3
    <3> QED
      BY ONLY <3>1
  <2> HIDE DEF Upto
  <2> QED
    BY ONLY <2>1, <2>2, FS_EmptySet
<1>5. ASSUME NEW i \in Nat, i # 0
      PROVE  C(i) = IF i \in S THEN C(i - 1) + 1 ELSE C(i - 1)
  <2>1. CASE i \in S
    <3>1. Upto(i) = Upto(i - 1) \cup {i} /\ i \notin Upto(i - 1)
      <4>1. \A j \in S : (j <= i <=> j <= i - 1 \/ j = i) /\ ~(i <= i - 1)
        BY ONLY <1>3, <1>5
      <4> QED
        BY ONLY <2>1, <4>1
    <3> QED
      <4>1. IsFiniteSet(Upto(i - 1))
        BY ONLY <1>2
      <4> HIDE DEF Upto
      <4> QED
        BY <2>1, <3>1, <4>1, FS_AddElement
  <2>2. CASE i \notin S
    <3>1. Upto(i) = Upto(i - 1)
      <4>1. \A j \in S : j <= i <=> j <= i - 1
        BY ONLY <1>3, <1>5, <2>2
      <4> QED
        BY ONLY <4>1
    <3> QED
      BY ONLY <2>2, <3>1
  <2> QED
    BY <2>1, <2>2
<1>6. ASSUME NEW h \in S, NEW i \in S, h < i PROVE C(h) < C(i)
  <2>1. Upto(h) \cup {i} \subseteq Upto(i) /\ i \notin Upto(h)
    BY ONLY <1>3, <1>6
  <2>2. IsFiniteSet(Upto(h)) /\ IsFiniteSet(Upto(i)) /\ C(h) \in Nat /\ C(i) \in Nat
    BY ONLY <1>2
  <2> HIDE DEF Upto
  <2>3. Cardinality(Upto(h) \cup {i}) = C(h) + 1
    BY ONLY <2>1, <2>2, FS_AddElement
  <2>4. Cardinality(Upto(h) \cup {i}) <= C(i)
    BY ONLY <2>1, <2>2, FS_Subset
  <2> HIDE DEF C
  <2> QED
    BY ONLY <2>2, <2>3, <2>4
<1>7. ASSUME NEW k \in 1..Cardinality(S) PROVE \E i \in S : C(i) = k
  <2> DEFINE T == {i \in Nat : C(i) >= k}
  <2>1. n \in T
    <3> HIDE DEF C
    <3> QED
      BY ONLY <1>1, <1>4, k \in 1..Cardinality(S), n \in Nat
  <2>2. PICK i \in T : \A j \in T : i <= j
    <3>1. T \subseteq Nat /\ T # {}
      BY ONLY <2>1
    <3> HIDE DEF T
    <3> QED
      BY ONLY <3>1, LeastNumber
  <2> HIDE DEF C
  <2>3. i \in Nat /\ C(i) >= k /\ k \in Nat \ {0} /\ i # 0
    BY ONLY <1>1, <1>4, <2>2, k \in 1..Cardinality(S)
  <2>4. i - 1 \in Nat /\ ~(i <= i - 1)
    BY ONLY <2>3
  <2>5. ~(C(i - 1) >= k)
    BY ONLY <2>2, <2>4
  <2>6. C(i) \in Nat /\ C(i - 1) \in Nat
    BY ONLY <1>2
  <2>7. C(i) = IF i \in S THEN C(i - 1) + 1 ELSE C(i - 1)
    BY ONLY <1>5, <2>3
  <2> QED
    BY ONLY <2>3, <2>5, <2>6, <2>7
<1>8. \A h, i \in S : C(h) = C(i) => h = i
  <2> SUFFICES ASSUME NEW h \in S, NEW i \in S, C(h) = C(i), h # i PROVE FALSE
    OBVIOUS
  <2> HIDE DEF C
  <2>1. h < i \/ i < h
    BY ONLY <1>3, h # i
  <2>2. C(h) \in Nat /\ C(i) \in Nat
    BY ONLY <1>2
  <2> QED
    BY ONLY <1>6, <2>1, <2>2, C(h) = C(i)
<1>9. \A k : Nth(S, k) = CHOOSE i \in S : C(i) = k
  BY DEF Nth
<1>10. ASSUME NEW i \in S PROVE C(i) \in 1..Cardinality(S)
  <2>1. i \in Upto(i)
    BY ONLY <1>3, i \in S
  <2>2. Upto(i) # {} /\ IsFiniteSet(Upto(i))
    BY ONLY <1>2, <2>1
  <2>3. C(i) # 0
    <3> HIDE DEF Upto
    <3> QED
      BY ONLY <2>2, FS_EmptySet
  <2>4. C(i) \in Nat /\ C(i) <= Cardinality(S)
    BY ONLY <1>2
  <2> HIDE DEF C
  <2> QED
    BY ONLY <1>1, <2>3, <2>4
<1> HIDE DEF C
<1>11. \A k \in 1..Cardinality(S) : Nth(S, k) \in S /\ C(Nth(S, k)) = k
  BY ONLY <1>7, <1>9
<1>12. \A i \in S : Nth(S, C(i)) = i
  BY ONLY <1>8, <1>9
<1> QED
  BY ONLY <1>1, <1>6, <1>10, <1>11, <1>12 DEF C, Upto, Rank

(* The raw ids in the order of their local ids.                            *)
Raws(cp) == [k \in 1..Len(cp) |-> cp[k].raw]

(* The list of new targets is what the completed state discovers.          *)
LEMMA NewTargetsFacts ==
    ASSUME IsGraph(machine), Raw \in DOMAIN machine.data,
           DOMAIN captured = 1..Len(captured), Len(captured) \in Nat
    PROVE  Discovers(machine, Raws(captured), Raw, NewTargets)
<1> DEFINE R == Raws(captured)
           F == NewTargets
           S == Meetings
           n == Total
           T(i) == Target(machine, Raw, i)
<1>1. n \in Nat /\ n = Fanout(machine, Raw) /\ \A i \in 1..n : T(i) \in DOMAIN machine.data
  BY GraphFacts DEF Total, Read, Fanout
<1>2. \A i : T(i) = Read.arcs[i].target
  BY DEF Target, Read
<1>3. \A r : r \in RawIds <=> \E k \in 1..Len(R) : R[k] = r
  BY DEF RawIds, Raws
<1>4. S = {i \in 1..n : T(i) \notin RawIds /\ \A j \in 1..(i - 1) : T(j) # T(i)}
  BY <1>2 DEF Meetings
<1>5. F = [k \in 1..Cardinality(S) |-> T(Nth(S, k))]
  BY <1>2 DEF NewTargets
<1> HIDE DEF R, F, S, n, T
<1>6. S \subseteq 1..n
  BY ONLY <1>4
<1>7. /\ Cardinality(S) \in Nat
      /\ \A k \in 1..Cardinality(S) : Nth(S, k) \in S /\ Rank(S, Nth(S, k)) = k
      /\ \A i \in S : Rank(S, i) \in 1..Cardinality(S) /\ Nth(S, Rank(S, i)) = i
      /\ \A h, i \in S : h < i => Rank(S, h) < Rank(S, i)
  BY ONLY <1>1, <1>6, NthFacts
<1>8. Len(F) = Cardinality(S) /\ \A k \in 1..Len(F) : F[k] = T(Nth(S, k)) /\ Nth(S, k) \in S
  BY ONLY <1>5, <1>7
<1>9. F \in Seq(DOMAIN machine.data)
  <2>1. \A k \in 1..Cardinality(S) : T(Nth(S, k)) \in DOMAIN machine.data
    BY ONLY <1>1, <1>6, <1>7
  <2> QED
    BY ONLY <1>5, <1>7, <2>1
<1>10. \A j \in 1..Len(F) : \E i \in 1..n : T(i) = F[j]
  BY ONLY <1>6, <1>8
<1>11. \A j \in 1..Len(F), k \in 1..Len(R) : F[j] # R[k]
  BY ONLY <1>3, <1>4, <1>8
<1>12. \A h, i \in S : T(h) = T(i) => h = i
  <2> SUFFICES ASSUME NEW h \in S, NEW i \in S, T(h) = T(i), h # i PROVE FALSE
    OBVIOUS
  <2>1. h \in 1..n /\ i \in 1..n
    BY ONLY <1>6, h \in S, i \in S
  <2>2. h \in 1..(i - 1) \/ i \in 1..(h - 1)
    BY ONLY <1>1, <2>1, h # i
  <2> QED
    BY ONLY <1>4, <2>2, h \in S, i \in S, T(h) = T(i)
<1>13. \A j, k \in 1..Len(F) : F[j] = F[k] => j = k
  BY ONLY <1>7, <1>8, <1>12
(* A target that has no number is met first at some arc, not a later one.  *)
<1>14. ASSUME NEW i \in 1..n, T(i) \notin RawIds
       PROVE  \E h \in S : h <= i /\ T(h) = T(i)
  <2> DEFINE Same == {h \in 1..n : T(h) = T(i)}
  <2>1. Same \subseteq Nat /\ Same # {}
    BY ONLY <1>1, i \in 1..n
  <2>2. PICK h \in Same : \A j \in Same : h <= j
    <3> HIDE DEF Same
    <3> QED
      BY ONLY <2>1, LeastNumber
  <2>3. h \in 1..n /\ T(h) = T(i) /\ h <= i
    BY ONLY <2>2, i \in 1..n
  <2>4. \A j \in 1..(h - 1) : T(j) # T(h)
    <3>1. \A j \in 1..(h - 1) : j \in 1..n /\ ~(h <= j)
      BY ONLY <1>1, <2>3
    <3> QED
      BY ONLY <2>2, <2>3, <3>1
  <2>5. h \in S
    BY ONLY <1>4, <1>14, <2>3, <2>4
  <2> QED
    BY ONLY <2>3, <2>5
<1>15. ASSUME NEW i \in 1..n, T(i) \notin RawIds PROVE \E j \in 1..Len(F) : F[j] = T(i)
  <2>1. PICK h \in S : T(h) = T(i)
    BY ONLY <1>14, <1>15
  <2>2. Rank(S, h) \in 1..Len(F) /\ F[Rank(S, h)] = T(h)
    BY ONLY <1>7, <1>8, h \in S
  <2> QED
    BY ONLY <2>1, <2>2
<1>16. ASSUME NEW j \in 2..Len(F), NEW l \in 1..n, T(l) = F[j]
       PROVE  \E i \in 1..n : i < l /\ T(i) = F[j - 1]
  <2>1. j \in 1..Len(F) /\ j - 1 \in 1..Len(F) /\ j - 1 < j /\ Len(F) \in Nat
    BY ONLY <1>7, <1>8, j \in 2..Len(F)
  <2>2. T(l) \notin RawIds
    BY ONLY <1>3, <1>11, <1>16, <2>1
  <2>3. PICK h \in S : h <= l /\ T(h) = T(l)
    BY ONLY <1>14, <2>2, l \in 1..n
  <2>4. h = Nth(S, j) /\ Rank(S, h) = j
    BY ONLY <1>7, <1>8, <1>12, <1>16, <2>1, <2>3
  <2>5. /\ Nth(S, j - 1) \in S /\ Rank(S, Nth(S, j - 1)) = j - 1 /\ F[j - 1] = T(Nth(S, j - 1))
    BY ONLY <1>7, <1>8, <2>1
  <2> DEFINE i == Nth(S, j - 1)
  <2>6. i \in 1..n /\ h \in 1..n /\ i \in S
    BY ONLY <1>6, <2>5, h \in S
  <2>7. ~(h < i)
    <3>1. h < i => j < j - 1
      BY ONLY <1>7, <2>4, <2>5
    <3> QED
      BY ONLY <3>1, j \in 2..Len(F)
  <2>8. h # i
    <3>1. h = i => j = j - 1
      BY ONLY <2>4, <2>5
    <3> QED
      BY ONLY <3>1, j \in 2..Len(F)
  <2> HIDE DEF i
  <2>9. i < l
    BY ONLY <1>1, <2>3, <2>6, <2>7, <2>8, l \in 1..n
  <2> QED
    BY ONLY <2>5, <2>6, <2>9 DEF i
<1>17. \A i \in 1..n : \/ \E k \in 1..Len(R) : R[k] = T(i)
                       \/ \E j \in 1..Len(F) : F[j] = T(i)
  BY ONLY <1>3, <1>15
<1> QED
  BY ONLY <1>1, <1>9, <1>10, <1>11, <1>13, <1>16, <1>17 DEF Discovers, R, F, T, n

-----------------------------------------------------------------------------
(* The capture of a graph: its budgets                                     *)

FirstStates(R, d) == {R[k] : k \in 1..d}

(* The arcs of the first d states, counted.                                *)
Spent(m, R, d, c) ==
    IsFiniteSet(Leaving(m, FirstStates(R, d))) /\ Cardinality(Leaving(m, FirstStates(R, d))) = c

(* A state has as many hops as arcs.                                      *)
LEMMA HopsAreCounted ==
    ASSUME NEW m, NEW s, Fanout(m, s) \in Nat
    PROVE  IsFiniteSet(HopsOf(m, s)) /\ Cardinality(HopsOf(m, s)) = Fanout(m, s)
<1> DEFINE n == Fanout(m, s)
           f == [i \in 1..n |-> [from |-> s, via |-> i]]
<1>1. \A i, j \in 1..n : f[i] = f[j] => i = j
  <2> SUFFICES ASSUME NEW i \in 1..n, NEW j \in 1..n, f[i] = f[j] PROVE i = j
    OBVIOUS
  <2>1. f[i].via = i /\ f[j].via = j
    OBVIOUS
  <2> QED
    BY <2>1
<1>2. HopsOf(m, s) = {[from |-> s, via |-> i] : i \in 1..n}
  BY DEF HopsOf, Fanout
<1>3. f \in [1..n -> HopsOf(m, s)] /\ \A h \in HopsOf(m, s) : \E i \in 1..n : f[i] = h
  BY <1>2
<1>4. f \in Bijection(1..n, HopsOf(m, s))
  BY ONLY <1>1, <1>3 DEF Bijection, Injection, Surjection, IsInjective
<1>5. ExistsBijection(1..n, HopsOf(m, s))
  BY ONLY <1>4 DEF ExistsBijection
<1> HIDE DEF f
<1> QED
  BY <1>5, FS_NatBijection, FS_CountingElements

(* The arcs of a state are spent once, however they are paged.            *)
LEMMA SpendingOnce ==
    ASSUME NEW m, IsGraph(m), NEW R, NEW d, Numbered(m, R, d), d + 1 <= Len(R),
           NEW c \in Nat, Spent(m, R, d, c)
    PROVE  Spent(m, R, d + 1, c + Fanout(m, R[d + 1]))
<1> DEFINE s == R[d + 1]
           S == Leaving(m, FirstStates(R, d))
           T == HopsOf(m, s)
<1>1. d \in Nat /\ d + 1 \in 1..Len(R) /\ Len(R) \in Nat /\ R \in Seq(Found(m))
  BY DEF Numbered
<1>2. s \in DOMAIN m.data
  BY ONLY <1>1, IsGraph(m), FoundFacts
<1>3. Fanout(m, s) \in Nat
  BY <1>2, GraphFacts
<1>4. IsFiniteSet(T) /\ Cardinality(T) = Fanout(m, s)
  BY ONLY <1>3, HopsAreCounted
<1>5. FirstStates(R, d + 1) = FirstStates(R, d) \cup {s}
  <2>1. \A k : k \in 1..(d + 1) <=> k \in 1..d \/ k = d + 1
    BY ONLY <1>1
  <2> QED
    BY ONLY <2>1 DEF FirstStates
<1>6. s \notin FirstStates(R, d)
  <2>1. \A k \in 1..d : k \in 1..Len(R) /\ k # d + 1
    BY ONLY <1>1
  <2>2. \A j, k \in 1..Len(R) : R[j] = R[k] => j = k
    BY DEF Numbered
  <2> QED
    BY ONLY <1>1, <2>1, <2>2 DEF FirstStates
<1>7. Leaving(m, FirstStates(R, d + 1)) = S \cup T /\ S \cap T = {}
  <2>1. \A h \in T : h \in Hops(m) /\ h.from = s
    BY ONLY <1>2 DEF Hops, HopsOf
  <2>2. \A h \in Hops(m) : h.from = s => h \in T
    BY ONLY TRUE DEF Hops, HopsOf
  <2>3. Leaving(m, FirstStates(R, d) \cup {s}) = S \cup T
    BY ONLY <2>1, <2>2 DEF Leaving
  <2>4. S \cap T = {}
    BY ONLY <1>6, <2>1 DEF Leaving
  <2> QED
    BY ONLY <1>5, <2>3, <2>4
<1>8. IsFiniteSet(S) /\ Cardinality(S) = c
  BY DEF Spent
<1> HIDE DEF S, T
<1>9. /\ IsFiniteSet(S \cup T)
      /\ Cardinality(S \cup T) = Cardinality(S) + Cardinality(T) - Cardinality(S \cap T)
  BY ONLY <1>4, <1>8, FS_Union
<1>10. Cardinality(S \cap T) = 0
  BY ONLY <1>7, FS_EmptySet
<1>11. Cardinality(S \cup T) = c + Fanout(m, s)
  BY ONLY <1>3, <1>4, <1>8, <1>9, <1>10, c \in Nat
<1> QED
  BY ONLY <1>7, <1>9, <1>11 DEF Spent

(* No more has been spent than all there is to find takes.                 *)
LEMMA SpentIsNeeded ==
    ASSUME NEW m, NEW R, NEW d, Numbered(m, R, d), NEW e \in 0..Len(R), NEW c \in Nat, Spent(m, R, e, c),
           NEW b \in Nat, FewEnough(Leaving(m, Found(m)), b)
    PROVE  c <= b
<1> DEFINE S == Leaving(m, FirstStates(R, e))
           T == Leaving(m, Found(m))
<1>1. FirstStates(R, e) \subseteq Found(m)
  BY DEF Numbered, FirstStates
<1>2. S \subseteq T /\ IsFiniteSet(T) /\ Cardinality(T) <= b
  BY <1>1 DEF FewEnough, Leaving
<1>3. Cardinality(S) = c
  BY DEF Spent
<1> HIDE DEF S, T
<1>4. Cardinality(S) <= Cardinality(T) /\ Cardinality(T) \in Nat
  BY ONLY <1>2, FS_Subset, FS_CardinalityType
<1> QED
  BY ONLY <1>2, <1>3, <1>4, c \in Nat, b \in Nat

(* As many states have numbers as there are numbers.                       *)
LEMMA NumbersCount ==
    ASSUME NEW m, NEW R, NEW d, Numbered(m, R, d)
    PROVE  /\ IsFiniteSet(FirstStates(R, Len(R))) /\ Cardinality(FirstStates(R, Len(R))) = Len(R)
           /\ FirstStates(R, Len(R)) \subseteq Found(m)
<1> DEFINE n == Len(R)
           H == FirstStates(R, n)
           f == [k \in 1..n |-> R[k]]
<1>1. n \in Nat /\ \A k \in 1..n : R[k] \in Found(m)
  BY DEF Numbered
<1>2. \A j, k \in 1..n : R[j] = R[k] => j = k
  BY DEF Numbered
<1>3. H = {R[k] : k \in 1..n}
  BY DEF FirstStates
<1> HIDE DEF n, H
<1>4. /\ f \in [1..n -> H] /\ \A h \in H : \E i \in 1..n : f[i] = h
      /\ \A i, j \in 1..n : f[i] = f[j] => i = j
  BY ONLY <1>2, <1>3
<1>5. ExistsBijection(1..n, H)
  BY ONLY <1>4 DEF ExistsBijection, Bijection, Injection, Surjection, IsInjective
<1>6. IsFiniteSet(H) /\ Cardinality(H) = n
  BY ONLY <1>1, <1>5, FS_NatBijection, FS_CountingElements
<1>7. H \subseteq Found(m)
  BY ONLY <1>1, <1>3
<1> QED
  BY ONLY <1>6, <1>7 DEF H, n

(* No more states have numbers than there are to find.                    *)
LEMMA NumbersAreNeeded ==
    ASSUME NEW m, NEW R, NEW d, Numbered(m, R, d), NEW b \in Nat, FewEnough(Found(m), b)
    PROVE  Len(R) <= b
<1> DEFINE H == FirstStates(R, Len(R))
<1>1. IsFiniteSet(H) /\ Cardinality(H) = Len(R) /\ H \subseteq Found(m)
  BY NumbersCount
<1>2. IsFiniteSet(Found(m)) /\ Cardinality(Found(m)) <= b
  BY DEF FewEnough
<1> HIDE DEF H
<1>3. Cardinality(H) <= Cardinality(Found(m)) /\ Cardinality(Found(m)) \in Nat /\ Cardinality(H) \in Nat
  BY ONLY <1>1, <1>2, FS_Subset, FS_CardinalityType
<1> QED
  BY ONLY <1>1, <1>2, <1>3, b \in Nat

(* When all have been read, all have been found.                           *)
LEMMA AllAreNumbered ==
    ASSUME NEW m, IsGraph(m), NEW R, Numbered(m, R, Len(R))
    PROVE  Found(m) = FirstStates(R, Len(R))
<1> DEFINE H == FirstStates(R, Len(R))
<1>1. H \subseteq Found(m) /\ H \subseteq DOMAIN m.data
  BY NumbersCount, FoundFacts
<1>2. m.start \in H
  <2>1. 1 \in 1..Len(R) /\ R[1] = m.start
    BY DEF Numbered
  <2> QED
    BY ONLY <2>1 DEF FirstStates
<1>3. \A s \in H : \A i \in 1..Fanout(m, s) : Target(m, s, i) \in H
  <2>1. \A p \in 1..Len(R) : \A i \in 1..Fanout(m, R[p]) : \E k \in 1..Len(R) : R[k] = Target(m, R[p], i)
    BY DEF Numbered
  <2> QED
    BY ONLY <2>1 DEF FirstStates
<1> HIDE DEF H
<1>4. Found(m) \subseteq H
  BY ONLY IsGraph(m), <1>1, <1>2, <1>3, FoundFacts
<1> QED
  BY ONLY <1>1, <1>4 DEF H

-----------------------------------------------------------------------------
(* The capture of a graph: what has been copied                            *)

(* A state whose header and first n arcs have been copied.                 *)
Copy(m, s, n) ==
    [raw |-> s, final |-> m.data[s].final, weight |-> m.data[s].weight,
     arcs |-> SubSeq(m.data[s].arcs, 1, n)]
Copies(m) ==
    UNION {{Empty(s)} \cup {Copy(m, s, n) : n \in 0..Fanout(m, s)} : s \in DOMAIN m.data}

IsWhole(m, x) == x = Copy(m, x.raw, Fanout(m, x.raw)) /\ m.data[x.raw].valid

(* A state that is read as far as p says.                                  *)
IsPart(m, x, p) ==
    /\ x = IF p.header THEN Copy(m, x.raw, p.offset) ELSE Empty(x.raw)
    /\ p.header => m.data[x.raw].valid
    /\ p.offset <= Fanout(m, x.raw)
    /\ (p.total = NULL => p.offset = 0) /\ (p.total # NULL => p.header)
    /\ (~p.header => p.offset = 0)

(* The first d states are whole and those from e on are empty, and wait.   *)
InLine(m, cp, q, d, e) ==
    /\ cp \in Seq(Copies(m)) /\ q \in Seq(Nat)
    /\ Numbered(m, Raws(cp), d) /\ InReadingOrder(m, Raws(cp), d)
    /\ Len(q) = Len(cp) + 1 - e /\ \A i \in 1..Len(q) : q[i] = e - 1 + i
    /\ \A k \in 1..d : IsWhole(m, cp[k])
    /\ \A k \in e..Len(cp) : cp[k] = Empty(cp[k].raw)

(* Between two states, and in one.                                         *)
Between(m, cp, q, res) ==
    LET d == Len(cp) - Len(q) IN
    InLine(m, cp, q, d, d + 1) /\ Spent(m, Raws(cp), d, res)

Within(m, cp, q, p, res) ==
    LET d == Len(cp) - Len(q) - 1 IN
    /\ InLine(m, cp, q, d, d + 2) /\ d \in Nat
    /\ p \in PendingState /\ p.id = d + 1 /\ IsPart(m, cp[d + 1], p)
    /\ Spent(m, Raws(cp), IF p.total = NULL THEN d ELSE d + 1, res)

SoFar(m, cp, q, p, res) ==
    /\ IsGraph(m) /\ res \in Nat
    /\ p = NULL => Between(m, cp, q, res)
    /\ p # NULL => Within(m, cp, q, p, res)

(* The raw ids of copies.                                                 *)
LEMMA RawsFacts ==
    ASSUME NEW m, NEW cp \in Seq(Copies(m))
    PROVE  /\ Len(cp) \in Nat /\ DOMAIN cp = 1..Len(cp) /\ Len(Raws(cp)) = Len(cp)
           /\ \A k \in 1..Len(cp) : Raws(cp)[k] = cp[k].raw
           /\ \A k \in 1..Len(cp) : cp[k].raw \in DOMAIN m.data
<1>1. Len(cp) \in Nat /\ DOMAIN cp = 1..Len(cp) /\ \A k \in 1..Len(cp) : cp[k] \in Copies(m)
  OBVIOUS
<1>2. Len(Raws(cp)) = Len(cp) /\ \A k \in 1..Len(cp) : Raws(cp)[k] = cp[k].raw
  BY ONLY <1>1 DEF Raws
<1>3. \A x \in Copies(m) : x.raw \in DOMAIN m.data
  BY DEF Copies, Copy, Empty
<1> QED
  BY ONLY <1>1, <1>2, <1>3

(* Taking up the next state changes nothing of what is known.              *)
LEMMA TakenUp ==
    ASSUME SoFar(machine, captured, queue, current, reserved), Now # NULL
    PROVE  Within(machine, captured, Waiting, Now, reserved)
<1>1. CASE ~Idle
  BY <1>1 DEF SoFar, Now, Waiting
<1>2. CASE Idle
  <2> DEFINE d == Len(captured) - Len(queue)
             p == [id |-> Head(queue), header |-> FALSE, total |-> NULL, offset |-> 0]
  <2>1. current = NULL /\ queue # << >> /\ Now = p /\ Waiting = Tail(queue)
    BY <1>2 DEF Idle, Now, Waiting
  <2>2. Between(machine, captured, queue, reserved) /\ IsGraph(machine)
    BY <2>1 DEF SoFar
  <2>3. /\ captured \in Seq(Copies(machine)) /\ queue \in Seq(Nat)
        /\ Numbered(machine, Raws(captured), d) /\ InReadingOrder(machine, Raws(captured), d)
        /\ \A i \in 1..Len(queue) : queue[i] = d + 1 - 1 + i
        /\ \A k \in 1..d : IsWhole(machine, captured[k])
        /\ \A k \in (d + 1)..Len(captured) : captured[k] = Empty(captured[k].raw)
        /\ Spent(machine, Raws(captured), d, reserved)
    BY ONLY <2>2 DEF Between, InLine
  <2>4. /\ Len(captured) \in Nat /\ Len(Raws(captured)) = Len(captured)
        /\ \A k \in 1..Len(captured) : captured[k].raw \in DOMAIN machine.data
    BY ONLY <2>3, RawsFacts
  <2>5. d \in Nat /\ d <= Len(captured) /\ Len(queue) \in Nat \ {0}
    <3>1. d \in 0..Len(Raws(captured))
      BY <2>3 DEF Numbered
    <3>2. Len(queue) \in Nat \ {0}
      BY ONLY <2>1, <2>3
    <3> QED
      BY ONLY <2>4, <3>1, <3>2
  <2>6. /\ Waiting \in Seq(Nat) /\ Len(Waiting) = Len(queue) - 1
        /\ \A i \in 1..Len(Waiting) : Waiting[i] = queue[i + 1] /\ i + 1 \in 1..Len(queue)
        /\ Head(queue) = queue[1] /\ 1 \in 1..Len(queue)
    BY ONLY <2>1, <2>3, <2>5
  <2> DEFINE e == Len(captured) - Len(Waiting) - 1
  <2>7. e = d /\ d + 1 \in 1..Len(captured) /\ d + 1 \in (d + 1)..Len(captured)
    BY ONLY <2>4, <2>5, <2>6
  <2>8. InLine(machine, captured, Waiting, e, e + 2)
    <3>1. Len(Waiting) = Len(captured) + 1 - (d + 2)
      BY ONLY <2>4, <2>5, <2>6
    <3>2. \A i \in 1..Len(Waiting) : Waiting[i] = (d + 2) - 1 + i
      <4> HIDE DEF d
      <4>1. ASSUME NEW i \in 1..Len(Waiting) PROVE d + 1 - 1 + (i + 1) = (d + 2) - 1 + i
        BY ONLY <2>5, <2>6, i \in 1..Len(Waiting)
      <4> QED
        BY ONLY <2>3, <2>6, <4>1
    <3>3. \A k \in (d + 2)..Len(captured) : captured[k] = Empty(captured[k].raw)
      <4> HIDE DEF d
      <4>1. \A k \in (d + 2)..Len(captured) : k \in (d + 1)..Len(captured)
        BY ONLY <2>4, <2>5
      <4> QED
        BY ONLY <2>3, <4>1
    <3> HIDE DEF e, d
    <3> QED
      BY ONLY <2>3, <2>6, <2>7, <3>1, <3>2, <3>3 DEF InLine
  <2>9. Now \in PendingState /\ Now.id = d + 1
    <3>1. Head(queue) = d + 1 /\ Head(queue) \in Nat
      <4> HIDE DEF d
      <4> QED
        BY ONLY <2>3, <2>5, <2>6
    <3> HIDE DEF d
    <3> QED
      BY ONLY <2>1, <3>1 DEF PendingState
  <2>10. IsPart(machine, captured[d + 1], Now)
    <3>1. captured[d + 1] = Empty(captured[d + 1].raw)
      <4> HIDE DEF d
      <4> QED
        BY ONLY <2>3, <2>7
    <3>2. Fanout(machine, captured[d + 1].raw) \in Nat
      <4> HIDE DEF d
      <4> QED
        BY ONLY <2>2, <2>4, <2>7, GraphFacts
    <3> HIDE DEF d
    <3> QED
      BY ONLY <2>1, <3>1, <3>2 DEF IsPart
  <2>11. Now.total = NULL
    BY ONLY <2>1
  <2> HIDE DEF d
  <2> QED
    BY ONLY <2>3, <2>5, <2>7, <2>8, <2>9, <2>10, <2>11 DEF Within
<1> QED
  BY ONLY <1>1, <1>2

(* Copying more of the state that is being read.                           *)
Rewritten(cp, k, x) == [cp EXCEPT ![k] = x]

AsBefore(m, cp, q, d, x, new) ==
    /\ Len(new) = Len(cp) /\ Raws(new) = Raws(cp) /\ new[d + 1] = x
    /\ InLine(m, new, q, d, d + 2)

LEMMA CopiedOn ==
    ASSUME NEW m, NEW cp, NEW q, NEW d \in Nat, InLine(m, cp, q, d, d + 2), d + 1 \in 1..Len(cp),
           NEW x \in Copies(m), x.raw = cp[d + 1].raw, NEW new, new = Rewritten(cp, d + 1, x)
    PROVE  AsBefore(m, cp, q, d, x, new)
<1>1. /\ cp \in Seq(Copies(m)) /\ q \in Seq(Nat)
      /\ Numbered(m, Raws(cp), d) /\ InReadingOrder(m, Raws(cp), d)
      /\ Len(q) = Len(cp) + 1 - (d + 2) /\ \A i \in 1..Len(q) : q[i] = (d + 2) - 1 + i
      /\ \A k \in 1..d : IsWhole(m, cp[k])
      /\ \A k \in (d + 2)..Len(cp) : cp[k] = Empty(cp[k].raw)
  BY DEF InLine
<1>2. Len(cp) \in Nat /\ d + 1 \in DOMAIN cp /\ d + 1 \in 1..Len(cp)
  BY ONLY <1>1, d \in Nat, d + 1 \in 1..Len(cp)
<1>3. /\ new \in Seq(Copies(m)) /\ Len(new) = Len(cp) /\ new[d + 1] = x
      /\ \A k \in 1..Len(cp) : k # d + 1 => new[k] = cp[k]
  BY ONLY <1>1, <1>2, x \in Copies(m), new = Rewritten(cp, d + 1, x)
    DEF Rewritten
<1>4. \A k \in 1..Len(cp) : new[k].raw = cp[k].raw
  BY ONLY <1>3, x.raw = cp[d + 1].raw
<1>5. Raws(new) = Raws(cp)
  BY ONLY <1>3, <1>4 DEF Raws
<1>6. /\ \A k \in 1..d : k \in 1..Len(cp) /\ k # d + 1
      /\ \A k \in (d + 2)..Len(cp) : k \in 1..Len(cp) /\ k # d + 1
  BY ONLY <1>2, d \in Nat
<1>7. InLine(m, new, q, d, d + 2)
  BY ONLY <1>1, <1>3, <1>5, <1>6 DEF InLine
<1> QED
  BY ONLY <1>3, <1>5, <1>7 DEF AsBefore

(* States that have just been numbered join the copies.                    *)
Grown(cp, F) == cp \o [k \in DOMAIN F |-> Empty(F[k])]

HasGrown(m, cp, F, new) ==
    /\ new \in Seq(Copies(m)) /\ Raws(new) = Raws(cp) \o F
    /\ Len(new) = Len(cp) + Len(F)
    /\ \A k \in 1..Len(cp) : new[k] = cp[k]
    /\ \A k \in (Len(cp) + 1)..Len(new) : new[k] = Empty(new[k].raw)

(* The numbers of the states that join.                                   *)
LEMMA RawsJoined ==
    ASSUME NEW m, NEW cp \in Seq(Copies(m)), NEW F \in Seq(DOMAIN m.data)
    PROVE  HasGrown(m, cp, F, Grown(cp, F))
<1> DEFINE E == [k \in DOMAIN F |-> Empty(F[k])]
           new == cp \o E
<1>1. /\ Len(cp) \in Nat /\ Len(F) \in Nat /\ DOMAIN F = 1..Len(F)
      /\ \A j \in 1..Len(F) : F[j] \in DOMAIN m.data
  OBVIOUS
<1>2. \A s \in DOMAIN m.data : Empty(s) \in Copies(m) /\ Empty(s).raw = s
  <2>1. \A s \in DOMAIN m.data : Empty(s) \in Copies(m)
    BY ONLY DEF Copies
  <2>2. \A s : Empty(s).raw = s
    BY ONLY DEF Empty
  <2> QED
    BY ONLY <2>1, <2>2
<1>3. E \in Seq(Copies(m)) /\ Len(E) = Len(F) /\ \A j \in 1..Len(F) : E[j] = Empty(F[j])
  <2> DEFINE e(k) == Empty(F[k])
  <2>1. \A j \in 1..Len(F) : e(j) \in Copies(m)
    BY ONLY <1>1, <1>2
  <2> HIDE DEF e
  <2>2. [k \in 1..Len(F) |-> e(k)] \in Seq(Copies(m)) /\ Len([k \in 1..Len(F) |-> e(k)]) = Len(F)
    BY ONLY <1>1, <2>1
  <2>3. E = [k \in 1..Len(F) |-> e(k)]
    BY ONLY <1>1 DEF e
  <2>4. \A j \in 1..Len(F) : E[j] = e(j)
    BY ONLY <2>3
  <2> QED
    BY ONLY <2>2, <2>3, <2>4 DEF e
<1> HIDE DEF E
<1>4. /\ new \in Seq(Copies(m)) /\ Len(new) = Len(cp) + Len(F)
      /\ \A k \in 1..Len(cp) : new[k] = cp[k]
      /\ \A j \in 1..Len(F) : new[Len(cp) + j] = E[j]
      /\ \A k \in 1..Len(new) : k \in 1..Len(cp) \/ k - Len(cp) \in 1..Len(F)
  BY ONLY <1>1, <1>3
<1> HIDE DEF new
<1>5. \A j \in 1..Len(F) : new[Len(cp) + j] = Empty(F[j]) /\ new[Len(cp) + j].raw = F[j]
  BY ONLY <1>1, <1>2, <1>3, <1>4
<1>6. \A k \in (Len(cp) + 1)..Len(new) : /\ k - Len(cp) \in 1..Len(F)
                                         /\ Len(cp) + (k - Len(cp)) = k
  BY ONLY <1>1, <1>4
<1>7. \A k \in (Len(cp) + 1)..Len(new) : new[k] = Empty(new[k].raw)
  BY ONLY <1>5, <1>6
<1>8. Raws(new) = Raws(cp) \o F
  <2> DEFINE R == Raws(cp)
             S == {cp[k].raw : k \in 1..Len(cp)}
  <2>1. R \in Seq(S) /\ Len(R) = Len(cp) /\ \A k \in 1..Len(cp) : R[k] = cp[k].raw
    <3> DEFINE r(k) == cp[k].raw
    <3>1. \A k \in 1..Len(cp) : r(k) \in S
      OBVIOUS
    <3>2. R = [k \in 1..Len(cp) |-> r(k)]
      BY DEF Raws
    <3> HIDE DEF r, S, R
    <3>3. R \in Seq(S) /\ Len(R) = Len(cp) /\ \A k \in 1..Len(cp) : R[k] = r(k)
      BY ONLY <1>1, <3>1, <3>2
    <3> QED
      BY ONLY <3>3 DEF r
  <2> HIDE DEF R, S
  <2>2. /\ Len(R \o F) = Len(R) + Len(F)
        /\ DOMAIN (R \o F) = 1..Len(R \o F)
        /\ \A k \in 1..Len(R) : (R \o F)[k] = R[k]
        /\ \A j \in 1..Len(F) : (R \o F)[Len(R) + j] = F[j]
        /\ R \o F \in Seq(S \cup DOMAIN m.data)
    <3> DEFINE T == S \cup DOMAIN m.data
    <3>1. R \in Seq(T) /\ F \in Seq(T)
      BY ONLY <2>1, F \in Seq(DOMAIN m.data)
    <3> HIDE DEF T
    <3>2. R \o F \in Seq(T) /\ IsJoin(R, F, R \o F)
      BY ONLY <3>1, JoinedWithin
    <3> QED
      BY ONLY <3>2 DEF T, IsJoin
  <2>3. \A k \in 1..Len(new) : (R \o F)[k] = new[k].raw
    <3>1. ASSUME NEW k \in 1..Len(new), k \in 1..Len(cp) PROVE (R \o F)[k] = new[k].raw
      BY ONLY <1>4, <2>1, <2>2, <3>1
    <3>2. ASSUME NEW k \in 1..Len(new), NEW j \in 1..Len(F), k = Len(cp) + j
          PROVE  (R \o F)[k] = new[k].raw
      BY ONLY <1>5, <2>1, <2>2, <3>2
    <3>3. \A k \in 1..Len(new) : k \in 1..Len(cp) \/ \E j \in 1..Len(F) : k = Len(cp) + j
      <4>1. \A k \in 1..Len(new) : Len(cp) + (k - Len(cp)) = k
        BY ONLY <1>1, <1>4
      <4> QED
        BY ONLY <1>4, <4>1
    <3> QED
      BY ONLY <3>1, <3>2, <3>3
  <2>4. R \o F = [k \in 1..Len(new) |-> new[k].raw]
    <3> DEFINE Q == R \o F
    <3>1. Q \in Seq(S \cup DOMAIN m.data)
      BY ONLY <2>2
    <3>2. Q = [k \in 1..Len(Q) |-> Q[k]] /\ Len(Q) = Len(new)
      <4>1. Len(Q) = Len(new)
        BY ONLY <1>4, <2>1, <2>2
      <4> HIDE DEF Q
      <4> QED
        BY ONLY <3>1, <4>1
    <3>3. \A k \in 1..Len(new) : Q[k] = new[k].raw
      BY ONLY <2>3
    <3> HIDE DEF Q
    <3>4. Q = [k \in 1..Len(new) |-> new[k].raw]
      BY ONLY <3>2, <3>3
    <3> QED
      BY ONLY <3>4 DEF Q
  <2> QED
    BY ONLY <2>4 DEF Raws, R
<1> QED
  BY ONLY <1>4, <1>7, <1>8 DEF new, E, Grown, HasGrown

(* What has been spent does not depend on what has been found since.      *)
LEMMA SpentStays ==
    ASSUME NEW m, NEW S, NEW T, NEW R \in Seq(S), NEW F \in Seq(T), NEW d \in 0..Len(R), NEW c,
           Spent(m, R, d, c)
    PROVE  Spent(m, R \o F, d, c)
<1>1. /\ Len(R) \in Nat
      /\ \A k \in 1..Len(R) : (R \o F)[k] = R[k]
  BY ONLY R \in Seq(S), F \in Seq(T)
<1>2. \A k \in 1..d : k \in 1..Len(R)
  BY ONLY <1>1, d \in 0..Len(R)
<1>3. \A k \in 1..d : (R \o F)[k] = R[k]
  BY ONLY <1>1, <1>2
<1>4. FirstStates(R \o F, d) = FirstStates(R, d)
  BY ONLY <1>3 DEF FirstStates
<1> QED
  BY ONLY <1>4, Spent(m, R, d, c) DEF Spent

(* A state is complete, and the states that it discovers wait at the end.  *)
LEMMA Completed ==
    ASSUME NEW m, IsGraph(m), NEW cp, NEW q, NEW d \in Nat, InLine(m, cp, q, d, d + 2),
           d + 1 \in 1..Len(cp), IsWhole(m, cp[d + 1]),
           NEW F, Discovers(m, Raws(cp), Raws(cp)[d + 1], F),
           NEW c, Spent(m, Raws(cp), d + 1, c)
    PROVE  /\ Between(m, Grown(cp, F), q \o Discovered(Len(cp), F), c)
           /\ Len(Grown(cp, F)) = Len(cp) + Len(F)
<1> DEFINE new == Grown(cp, F)
           D == Discovered(Len(cp), F)
           line == q \o D
           R == Raws(cp)
<1>1. /\ cp \in Seq(Copies(m)) /\ q \in Seq(Nat)
      /\ Numbered(m, R, d) /\ InReadingOrder(m, R, d)
      /\ Len(q) = Len(cp) + 1 - (d + 2) /\ \A i \in 1..Len(q) : q[i] = (d + 2) - 1 + i
      /\ \A k \in 1..d : IsWhole(m, cp[k])
      /\ \A k \in (d + 2)..Len(cp) : cp[k] = Empty(cp[k].raw)
  BY DEF InLine
<1>2. Len(cp) \in Nat /\ Len(R) = Len(cp)
  BY ONLY <1>1, RawsFacts
<1>3. F \in Seq(DOMAIN m.data) /\ R \in Seq(Found(m))
  BY <1>1 DEF Discovers, Numbered
<1>4. /\ new \in Seq(Copies(m)) /\ Raws(new) = R \o F
      /\ Len(new) = Len(cp) + Len(F)
      /\ \A k \in 1..Len(cp) : new[k] = cp[k]
      /\ \A k \in (Len(cp) + 1)..Len(new) : new[k] = Empty(new[k].raw)
  <2>1. cp \in Seq(Copies(m)) /\ F \in Seq(DOMAIN m.data)
    BY ONLY <1>1, <1>3
  <2>2. HasGrown(m, cp, F, new)
    BY ONLY <2>1, RawsJoined
  <2> HIDE DEF D, line, new
  <2> QED
    BY ONLY <2>2 DEF HasGrown
<1>5. Numbered(m, R \o F, d + 1)
  BY ONLY <1>1, <1>2, IsGraph(m), d + 1 \in 1..Len(cp), Discovers(m, R, R[d + 1], F), NumberingGrows
<1>6. InReadingOrder(m, R \o F, d + 1)
  BY ONLY <1>1, <1>2, IsGraph(m), d + 1 \in 1..Len(cp), Discovers(m, R, R[d + 1], F), ReadingOrderGrows
<1>7. /\ D \in Seq(Nat) /\ Len(D) = Len(F) /\ Len(F) \in Nat
      /\ \A j \in 1..Len(F) : D[j] = Len(cp) + j
  <2>1. Len(F) \in Nat /\ DOMAIN F = 1..Len(F)
    BY ONLY <1>3
  <2>2. D = [k \in 1..Len(F) |-> Len(cp) + k]
    BY ONLY <2>1 DEF Discovered
  <2> HIDE DEF D
  <2>3. Len(D) = Len(F) /\ \A j \in 1..Len(F) : D[j] = Len(cp) + j
    BY ONLY <2>1, <2>2
  <2>4. \A j \in 1..Len(F) : Len(cp) + j \in Nat
    BY ONLY <1>2, <2>1
  <2>5. D \in Seq(Nat)
    BY ONLY <2>1, <2>2, <2>4
  <2> QED
    BY ONLY <2>1, <2>3, <2>5
<1> HIDE DEF D
<1>8. /\ line \in Seq(Nat) /\ Len(line) = Len(q) + Len(F) /\ Len(q) \in Nat
      /\ \A i \in 1..Len(q) : line[i] = q[i]
      /\ \A j \in 1..Len(F) : line[Len(q) + j] = D[j]
      /\ \A i \in 1..Len(line) : i \in 1..Len(q) \/ \E j \in 1..Len(F) : i = Len(q) + j
  <2> HIDE DEF R, new
  <2>0. q \in Seq(Nat) /\ D \in Seq(Nat) /\ Len(D) = Len(F)
    BY ONLY <1>1, <1>7
  <2>1. /\ line \in Seq(Nat) /\ Len(line) = Len(q) + Len(F) /\ Len(q) \in Nat
        /\ \A i \in 1..Len(q) : line[i] = q[i]
        /\ \A j \in 1..Len(F) : line[Len(q) + j] = D[j]
    <3>1. line \in Seq(Nat) /\ IsJoin(q, D, line)
      BY ONLY <2>0, JoinedWithin
    <3> HIDE DEF line
    <3> QED
      BY ONLY <2>0, <3>1 DEF IsJoin
  <2>2. \A i \in 1..(Len(q) + Len(F)) : \/ i \in 1..Len(q)
                                        \/ i - Len(q) \in 1..Len(F) /\ i = Len(q) + (i - Len(q))
    BY ONLY <1>7, <2>1
  <2> QED
    BY ONLY <2>1, <2>2
<1> HIDE DEF new, line, R
<1>9. Len(line) = Len(new) + 1 - (d + 2) /\ Len(new) - Len(line) = d + 1
  BY ONLY <1>1, <1>2, <1>4, <1>7, <1>8, d \in Nat
<1>10. \A i \in 1..Len(line) : line[i] = (d + 2) - 1 + i
  <2>1. ASSUME NEW i \in 1..Len(line), NEW j \in 1..Len(F), i = Len(q) + j
        PROVE  line[i] = (d + 2) - 1 + i
    <3>1. line[i] = Len(cp) + j
      BY ONLY <1>7, <1>8, <2>1
    <3>2. Len(cp) + j = (d + 2) - 1 + (Len(q) + j)
      BY ONLY <1>1, <1>2, <1>7, j \in 1..Len(F), d \in Nat
    <3> QED
      BY ONLY <2>1, <3>1, <3>2
  <2> QED
    BY ONLY <1>1, <1>8, <2>1
<1>11. \A k \in 1..(d + 1) : IsWhole(m, new[k])
  <2>1. \A k \in 1..(d + 1) : k \in 1..Len(cp) /\ (k \in 1..d \/ k = d + 1)
    BY ONLY <1>2, d \in Nat, d + 1 \in 1..Len(cp)
  <2> QED
    BY ONLY <1>1, <1>4, <2>1, IsWhole(m, cp[d + 1])
<1>12. \A k \in (d + 2)..Len(new) : new[k] = Empty(new[k].raw)
  <2>1. \A k \in (d + 2)..Len(new) : \/ k \in (d + 2)..Len(cp) /\ k \in 1..Len(cp)
                                     \/ k \in (Len(cp) + 1)..Len(new)
    BY ONLY <1>2, <1>4, <1>7, d \in Nat
  <2> QED
    BY ONLY <1>1, <1>4, <2>1
<1>13. InLine(m, new, line, d + 1, d + 2)
  BY ONLY <1>4, <1>5, <1>6, <1>8, <1>9, <1>10, <1>11, <1>12 DEF InLine
<1>14. Spent(m, R \o F, d + 1, c)
  <2>1. d + 1 \in 0..Len(R)
    BY ONLY <1>2, d \in Nat, d + 1 \in 1..Len(cp)
  <2>2. Spent(m, R, d + 1, c)
    BY DEF R
  <2> QED
    BY ONLY <1>3, <2>1, <2>2, SpentStays
<1>15. (d + 1) + 1 = d + 2
  BY ONLY d \in Nat
<1>16. Between(m, new, line, c)
  BY ONLY <1>4, <1>9, <1>13, <1>14, <1>15 DEF Between
<1> QED
  BY ONLY <1>4, <1>16 DEF new, line, D

(* The state that is being read.                                           *)
LEMMA NowFacts ==
    ASSUME SoFar(machine, captured, queue, current, reserved), Now # NULL
    PROVE  /\ IsGraph(machine) /\ reserved \in Nat /\ Now \in PendingState
           /\ Raw \in DOMAIN machine.data /\ Raw \in Found(machine)
           /\ Total = Fanout(machine, Raw) /\ Total \in Nat
           /\ captured \in Seq(Copies(machine))
           /\ Left \in Nat /\ Now.offset \in Nat /\ Now.offset + Left = Total
           /\ \E d \in Nat :
                 /\ Now.id = d + 1 /\ d = Len(captured) - Len(Waiting) - 1 /\ d + 1 \in 1..Len(captured)
                 /\ InLine(machine, captured, Waiting, d, d + 2)
                 /\ IsPart(machine, captured[d + 1], Now)
                 /\ Numbered(machine, Raws(captured), d) /\ Len(Raws(captured)) = Len(captured)
                 /\ Raw = captured[d + 1].raw /\ Raw = Raws(captured)[d + 1]
                 /\ Spent(machine, Raws(captured), IF Now.total = NULL THEN d ELSE d + 1, reserved)
<1> DEFINE d == Len(captured) - Len(Waiting) - 1
<1>1. IsGraph(machine) /\ reserved \in Nat
  BY DEF SoFar
<1>2. /\ InLine(machine, captured, Waiting, d, d + 2) /\ d \in Nat
      /\ Now \in PendingState /\ Now.id = d + 1 /\ IsPart(machine, captured[d + 1], Now)
      /\ Spent(machine, Raws(captured), IF Now.total = NULL THEN d ELSE d + 1, reserved)
  BY TakenUp DEF Within
<1>3. /\ captured \in Seq(Copies(machine)) /\ Numbered(machine, Raws(captured), d)
      /\ Len(Waiting) = Len(captured) + 1 - (d + 2) /\ Waiting \in Seq(Nat)
  BY ONLY <1>2 DEF InLine
<1>4. /\ Len(captured) \in Nat /\ Len(Raws(captured)) = Len(captured)
      /\ \A k \in 1..Len(captured) : Raws(captured)[k] = captured[k].raw
      /\ \A k \in 1..Len(captured) : captured[k].raw \in DOMAIN machine.data
  BY ONLY <1>3, RawsFacts
<1>5. Len(Waiting) \in Nat
  BY ONLY <1>3
<1>6. d = Len(captured) - Len(Waiting) - 1
  OBVIOUS
<1> HIDE DEF d
<1>7. d + 1 \in 1..Len(captured)
  BY ONLY <1>2, <1>3, <1>4, <1>5
<1>8. Raw = captured[d + 1].raw /\ Raw = Raws(captured)[d + 1]
  BY ONLY <1>2, <1>4, <1>7 DEF Raw
<1>9. Raw \in DOMAIN machine.data
  BY ONLY <1>4, <1>7, <1>8
<1>10. Raw \in Found(machine)
  <2>1. Raws(captured) \in Seq(Found(machine))
    BY ONLY <1>3 DEF Numbered
  <2> QED
    BY ONLY <2>1, <1>4, <1>7, <1>8
<1>11. Total = Fanout(machine, Raw) /\ Total \in Nat
  BY ONLY <1>1, <1>9, GraphFacts DEF Total, Read, Fanout
<1>12. Now.offset \in Nat /\ Now.offset <= Total
  <2>1. Now.offset <= Fanout(machine, captured[d + 1].raw)
    BY ONLY <1>2 DEF IsPart
  <2>2. Now.offset \in Nat
    BY ONLY <1>2 DEF PendingState
  <2> QED
    BY ONLY <2>1, <2>2, <1>8, <1>11
<1>13. Left \in Nat /\ Now.offset + Left = Total
  BY ONLY <1>11, <1>12 DEF Left
<1> QED
  BY ONLY <1>1, <1>2, <1>3, <1>4, <1>6, <1>7, <1>8, <1>9, <1>10, <1>11, <1>12, <1>13

(* Putting the turn off.                                                   *)
LEMMA PutOff ==
    ASSUME SoFar(machine, captured, queue, current, reserved), Now # NULL
    PROVE  SoFar(machine, captured, Waiting, Now, reserved)
BY TakenUp DEF SoFar

(* What a header adds.                                                     *)
LEMMA HeaderCopied ==
    ASSUME SoFar(machine, captured, queue, current, reserved), Now # NULL, ~Now.header, Read.valid
    PROVE  LET new == [captured EXCEPT ![Now.id].final = Read.final, ![Now.id].weight = Read.weight] IN
           /\ Len(new) = Len(captured)
           /\ SoFar(machine, new, Waiting, [Now EXCEPT !.header = TRUE], reserved)
<1> DEFINE new == [captured EXCEPT ![Now.id].final = Read.final, ![Now.id].weight = Read.weight]
           read == [Now EXCEPT !.header = TRUE]
           copy == Copy(machine, Raw, 0)
<1>1. /\ IsGraph(machine) /\ reserved \in Nat /\ Now \in PendingState
      /\ Raw \in DOMAIN machine.data /\ Total = Fanout(machine, Raw) /\ Total \in Nat
      /\ captured \in Seq(Copies(machine))
  BY NowFacts
<1>2. PICK d \in Nat :
         /\ Now.id = d + 1 /\ d = Len(captured) - Len(Waiting) - 1 /\ d + 1 \in 1..Len(captured)
         /\ InLine(machine, captured, Waiting, d, d + 2)
         /\ IsPart(machine, captured[d + 1], Now)
         /\ Raw = captured[d + 1].raw
         /\ Spent(machine, Raws(captured), IF Now.total = NULL THEN d ELSE d + 1, reserved)
  BY NowFacts
<1>3. captured[d + 1] = Empty(Raw) /\ Now.offset = 0 /\ Now.total = NULL
  BY ONLY <1>2, ~Now.header DEF IsPart
<1>4. machine.data[Raw].valid
  BY DEF Read
<1>5. /\ DOMAIN captured = 1..Len(captured) /\ Len(captured) \in Nat
      /\ captured = [k \in 1..Len(captured) |-> captured[k]]
  BY ONLY <1>1
<1>6. /\ SubSeq(machine.data[Raw].arcs, 1, 0) = << >>
      /\ copy = [raw |-> Raw, final |-> Read.final, weight |-> Read.weight, arcs |-> << >>]
  BY ONLY DEF Copy, Read
<1>7. new = [captured EXCEPT ![d + 1] = copy]
  <2>1. \A k \in 1..Len(captured) : new[k] = [captured EXCEPT ![d + 1] = copy][k]
    <3>1. new[d + 1] = copy
      <4> DEFINE x == captured[d + 1]
                 final == Read.final
                 weight == Read.weight
      <4>1. x = [raw |-> Raw, final |-> FALSE, weight |-> NULL, arcs |-> << >>]
        BY ONLY <1>3 DEF Empty
      <4>2. d + 1 \in DOMAIN captured /\ Now.id = d + 1
        BY ONLY <1>2, <1>5
      <4>3. copy = [raw |-> Raw, final |-> final, weight |-> weight, arcs |-> << >>]
        BY ONLY <1>6
      <4> HIDE DEF final, weight, copy
      <4>4. copy = [[x EXCEPT !.final = final] EXCEPT !.weight = weight]
        <5> HIDE DEF x
        <5>1. [x EXCEPT !.final = final]
                 = [raw |-> Raw, final |-> final, weight |-> NULL, arcs |-> << >>]
          BY ONLY <4>1
        <5> DEFINE y == [x EXCEPT !.final = final]
        <5>2. y = [raw |-> Raw, final |-> final, weight |-> NULL, arcs |-> << >>]
          BY ONLY <5>1
        <5> HIDE DEF y
        <5>3. [y EXCEPT !.weight = weight] = copy
          BY ONLY <4>3, <5>2
        <5> QED
          BY ONLY <5>3 DEF y
      <4>5. new[d + 1] = [[x EXCEPT !.final = final] EXCEPT !.weight = weight]
        BY ONLY <4>2 DEF final, weight
      <4> HIDE DEF x, new
      <4> QED
        BY ONLY <4>4, <4>5
    <3>2. ASSUME NEW k \in 1..Len(captured), k # d + 1 PROVE new[k] = captured[k]
      BY ONLY <3>2, <1>2, <1>5
    <3> HIDE DEF new, copy
    <3> QED
      BY ONLY <3>1, <3>2, <1>5
  <2>2. DOMAIN new = 1..Len(captured) /\ new = [k \in 1..Len(captured) |-> new[k]]
    BY ONLY <1>5
  <2> HIDE DEF new, copy
  <2> QED
    BY ONLY <2>1, <2>2, <1>5
<1> HIDE DEF new, copy
<1>8. copy \in Copies(machine) /\ copy.raw = captured[d + 1].raw
  <2>1. copy.raw = captured[d + 1].raw
    BY ONLY <1>2, <1>6
  <2>2. 0 \in 0..Fanout(machine, Raw)
    BY ONLY <1>1
  <2>3. copy \in Copies(machine)
    BY ONLY <1>1, <2>2 DEF copy, Copies
  <2> QED
    BY ONLY <2>1, <2>3
<1>9. /\ Len(new) = Len(captured) /\ Raws(new) = Raws(captured) /\ new[d + 1] = copy
      /\ InLine(machine, new, Waiting, d, d + 2)
  <2>1. InLine(machine, captured, Waiting, d, d + 2) /\ d + 1 \in 1..Len(captured)
    BY ONLY <1>2
  <2>2. new = Rewritten(captured, d + 1, copy)
    BY ONLY <1>7 DEF Rewritten
  <2> HIDE DEF read
  <2> QED
    <3>1. AsBefore(machine, captured, Waiting, d, copy, new)
      BY ONLY <1>8, d \in Nat, <2>1, <2>2, CopiedOn
    <3> QED
      BY ONLY <3>1 DEF AsBefore
<1>10. read \in PendingState /\ read.header /\ read.id = d + 1 /\ read.offset = 0 /\ read.total = NULL
  BY ONLY <1>1, <1>2, <1>3 DEF PendingState
<1> HIDE DEF read
<1>11. IsPart(machine, new[d + 1], read)
  <2>1. copy.raw = Raw
    BY ONLY <1>2, <1>8
  <2> QED
    BY ONLY <1>1, <1>4, <1>9, <1>10, <2>1 DEF IsPart, copy
<1>12. d = Len(new) - Len(Waiting) - 1
  BY ONLY <1>2, <1>9
<1>13. Spent(machine, Raws(new), IF read.total = NULL THEN d ELSE d + 1, reserved)
  BY ONLY <1>2, <1>3, <1>9, <1>10
<1>14. Within(machine, new, Waiting, read, reserved)
  BY ONLY <1>9, <1>10, <1>11, <1>12, <1>13, d \in Nat DEF Within
<1>15. read # NULL
  BY <1>10, GraphNull
<1> QED
  BY ONLY <1>1, <1>9, <1>14, <1>15 DEF SoFar, new, read

(* Two pieces of a sequence that meet.                                    *)
LEMMA SubSeqGrows ==
    ASSUME NEW S, NEW s \in Seq(S), NEW i \in Nat, NEW n \in Nat, i + n <= Len(s)
    PROVE  SubSeq(s, 1, i) \o SubSeq(s, i + 1, i + n) = SubSeq(s, 1, i + n)
<1> DEFINE a == SubSeq(s, 1, i)
           b == SubSeq(s, i + 1, i + n)
           c == SubSeq(s, 1, i + n)
<1>1. Len(s) \in Nat
  OBVIOUS
<1>2. a \in Seq(S) /\ Len(a) = i /\ \A k \in 1..i : a[k] = s[k]
  BY ONLY <1>1, s \in Seq(S), i \in Nat, n \in Nat, i + n <= Len(s)
<1>3. b \in Seq(S) /\ Len(b) = n /\ \A k \in 1..n : b[k] = s[i + k]
  BY ONLY <1>1, s \in Seq(S), i \in Nat, n \in Nat, i + n <= Len(s)
<1>4. c \in Seq(S) /\ Len(c) = i + n /\ \A k \in 1..(i + n) : c[k] = s[k]
  BY ONLY <1>1, s \in Seq(S), i \in Nat, n \in Nat, i + n <= Len(s)
<1> HIDE DEF a, b, c
<1>5. /\ a \o b \in Seq(S) /\ Len(a \o b) = i + n
      /\ \A k \in 1..i : (a \o b)[k] = a[k]
      /\ \A k \in 1..n : (a \o b)[i + k] = b[k]
  <2>1. a \o b \in Seq(S)
    BY ONLY <1>2, <1>3
  <2>2. /\ Len(a \o b) = Len(a) + Len(b)
        /\ \A k \in 1..Len(a) : (a \o b)[k] = a[k]
        /\ \A k \in 1..Len(b) : (a \o b)[Len(a) + k] = b[k]
    <3>1. a \in Seq(S) /\ b \in Seq(S)
      BY ONLY <1>2, <1>3
    <3> QED
      BY ONLY <3>1
  <2> QED
    BY ONLY <1>2, <1>3, <2>1, <2>2
<1>6. \A k \in 1..(i + n) : k \in 1..i \/ \E j \in 1..n : k = i + j
  <2>1. \A k \in 1..(i + n) : k \in 1..i \/ (k - i \in 1..n /\ k = i + (k - i))
    BY ONLY i \in Nat, n \in Nat
  <2> QED
    BY ONLY <2>1
<1>7. \A k \in 1..(i + n) : (a \o b)[k] = c[k]
  <2>1. ASSUME NEW k \in 1..(i + n), k \in 1..i PROVE (a \o b)[k] = c[k]
    BY ONLY <2>1, <1>2, <1>4, <1>5
  <2>2. ASSUME NEW k \in 1..(i + n), NEW j \in 1..n, k = i + j PROVE (a \o b)[k] = c[k]
    BY ONLY <2>2, <1>3, <1>4, <1>5
  <2> QED
    BY ONLY <1>6, <2>1, <2>2
<1> DEFINE q == a \o b
<1>8. q \in Seq(S) /\ Len(q) = i + n /\ \A k \in 1..(i + n) : q[k] = c[k]
  BY ONLY <1>5, <1>7
<1> HIDE DEF q
<1>9. q = c
  BY ONLY <1>4, <1>8
<1> QED
  BY ONLY <1>9 DEF q, a, b, c

(* What a page adds.                                                       *)
LEMMA PageCopied ==
    ASSUME SoFar(machine, captured, queue, current, reserved), Now # NULL, Now.header,
           NEW n \in 0..Left
    PROVE  LET new == WithPage(n) IN
           /\ Reserved \in Nat /\ Now.offset + n \in 0..Total
           /\ \E d \in Nat :
                 /\ Now.id = d + 1 /\ d = Len(captured) - Len(Waiting) - 1 /\ d + 1 \in 1..Len(captured)
                 /\ Len(new) = Len(captured) /\ Raws(new) = Raws(captured)
                 /\ Raw = Raws(captured)[d + 1]
                 /\ Numbered(machine, Raws(captured), d)
                 /\ InLine(machine, new, Waiting, d, d + 2)
                 /\ new[d + 1] = Copy(machine, Raw, Now.offset + n) /\ machine.data[Raw].valid
                 /\ Spent(machine, Raws(captured), d + 1, Reserved)
<1> DEFINE new == WithPage(n)
           copy == Copy(machine, Raw, Now.offset + n)
           arcs == machine.data[Raw].arcs
<1>1. /\ IsGraph(machine) /\ reserved \in Nat /\ Now \in PendingState
      /\ Raw \in DOMAIN machine.data /\ Total = Fanout(machine, Raw) /\ Total \in Nat
      /\ captured \in Seq(Copies(machine))
      /\ Left \in Nat /\ Now.offset \in Nat /\ Now.offset + Left = Total
  BY NowFacts
<1>2. PICK d \in Nat :
         /\ Now.id = d + 1 /\ d = Len(captured) - Len(Waiting) - 1 /\ d + 1 \in 1..Len(captured)
         /\ InLine(machine, captured, Waiting, d, d + 2)
         /\ IsPart(machine, captured[d + 1], Now)
         /\ Numbered(machine, Raws(captured), d) /\ Len(Raws(captured)) = Len(captured)
         /\ Raw = captured[d + 1].raw /\ Raw = Raws(captured)[d + 1]
         /\ Spent(machine, Raws(captured), IF Now.total = NULL THEN d ELSE d + 1, reserved)
  BY NowFacts
<1>3. captured[d + 1] = Copy(machine, Raw, Now.offset) /\ machine.data[Raw].valid
  BY ONLY <1>2, Now.header DEF IsPart
<1>4. Now.offset + n \in 0..Total /\ Now.offset + n <= Total /\ n \in Nat
  BY ONLY <1>1, n \in 0..Left
<1>5. arcs \in Seq(Range(arcs)) /\ Len(arcs) = Total
  BY ONLY <1>1, GraphFacts DEF Fanout
<1>6. copy = [captured[d + 1] EXCEPT !.arcs = @ \o SubSeq(arcs, Now.offset + 1, Now.offset + n)]
  <2> DEFINE a == SubSeq(arcs, 1, Now.offset)
             b == SubSeq(arcs, Now.offset + 1, Now.offset + n)
             c == SubSeq(arcs, 1, Now.offset + n)
             final == machine.data[Raw].final
             weight == machine.data[Raw].weight
             x == captured[d + 1]
  <2>1. a \o b = c
    <3> HIDE DEF arcs
    <3> QED
      BY ONLY <1>1, <1>4, <1>5, SubSeqGrows
  <2>2. x = [raw |-> Raw, final |-> final, weight |-> weight, arcs |-> a]
    BY ONLY <1>3 DEF Copy
  <2>3. copy = [raw |-> Raw, final |-> final, weight |-> weight, arcs |-> c]
    BY ONLY DEF Copy
  <2> HIDE DEF a, b, c, final, weight, x, copy
  <2>4. copy = [x EXCEPT !.arcs = @ \o b]
    <3>1. x.arcs \o b = c
      BY ONLY <2>1, <2>2
    <3>2. [x EXCEPT !.arcs = c] = copy
      BY ONLY <2>2, <2>3
    <3> QED
      BY ONLY <3>1, <3>2
  <2> QED
    BY ONLY <2>4 DEF x, b
<1>7. DOMAIN captured = 1..Len(captured)
  BY ONLY <1>1
<1>8. new = Rewritten(captured, d + 1, copy)
  <2>1. new = [captured EXCEPT ![d + 1].arcs = @ \o SubSeq(arcs, Now.offset + 1, Now.offset + n)]
    BY ONLY <1>2 DEF WithPage, Read
  <2> DEFINE b == SubSeq(arcs, Now.offset + 1, Now.offset + n)
  <2>2. copy = [captured[d + 1] EXCEPT !.arcs = @ \o b]
    BY ONLY <1>6
  <2> HIDE DEF b, copy, new
  <2>3. [captured EXCEPT ![d + 1].arcs = @ \o b] = [captured EXCEPT ![d + 1] = copy]
    BY ONLY <2>2
  <2> QED
    BY ONLY <2>1, <2>3 DEF Rewritten, b
<1>9. copy \in Copies(machine) /\ copy.raw = captured[d + 1].raw
  <2>1. copy.raw = captured[d + 1].raw
    BY ONLY <1>3 DEF Copy
  <2>2. Now.offset + n \in 0..Fanout(machine, Raw)
    BY ONLY <1>1, <1>4
  <2>3. copy \in Copies(machine)
    BY ONLY <1>1, <2>2 DEF Copies
  <2> QED
    BY ONLY <2>1, <2>3
<1> HIDE DEF new, copy
<1>10. /\ Len(new) = Len(captured) /\ Raws(new) = Raws(captured) /\ new[d + 1] = copy
       /\ InLine(machine, new, Waiting, d, d + 2)
  <2>1. InLine(machine, captured, Waiting, d, d + 2) /\ d + 1 \in 1..Len(captured)
    BY ONLY <1>2
  <2> QED
    <3>1. AsBefore(machine, captured, Waiting, d, copy, new)
      BY ONLY <1>8, <1>9, d \in Nat, <2>1, CopiedOn
    <3> QED
      BY ONLY <3>1 DEF AsBefore
<1>11. Spent(machine, Raws(captured), d + 1, Reserved) /\ Reserved \in Nat
  <2>1. CASE Now.total = NULL
    <3>1. Spent(machine, Raws(captured), d, reserved)
      BY ONLY <1>2, <2>1
    <3>2. d + 1 <= Len(Raws(captured))
      BY ONLY <1>2
    <3>3. Spent(machine, Raws(captured), d + 1, reserved + Fanout(machine, Raws(captured)[d + 1]))
      <4>1. Numbered(machine, Raws(captured), d)
        BY ONLY <1>2
      <4> QED
        BY ONLY <1>1, <3>1, <3>2, <4>1, SpendingOnce
    <3>4. Reserved = reserved + Fanout(machine, Raws(captured)[d + 1]) /\ Reserved \in Nat
      <4>1. Reserved = reserved + Total
        BY ONLY <2>1 DEF Reserved
      <4>2. Total = Fanout(machine, Raws(captured)[d + 1])
        BY ONLY <1>1, <1>2
      <4>3. reserved + Total \in Nat
        BY ONLY <1>1
      <4> QED
        BY ONLY <4>1, <4>2, <4>3
    <3> QED
      BY ONLY <3>3, <3>4
  <2>2. CASE Now.total # NULL
    BY ONLY <1>1, <1>2, <2>2 DEF Reserved
  <2> QED
    BY ONLY <2>1, <2>2
<1> QED
  BY ONLY <1>2, <1>3, <1>4, <1>10, <1>11 DEF new, copy

(* A page that is not the last.                                           *)
LEMMA MorePages ==
    ASSUME SoFar(machine, captured, queue, current, reserved), Now # NULL, Now.header,
           NEW n \in 0..Left
    PROVE  /\ Len(WithPage(n)) = Len(captured) /\ Reserved \in Nat
           /\ SoFar(machine, WithPage(n), Waiting,
                    [Now EXCEPT !.total = Total, !.offset = @ + n], Reserved)
<1> DEFINE new == WithPage(n)
           read == [Now EXCEPT !.total = Total, !.offset = @ + n]
<1>1. /\ IsGraph(machine) /\ Now \in PendingState /\ Raw \in DOMAIN machine.data
      /\ Total = Fanout(machine, Raw) /\ Total \in Nat
  BY NowFacts
<1>2. Reserved \in Nat /\ Now.offset + n \in 0..Total
  BY PageCopied
<1>3. PICK d \in Nat :
         /\ Now.id = d + 1 /\ d = Len(captured) - Len(Waiting) - 1
         /\ Len(new) = Len(captured) /\ Raws(new) = Raws(captured)
         /\ InLine(machine, new, Waiting, d, d + 2)
         /\ new[d + 1] = Copy(machine, Raw, Now.offset + n) /\ machine.data[Raw].valid
         /\ Spent(machine, Raws(captured), d + 1, Reserved)
  BY PageCopied
<1> HIDE DEF new
<1>4. Total # NULL
  BY <1>1, GraphNull
<1>5. /\ read \in PendingState /\ read.header /\ read.id = d + 1 /\ read.total # NULL
      /\ read.offset = Now.offset + n
  <2>1. Now.offset + n \in Nat
    BY ONLY <1>1, <1>2
  <2> QED
    BY ONLY <1>1, <1>3, <1>4, <2>1, Now.header DEF PendingState
<1> HIDE DEF read
<1>6. new[d + 1].raw = Raw
  BY ONLY <1>3 DEF Copy
<1>7. IsPart(machine, new[d + 1], read)
  BY ONLY <1>1, <1>2, <1>3, <1>5, <1>6 DEF IsPart
<1>8. Within(machine, new, Waiting, read, Reserved)
  <2>1. d = Len(new) - Len(Waiting) - 1
    BY ONLY <1>3
  <2>2. Spent(machine, Raws(new), IF read.total = NULL THEN d ELSE d + 1, Reserved)
    BY ONLY <1>3, <1>5
  <2>3. InLine(machine, new, Waiting, d, d + 2)
    BY ONLY <1>3
  <2> QED
    BY ONLY <1>5, <1>7, <2>1, <2>2, <2>3, d \in Nat DEF Within
<1>9. read # NULL
  BY <1>5, GraphNull
<1> QED
  BY ONLY <1>1, <1>2, <1>3, <1>8, <1>9 DEF SoFar, new, read

(* The last page: the state is whole, and its new targets have been found *)
(* in the machine.                                                        *)
LEMMA LastOfPages ==
    ASSUME SoFar(machine, captured, queue, current, reserved), Now # NULL, Now.header
    PROVE  /\ SoFar(machine, Grown(WithPage(Left), NewTargets),
                    Waiting \o Discovered(Len(captured), NewTargets), NULL, Reserved)
           /\ Len(Grown(WithPage(Left), NewTargets)) = Len(captured) + Len(NewTargets)
           /\ Len(captured) \in Nat /\ NewTargets \in Seq(DOMAIN machine.data)
           /\ \A b \in Nat : /\ FewEnough(Found(machine), b) => Len(captured) + Len(NewTargets) <= b
                             /\ FewEnough(Leaving(machine, Found(machine)), b) => Reserved <= b
<1> DEFINE new == WithPage(Left)
           F == NewTargets
           R == Raws(captured)
<1>1. /\ IsGraph(machine) /\ Raw \in DOMAIN machine.data /\ captured \in Seq(Copies(machine))
      /\ Total = Fanout(machine, Raw) /\ Total \in Nat
      /\ Left \in Nat /\ Now.offset + Left = Total
  BY NowFacts
<1>2. Left \in 0..Left
  BY ONLY <1>1
<1>3. Reserved \in Nat
  BY <1>2, PageCopied
<1>4. PICK d \in Nat :
         /\ d + 1 \in 1..Len(captured) /\ Len(new) = Len(captured) /\ Raws(new) = R
         /\ Raw = R[d + 1] /\ Numbered(machine, R, d)
         /\ InLine(machine, new, Waiting, d, d + 2)
         /\ new[d + 1] = Copy(machine, Raw, Now.offset + Left) /\ machine.data[Raw].valid
         /\ Spent(machine, R, d + 1, Reserved)
  BY <1>2, PageCopied
<1>5. Len(captured) \in Nat /\ DOMAIN captured = 1..Len(captured) /\ Len(R) = Len(captured)
  BY ONLY <1>1, RawsFacts
<1>6. Discovers(machine, R, Raw, F)
  BY ONLY <1>1, <1>5, NewTargetsFacts
<1> HIDE DEF new, F, R
<1>7. IsWhole(machine, new[d + 1])
  <2>1. new[d + 1] = Copy(machine, Raw, Fanout(machine, Raw))
    BY ONLY <1>1, <1>4
  <2>2. new[d + 1].raw = Raw
    BY ONLY <2>1 DEF Copy
  <2> QED
    BY ONLY <1>4, <2>1, <2>2 DEF IsWhole
<1>8. /\ Between(machine, Grown(new, F), Waiting \o Discovered(Len(new), F), Reserved)
      /\ Len(Grown(new, F)) = Len(new) + Len(F)
  <2>1. InLine(machine, new, Waiting, d, d + 2) /\ d + 1 \in 1..Len(new)
    BY ONLY <1>4
  <2>2. Discovers(machine, Raws(new), Raws(new)[d + 1], F)
    BY ONLY <1>4, <1>6
  <2>3. Spent(machine, Raws(new), d + 1, Reserved)
    BY ONLY <1>4
  <2> QED
    BY ONLY <1>1, <1>7, <2>1, <2>2, <2>3, d \in Nat, Completed
<1>9. SoFar(machine, Grown(new, F), Waiting \o Discovered(Len(captured), F), NULL, Reserved)
  BY ONLY <1>1, <1>3, <1>4, <1>8 DEF SoFar
<1>10. F \in Seq(DOMAIN machine.data)
  BY ONLY <1>6 DEF Discovers
<1>11. ASSUME NEW b \in Nat, FewEnough(Found(machine), b) PROVE Len(captured) + Len(F) <= b
  <2>1. Numbered(machine, R \o F, d + 1)
    <3>1. Numbered(machine, R, d) /\ d + 1 <= Len(R)
      BY ONLY <1>4, <1>5
    <3>2. Discovers(machine, R, R[d + 1], F)
      BY ONLY <1>4, <1>6
    <3> QED
      BY ONLY <1>1, <3>1, <3>2, NumberingGrows
  <2>2. Len(R \o F) <= b
    BY ONLY <2>1, <1>11, NumbersAreNeeded
  <2>3. Len(R \o F) = Len(R) + Len(F)
    <3>1. R \in Seq(Found(machine))
      BY ONLY <1>4 DEF Numbered
    <3> QED
      BY ONLY <3>1, <1>10
  <2> QED
    BY ONLY <1>5, <2>2, <2>3
<1>12. ASSUME NEW b \in Nat, FewEnough(Leaving(machine, Found(machine)), b) PROVE Reserved <= b
  <2>1. d + 1 \in 0..Len(R)
    BY ONLY <1>4, <1>5
  <2>2. Numbered(machine, R, d) /\ Spent(machine, R, d + 1, Reserved)
    BY ONLY <1>4
  <2> QED
    BY ONLY <1>3, <1>12, <2>1, <2>2, SpentIsNeeded
<1> QED
  BY ONLY <1>4, <1>5, <1>8, <1>9, <1>10, <1>11, <1>12 DEF new, F

-----------------------------------------------------------------------------
(* The capture of a graph: what is taken                                  *)

(* When nothing waits, everything has been copied.                         *)
LEMMA AllIsWhole ==
    ASSUME SoFar(machine, captured, queue, current, reserved), current = NULL, queue = << >>
    PROVE  LET R == Raws(captured)
               n == Len(captured)
           IN
           /\ IsGraph(machine) /\ n \in Nat /\ n >= 1 /\ DOMAIN captured = 1..n
           /\ Len(R) = n /\ \A k \in 1..n : R[k] = captured[k].raw /\ R[k] \in DOMAIN machine.data
           /\ \A k \in 1..n : IsWhole(machine, captured[k])
           /\ Numbered(machine, R, n) /\ InReadingOrder(machine, R, n)
           /\ Spent(machine, R, n, reserved)
           /\ Found(machine) = FirstStates(R, n)
<1> DEFINE R == Raws(captured)
           n == Len(captured)
<1>1. IsGraph(machine) /\ Between(machine, captured, << >>, reserved)
  BY DEF SoFar
<1>2. InLine(machine, captured, << >>, n - 0, n - 0 + 1) /\ Spent(machine, R, n - 0, reserved)
  BY ONLY <1>1 DEF Between
<1>3. captured \in Seq(Copies(machine))
  BY ONLY <1>2 DEF InLine
<1>4. /\ n \in Nat /\ DOMAIN captured = 1..n /\ Len(R) = n
      /\ \A k \in 1..n : R[k] = captured[k].raw /\ R[k] \in DOMAIN machine.data
  BY ONLY <1>3, RawsFacts
<1> HIDE DEF n, R
<1>5. n - 0 = n
  BY ONLY <1>4
<1>6. /\ Numbered(machine, R, n) /\ InReadingOrder(machine, R, n) /\ Spent(machine, R, n, reserved)
      /\ \A k \in 1..n : IsWhole(machine, captured[k])
  BY ONLY <1>2, <1>5 DEF InLine, R
<1>7. n >= 1
  BY ONLY <1>4, <1>6 DEF Numbered
<1>8. Found(machine) = FirstStates(R, n)
  BY ONLY <1>1, <1>4, <1>6, AllAreNumbered
<1> QED
  BY ONLY <1>1, <1>4, <1>6, <1>7, <1>8 DEF n, R

(* The graph that is taken is the part of the machine that can be found.  *)
LEMMA TakenIsExact ==
    ASSUME SoFar(machine, captured, queue, current, reserved), current = NULL, queue = << >>,
           graph' = IntoGraph, machine' = machine
    PROVE  CaptureIsExact'
<1> DEFINE R == Raws(captured)
           n == Len(captured)
           states == IntoGraph.states
           Local(k, i) == LocalId(captured[k].arcs[i].target)
           arcs(k) == [i \in DOMAIN captured[k].arcs |->
                          [captured[k].arcs[i] EXCEPT !.target = Local(k, i)]]
<1>1. /\ IsGraph(machine) /\ n \in Nat /\ n >= 1 /\ DOMAIN captured = 1..n
      /\ Len(R) = n /\ \A k \in 1..n : R[k] = captured[k].raw /\ R[k] \in DOMAIN machine.data
      /\ \A k \in 1..n : IsWhole(machine, captured[k])
      /\ Numbered(machine, R, n) /\ InReadingOrder(machine, R, n)
      /\ Found(machine) = FirstStates(R, n)
  BY AllIsWhole
<1>2. /\ states = [k \in 1..n |-> [raw |-> captured[k].raw, final |-> captured[k].final,
                                  weight |-> captured[k].weight, arcs |-> arcs(k)]]
  BY ONLY <1>1 DEF IntoGraph
<1> HIDE DEF states, n, R
<1>3. /\ DOMAIN states = 1..n /\ Len(states) = n
      /\ \A k \in 1..n : /\ states[k].raw = R[k] /\ states[k].final = captured[k].final
                         /\ states[k].weight = captured[k].weight /\ states[k].arcs = arcs(k)
  <2> HIDE DEF arcs
  <2>1. DOMAIN states = 1..n /\ Len(states) = n
    BY ONLY <1>1, <1>2
  <2>2. ASSUME NEW k \in 1..n
        PROVE  /\ states[k].raw = R[k] /\ states[k].final = captured[k].final
               /\ states[k].weight = captured[k].weight /\ states[k].arcs = arcs(k)
    BY ONLY <1>1, <1>2, k \in 1..n
  <2> QED
    BY ONLY <2>1, <2>2
<1>4. ASSUME NEW k \in 1..n
      PROVE  /\ machine.data[R[k]].valid
             /\ captured[k].final = machine.data[R[k]].final
             /\ captured[k].weight = machine.data[R[k]].weight
             /\ DOMAIN captured[k].arcs = 1..Fanout(machine, R[k])
             /\ DOMAIN machine.data[R[k]].arcs = 1..Fanout(machine, R[k])
             /\ \A i \in 1..Fanout(machine, R[k]) : captured[k].arcs[i] = machine.data[R[k]].arcs[i]
  <2>1. R[k] = captured[k].raw /\ R[k] \in DOMAIN machine.data /\ IsWhole(machine, captured[k])
    BY ONLY <1>1, k \in 1..n
  <2>2. captured[k] = Copy(machine, R[k], Fanout(machine, R[k])) /\ machine.data[R[k]].valid
    BY ONLY <2>1 DEF IsWhole
  <2> DEFINE own == machine.data[R[k]].arcs
             f == Fanout(machine, R[k])
  <2>3. f \in Nat /\ DOMAIN own = 1..f /\ own \in Seq(Range(own)) /\ f = Len(own)
    BY ONLY <1>1, <2>1, GraphFacts DEF Fanout
  <2>4. captured[k] = [raw |-> R[k], final |-> machine.data[R[k]].final,
                       weight |-> machine.data[R[k]].weight, arcs |-> SubSeq(own, 1, f)]
    BY ONLY <2>2 DEF Copy
  <2> HIDE DEF own, f
  <2>5. DOMAIN SubSeq(own, 1, f) = 1..f /\ \A i \in 1..f : SubSeq(own, 1, f)[i] = own[i]
    BY ONLY <2>3
  <2>6. /\ captured[k].final = machine.data[R[k]].final
        /\ captured[k].weight = machine.data[R[k]].weight
        /\ captured[k].arcs = SubSeq(own, 1, f)
    <3> DEFINE x == captured[k]
               final == machine.data[R[k]].final
               weight == machine.data[R[k]].weight
               part == SubSeq(own, 1, f)
    <3>1. x = [raw |-> R[k], final |-> final, weight |-> weight, arcs |-> part]
      BY ONLY <2>4
    <3> HIDE DEF x, final, weight, part
    <3>2. x.final = final /\ x.weight = weight /\ x.arcs = part
      BY ONLY <3>1
    <3> QED
      BY ONLY <3>2 DEF x, final, weight, part
  <2>7. DOMAIN captured[k].arcs = 1..f /\ \A i \in 1..f : captured[k].arcs[i] = own[i]
    BY ONLY <2>5, <2>6
  <2> QED
    BY ONLY <2>2, <2>3, <2>6, <2>7 DEF own, f
<1>5. \A j, k \in 1..n : R[j] = R[k] => j = k
  BY ONLY <1>1 DEF Numbered
<1>6. ASSUME NEW j \in 1..n PROVE LocalId(R[j]) = j
  <2>1. \A k \in 1..n : captured[k].raw = R[j] <=> k = j
    BY ONLY <1>1, <1>5, j \in 1..n
  <2> QED
    BY ONLY <1>1, <2>1, j \in 1..n DEF LocalId
<1>7. ASSUME NEW k \in 1..n, NEW i \in 1..Fanout(machine, R[k])
      PROVE  /\ i \in DOMAIN states[k].arcs
             /\ states[k].arcs[i].target \in 1..n
             /\ R[states[k].arcs[i].target] = Target(machine, R[k], i)
             /\ states[k].arcs[i].weight = machine.data[R[k]].arcs[i].weight
  <2> DEFINE t == Target(machine, R[k], i)
             w == machine.data[R[k]].arcs[i].weight
             arc == captured[k].arcs[i]
  <2>1. R[k] \in DOMAIN machine.data
    BY ONLY <1>1, k \in 1..n
  <2>2. arc = [target |-> t, weight |-> w]
    <3>1. arc = machine.data[R[k]].arcs[i]
      BY ONLY <1>4, k \in 1..n, i \in 1..Fanout(machine, R[k])
    <3>2. machine.data[R[k]].arcs[i] = [target |-> t, weight |-> w]
      BY ONLY <1>1, <2>1, GraphFacts, i \in 1..Fanout(machine, R[k])
    <3> QED
      BY ONLY <3>1, <3>2
  <2>3. PICK j \in 1..n : R[j] = t
    BY ONLY <1>1, k \in 1..n, i \in 1..Fanout(machine, R[k]) DEF Numbered
  <2>4. Local(k, i) = j
    <3>1. Local(k, i) = LocalId(arc.target)
      OBVIOUS
    <3>2. arc.target = R[j]
      BY ONLY <2>2, <2>3
    <3> QED
      BY ONLY <1>6, <3>1, <3>2, j \in 1..n
  <2>5. i \in DOMAIN arcs(k) /\ arcs(k)[i] = [arc EXCEPT !.target = j]
    BY ONLY <1>4, <2>4, k \in 1..n, i \in 1..Fanout(machine, R[k])
  <2> HIDE DEF t, w, arc, arcs, Local
  <2>6. arcs(k)[i] = [target |-> j, weight |-> w]
    BY ONLY <2>2, <2>5
  <2>7. states[k].arcs = arcs(k)
    BY ONLY <1>3, k \in 1..n
  <2> QED
    BY ONLY <2>3, <2>5, <2>6, <2>7 DEF t, w
<1>8. ASSUME NEW k \in 1..n PROVE DOMAIN states[k].arcs = 1..Fanout(machine, R[k])
  <2>1. DOMAIN arcs(k) = DOMAIN captured[k].arcs
    OBVIOUS
  <2> HIDE DEF arcs
  <2> QED
    BY ONLY <1>3, <1>4, <2>1, k \in 1..n
<1> HIDE DEF arcs, Local
<1>9. {states[k].raw : k \in DOMAIN states} = Found(machine)
  BY ONLY <1>1, <1>3 DEF FirstStates
<1>10. \A j, k \in DOMAIN states : states[j].raw = states[k].raw => j = k
  BY ONLY <1>3, <1>5
<1>11. states[1].raw = machine.start
  BY ONLY <1>1, <1>3 DEF Numbered
<1>12. ASSUME NEW k \in DOMAIN states
       PROVE  LET original == machine.data[states[k].raw] IN
              /\ original.valid
              /\ states[k].final = original.final /\ states[k].weight = original.weight
              /\ DOMAIN states[k].arcs = DOMAIN original.arcs
              /\ \A i \in DOMAIN original.arcs :
                    /\ states[k].arcs[i].target \in DOMAIN states
                    /\ states[states[k].arcs[i].target].raw = original.arcs[i].target
                    /\ states[k].arcs[i].weight = original.arcs[i].weight
  <2>1. k \in 1..n /\ states[k].raw = R[k]
    BY ONLY <1>3, k \in DOMAIN states
  <2>2. ASSUME NEW i \in 1..Fanout(machine, R[k])
        PROVE  /\ states[k].arcs[i].target \in DOMAIN states
               /\ states[states[k].arcs[i].target].raw = machine.data[R[k]].arcs[i].target
               /\ states[k].arcs[i].weight = machine.data[R[k]].arcs[i].weight
    <3>1. /\ states[k].arcs[i].target \in 1..n
          /\ R[states[k].arcs[i].target] = Target(machine, R[k], i)
          /\ states[k].arcs[i].weight = machine.data[R[k]].arcs[i].weight
      BY ONLY <1>7, <2>1, i \in 1..Fanout(machine, R[k])
    <3> QED
      BY ONLY <1>3, <3>1 DEF Target
  <2> DEFINE original == machine.data[R[k]]
  <2>3. /\ original.valid
        /\ states[k].final = original.final /\ states[k].weight = original.weight
        /\ DOMAIN states[k].arcs = DOMAIN original.arcs
        /\ DOMAIN original.arcs = 1..Fanout(machine, R[k])
    BY ONLY <1>3, <1>4, <1>8, <2>1
  <2>4. \A i \in DOMAIN original.arcs :
           /\ states[k].arcs[i].target \in DOMAIN states
           /\ states[states[k].arcs[i].target].raw = original.arcs[i].target
           /\ states[k].arcs[i].weight = original.arcs[i].weight
    BY ONLY <2>2, <2>3
  <2> QED
    BY ONLY <2>1, <2>3, <2>4
<1>13. ASSUME NEW q \in DOMAIN states, NEW k \in 3..Len(states), NEW l \in DOMAIN states[q].arcs,
              states[q].arcs[l].target = k
       PROVE  \E p \in 1..q : \E i \in DOMAIN states[p].arcs :
                 states[p].arcs[i].target = k - 1 /\ (p < q \/ i < l)
  <2>1. q \in 1..n /\ k \in 3..n /\ k \in 1..n /\ k - 1 \in 1..n
    BY ONLY <1>1, <1>3, q \in DOMAIN states, k \in 3..Len(states)
  <2>2. l \in 1..Fanout(machine, R[q])
    BY ONLY <1>8, <2>1, l \in DOMAIN states[q].arcs
  <2>3. Target(machine, R[q], l) = R[k]
    BY ONLY <1>7, <1>13, <2>1, <2>2
  <2>4. PICK p \in 1..q : \E i \in 1..Fanout(machine, R[p]) :
              Target(machine, R[p], i) = R[k - 1] /\ (p < q \/ i < l)
    <3>1. k \in 3..Len(R)
      BY ONLY <1>1, <2>1
    <3>2. \A a \in 1..n, b \in 3..Len(R) : \A c \in 1..Fanout(machine, R[a]) :
             Target(machine, R[a], c) = R[b] =>
                \E p \in 1..a : \E i \in 1..Fanout(machine, R[p]) :
                   Target(machine, R[p], i) = R[b - 1] /\ (p < a \/ i < c)
      BY ONLY <1>1 DEF InReadingOrder
    <3> QED
      BY ONLY <2>1, <2>2, <2>3, <3>1, <3>2
  <2>5. p \in 1..n
    BY ONLY <1>1, <2>1, p \in 1..q
  <2>6. PICK i \in 1..Fanout(machine, R[p]) :
              Target(machine, R[p], i) = R[k - 1] /\ (p < q \/ i < l)
    BY ONLY <2>4
  <2>7. /\ i \in DOMAIN states[p].arcs /\ states[p].arcs[i].target \in 1..n
        /\ R[states[p].arcs[i].target] = R[k - 1]
    BY ONLY <1>7, <2>6, <2>5, i \in 1..Fanout(machine, R[p])
  <2>8. states[p].arcs[i].target = k - 1
    BY ONLY <1>5, <2>1, <2>7
  <2> QED
    BY ONLY <2>6, <2>7, <2>8, p \in 1..q
<1>14. graph'.states = states /\ machine' = machine
  BY DEF states
<1> QED
  BY ONLY <1>9, <1>10, <1>11, <1>12, <1>13, <1>14 DEF CaptureIsExact

-----------------------------------------------------------------------------
(* The capture of a graph: its steps                                      *)

(* What holds of a cursor that may go on, or that is complete.             *)
CopiedSoFar ==
    /\ SoFar(machine, captured, queue, current, reserved)
    /\ work \in Nat /\ work <= config.maxWork
    /\ reserved <= config.maxArcs /\ Len(captured) <= config.maxStates

CaptureInv ==
    /\ machine \in Machines
    /\ config = NULL => ~Calling /\ terminal = NULL
    /\ config # NULL =>
         /\ config \in Configs /\ graph = NULL
         /\ Calling => terminal = NULL
         /\ terminal \in {NULL, "complete"} => CopiedSoFar
         /\ terminal = "complete" => current = NULL /\ queue = << >>
    /\ CaptureIsHonest /\ CaptureIsExact

LEMMA CaptureBegins ==
    ASSUME CaptureInit PROVE CaptureInv
<1>1. PICK m \in Machines : Opened(m)
  BY DEF CaptureInit
<1>2. /\ machine = m /\ captured = << Empty(m.start) >> /\ queue = << 1 >> /\ current = NULL
      /\ reserved = 0 /\ work = 0 /\ terminal = NULL /\ callWork = NULL /\ graph = NULL
      /\ config \in Configs
  BY <1>1 DEF Opened, CaptureInit
<1>3. IsGraph(m) /\ m.start \in DOMAIN m.data
  BY GraphMachines, GraphFacts
<1> DEFINE cp == << Empty(m.start) >>
           R == << m.start >>
<1>4. cp \in Seq(Copies(m)) /\ Len(cp) = 1 /\ cp[1] = Empty(m.start)
  <2>1. Empty(m.start) \in Copies(m)
    BY ONLY <1>3 DEF Copies
  <2> QED
    BY ONLY <2>1
<1>5. Empty(m.start).raw = m.start
  BY ONLY DEF Empty
<1>6. Raws(cp) = R
  <2>1. Raws(cp) = [k \in 1..1 |-> cp[k].raw]
    BY ONLY <1>4 DEF Raws
  <2>2. Raws(cp) = [k \in 1..1 |-> m.start]
    BY ONLY <1>4, <1>5, <2>1
  <2> QED
    BY ONLY <2>2
<1>7. Numbered(m, R, 0)
  <2>1. R \in Seq(Found(m)) /\ Len(R) = 1 /\ R[1] = m.start
    BY ONLY <1>3, FoundFacts
  <2> HIDE DEF R
  <2>2. /\ \A j, k \in 1..Len(R) : R[j] = R[k] => j = k
        /\ 0 \in 0..Len(R) /\ Len(R) >= 1 /\ 1..0 = {}
    BY ONLY <2>1
  <2> QED
    BY ONLY <2>1, <2>2 DEF Numbered
<1>8. InReadingOrder(m, R, 0)
  <2>1. Len(R) = 1
    OBVIOUS
  <2> HIDE DEF R
  <2>2. 2..Len(R) = {} /\ 3..Len(R) = {}
    BY ONLY <2>1
  <2> QED
    BY ONLY <2>2 DEF InReadingOrder
<1>9. Spent(m, R, 0, 0)
  <2>1. Leaving(m, FirstStates(R, 0)) = {}
    <3>1. FirstStates(R, 0) = {}
      BY ONLY DEF FirstStates
    <3> QED
      BY ONLY <3>1 DEF Leaving
  <2> QED
    BY ONLY <2>1, FS_EmptySet DEF Spent
<1>10. InLine(m, cp, << 1 >>, 0, 1)
  <2>1. << 1 >> \in Seq(Nat) /\ Len(<< 1 >>) = 1 /\ << 1 >>[1] = 1
    OBVIOUS
  <2> DEFINE q == << 1 >>
  <2>2. q \in Seq(Nat) /\ Len(q) = 1 /\ q[1] = 1
    BY ONLY <2>1
  <2> HIDE DEF q, cp
  <2>3. Len(q) = Len(cp) + 1 - 1 /\ \A i \in 1..Len(q) : q[i] = 1 - 1 + i
    BY ONLY <1>4, <2>2
  <2>4. \A k \in 1..0 : IsWhole(m, cp[k])
    OBVIOUS
  <2>5. \A k \in 1..Len(cp) : cp[k] = Empty(cp[k].raw)
    BY ONLY <1>4, <1>5
  <2>6. InLine(m, cp, q, 0, 1)
    BY ONLY <1>4, <1>6, <1>7, <1>8, <2>2, <2>3, <2>4, <2>5 DEF InLine
  <2> QED
    BY ONLY <2>6 DEF q
<1>11. Between(m, cp, << 1 >>, 0)
  <2>1. Len(cp) - Len(<< 1 >>) = 0 /\ 0 + 1 = 1
    BY ONLY <1>4
  <2> HIDE DEF cp, R
  <2> QED
    BY ONLY <1>6, <1>9, <1>10, <2>1 DEF Between
<1>12. SoFar(machine, captured, queue, current, reserved)
  BY ONLY <1>2, <1>3, <1>11 DEF SoFar
<1>13. /\ 0 <= config.maxWork /\ 0 <= config.maxArcs /\ 1 <= config.maxStates
  BY <1>2, GraphConfigs
<1>14. CopiedSoFar
  BY ONLY <1>2, <1>4, <1>12, <1>13 DEF CopiedSoFar
<1>15. config # NULL
  BY <1>2, GraphNull
<1>16. CaptureIsHonest /\ CaptureIsExact
  BY ONLY <1>2 DEF CaptureIsHonest, CaptureIsExact
<1>17. NULL # "complete"
  BY GraphNull DEF Outcomes
<1> QED
  BY <1>2, <1>14, <1>15, <1>16, <1>17 DEF CaptureInv, Calling

(* The two ways a turn may leave the cursor.                               *)
LEMMA CaptureEnds ==
    ASSUME CaptureInv, Calling, UNCHANGED <<machine, config, graph>>, callWork' = NULL,
           terminal' \notin {NULL, "complete"}, CaptureIsHonest'
    PROVE  CaptureInv'
<1>1. config # NULL /\ config \in Configs /\ graph = NULL /\ machine \in Machines
  BY DEF CaptureInv
<1>2. CaptureIsExact'
  BY <1>1 DEF CaptureIsExact
<1> QED
  BY <1>1, <1>2 DEF CaptureInv, Calling

LEMMA CaptureGoesOn ==
    ASSUME CaptureInv, Calling, UNCHANGED <<machine, config, graph>>, terminal' = NULL, CopiedSoFar'
    PROVE  CaptureInv'
<1>1. config # NULL /\ config \in Configs /\ graph = NULL /\ machine \in Machines
  BY DEF CaptureInv
<1>2. CaptureIsExact' /\ CaptureIsHonest'
  BY <1>1 DEF CaptureIsExact, CaptureIsHonest
<1>3. NULL # "complete"
  BY GraphNull DEF Outcomes
<1> QED
  BY <1>1, <1>2, <1>3 DEF CaptureInv, Calling

(* What a turn starts from.                                                *)
LEMMA InTheCall ==
    ASSUME CaptureInv, Calling
    PROVE  /\ config # NULL /\ config \in Configs /\ graph = NULL /\ machine \in Machines
           /\ terminal = NULL /\ CopiedSoFar
           /\ config.maxStates \in Nat /\ config.maxArcs \in Nat /\ config.maxWork \in Nat
BY GraphConfigs DEF CaptureInv

(* An end for a reason that claims nothing.                               *)
LEMMA OtherEnds ==
    ASSUME CaptureInv, Calling, UNCHANGED <<machine, config, graph>>,
           NEW outcome \in {"cancelled", "provider"}, End(outcome)
    PROVE  CaptureInv'
<1>1. terminal' = outcome /\ callWork' = NULL
  BY DEF End, Answer
<1>2. terminal' \notin {NULL, "complete"}
  BY <1>1, GraphNull DEF Outcomes
<1>3. CaptureIsHonest'
  BY <1>1 DEF CaptureIsHonest
<1> QED
  BY <1>1, <1>2, <1>3, CaptureEnds

LEMMA AskAgainKeeps ==
    ASSUME CaptureInv, AskAgain \/ Call PROVE CaptureInv'
<1>1. /\ ~Calling /\ config # NULL
      /\ UNCHANGED <<machine, config, captured, queue, current, counts, terminal, graph>>
      /\ callWork' = NULL \/ terminal = NULL
  BY DEF AskAgain, Call, Answer
<1>2. SoFar(machine, captured, queue, current, reserved)'
         = SoFar(machine, captured, queue, current, reserved)
  BY <1>1 DEF counts
<1>3. CopiedSoFar' = CopiedSoFar
  BY <1>1, <1>2 DEF CopiedSoFar, counts
<1>4. CaptureIsExact' = CaptureIsExact /\ CaptureIsHonest' = CaptureIsHonest
  BY <1>1 DEF CaptureIsExact, CaptureIsHonest, counts
<1> QED
  BY <1>1, <1>3, <1>4 DEF CaptureInv, Calling

LEMMA CompleteKeeps ==
    ASSUME CaptureInv, Complete PROVE CaptureInv'
<1>1. /\ Calling /\ current = NULL /\ queue = << >>
      /\ terminal' = "complete" /\ callWork' = NULL
      /\ UNCHANGED <<machine, config, captured, queue, current, counts, graph>>
  BY DEF Complete, End, Answer
<1>2. /\ config # NULL /\ config \in Configs /\ graph = NULL /\ machine \in Machines
      /\ CopiedSoFar
  BY <1>1, InTheCall
<1> DEFINE R == Raws(captured)
           n == Len(captured)
<1>3. /\ n \in Nat /\ Len(R) = n /\ Numbered(machine, R, n) /\ Spent(machine, R, n, reserved)
      /\ Found(machine) = FirstStates(R, n)
  BY <1>1, <1>2, AllIsWhole DEF CopiedSoFar
<1>4. FewEnough(Found(machine), config.maxStates)
  <2>1. IsFiniteSet(Found(machine)) /\ Cardinality(Found(machine)) = n
    BY ONLY <1>3, NumbersCount
  <2>2. n <= config.maxStates
    BY <1>2 DEF CopiedSoFar
  <2> QED
    BY ONLY <2>1, <2>2 DEF FewEnough
<1>5. /\ FewEnough(Leaving(machine, Found(machine)), config.maxArcs)
      /\ reserved = Cardinality(Leaving(machine, Found(machine)))
  <2>1. reserved <= config.maxArcs
    BY <1>2 DEF CopiedSoFar
  <2> QED
    BY ONLY <1>3, <2>1 DEF FewEnough, Spent
<1>6. work <= config.maxWork
  BY <1>2 DEF CopiedSoFar
<1> DEFINE honest == /\ FewEnough(Found(machine), config.maxStates) /\ work <= config.maxWork
                     /\ FewEnough(Leaving(machine, Found(machine)), config.maxArcs)
                     /\ reserved = Cardinality(Leaving(machine, Found(machine)))
<1>7. honest'
  BY <1>1, <1>4, <1>5, <1>6 DEF counts
<1>8. CaptureIsHonest'
  BY ONLY <1>1, <1>7 DEF CaptureIsHonest
<1>9. CaptureIsExact'
  BY <1>1, <1>2 DEF CaptureIsExact
<1>10. CopiedSoFar'
  BY <1>1, <1>2 DEF CopiedSoFar, counts
<1>11. NULL # "complete"
  BY GraphNull DEF Outcomes
<1> QED
  BY ONLY <1>1, <1>2, <1>8, <1>9, <1>10, <1>11 DEF CaptureInv, Calling

LEMMA PauseKeeps ==
    ASSUME CaptureInv, Pause PROVE CaptureInv'
<1>1. /\ Calling /\ Now # NULL /\ callWork' = NULL /\ current' = Now /\ queue' = Waiting
      /\ UNCHANGED <<machine, config, captured, counts, terminal, graph>>
  BY DEF Pause, Answer
<1>2. terminal = NULL /\ CopiedSoFar
  BY <1>1, InTheCall
<1>3. SoFar(machine, captured, Waiting, Now, reserved)
  BY <1>1, <1>2, PutOff DEF CopiedSoFar
<1>4. CopiedSoFar'
  BY ONLY <1>1, <1>2, <1>3 DEF CopiedSoFar, counts
<1> QED
  BY <1>1, <1>2, <1>4, CaptureGoesOn

LEMMA OutOfWorkKeeps ==
    ASSUME CaptureInv, OutOfWork PROVE CaptureInv'
<1>1. /\ Calling /\ work >= config.maxWork /\ terminal' = "work" /\ callWork' = NULL
      /\ UNCHANGED <<machine, config, captured, counts, graph>>
  BY DEF OutOfWork, End, Answer
<1>2. work \in Nat /\ work <= config.maxWork /\ config.maxWork \in Nat
  BY <1>1, InTheCall DEF CopiedSoFar
<1>3. work' = config'.maxWork
  <2>1. work = config.maxWork
    BY ONLY <1>1, <1>2
  <2> QED
    BY ONLY <1>1, <2>1 DEF counts
<1>4. CaptureIsHonest'
  BY ONLY <1>1, <1>3 DEF CaptureIsHonest
<1>5. terminal' \notin {NULL, "complete"}
  BY <1>1, GraphNull DEF Outcomes
<1> QED
  BY <1>1, <1>4, <1>5, CaptureEnds

(* One callback more.                                                      *)
LEMMA OneMore ==
    ASSUME CaptureInv, Working
    PROVE  /\ Calling /\ Now # NULL /\ UNCHANGED <<machine, config, graph>>
           /\ SoFar(machine, captured, queue, current, reserved)
           /\ work' \in Nat /\ work' <= config.maxWork
           /\ reserved <= config.maxArcs /\ Len(captured) <= config.maxStates
           /\ config.maxStates \in Nat /\ config.maxArcs \in Nat
<1>1. /\ Calling /\ Now # NULL /\ work < config.maxWork /\ work' = work + 1
      /\ UNCHANGED <<machine, config, graph>>
  BY DEF Working
<1>2. CopiedSoFar /\ config.maxStates \in Nat /\ config.maxArcs \in Nat /\ config.maxWork \in Nat
  BY <1>1, InTheCall
<1>3. work' \in Nat /\ work' <= config.maxWork
  <2>1. work \in Nat
    BY <1>2 DEF CopiedSoFar
  <2> QED
    BY ONLY <1>1, <1>2, <2>1
<1> QED
  BY ONLY <1>1, <1>2, <1>3 DEF CopiedSoFar

LEMMA HeaderKeeps ==
    ASSUME CaptureInv, Header \/ HeaderFails PROVE CaptureInv'
<1>1. CASE Header
  <2>1. /\ Working /\ ~Now.header /\ Read.valid
        /\ captured' = [captured EXCEPT ![Now.id].final = Read.final, ![Now.id].weight = Read.weight]
        /\ current' = [Now EXCEPT !.header = TRUE] /\ queue' = Waiting
        /\ UNCHANGED <<terminal, reserved>>
    BY <1>1 DEF Header, GoOn
  <2>2. /\ Calling /\ Now # NULL /\ UNCHANGED <<machine, config, graph>>
        /\ SoFar(machine, captured, queue, current, reserved)
        /\ work' \in Nat /\ work' <= config.maxWork
        /\ reserved <= config.maxArcs /\ Len(captured) <= config.maxStates
    BY <2>1, OneMore
  <2>3. terminal = NULL
    BY <2>2, InTheCall
  <2>4. Len(captured') = Len(captured) /\ SoFar(machine, captured', Waiting, current', reserved)
    BY <2>1, <2>2, HeaderCopied
  <2>5. CopiedSoFar'
    BY ONLY <2>1, <2>2, <2>4 DEF CopiedSoFar
  <2> QED
    BY <2>1, <2>2, <2>3, <2>5, CaptureGoesOn
<1>2. CASE HeaderFails
  <2>1. Working /\ (End("provider") \/ (~Read.valid /\ End("invalid")))
    BY <1>2 DEF HeaderFails
  <2>2. /\ Calling /\ Now # NULL /\ UNCHANGED <<machine, config, graph>>
        /\ SoFar(machine, captured, queue, current, reserved)
    BY <2>1, OneMore
  <2>3. CASE End("provider")
    BY <2>2, <2>3, OtherEnds
  <2>4. CASE ~Read.valid /\ End("invalid")
    <3>1. terminal' = "invalid" /\ callWork' = NULL
      BY <2>4 DEF End, Answer
    <3>2. Raw \in Found(machine) /\ ~machine.data[Raw].valid
      BY <2>2, <2>4, NowFacts DEF Read
    <3>3. CaptureIsHonest'
      <4>1. \E s \in Found(machine') : ~machine'.data[s].valid
        BY ONLY <2>2, <3>2
      <4> QED
        BY ONLY <3>1, <4>1 DEF CaptureIsHonest
    <3>4. terminal' \notin {NULL, "complete"}
      BY <3>1, GraphNull DEF Outcomes
    <3> QED
      BY <2>2, <3>1, <3>3, <3>4, CaptureEnds
  <2> QED
    BY <2>1, <2>3, <2>4
<1> QED
  BY <1>1, <1>2

(* No page is larger than what is left.                                   *)
LEMMA PagesFit ==
    ASSUME Left \in Nat, NEW n \in Pages PROVE n \in 0..Left
<1>1. CASE Left = 0
  BY <1>1 DEF Pages
<1>2. CASE Left # 0
  BY <1>2, GraphConfigs DEF Pages, Least
<1> QED
  BY <1>1, <1>2

LEMMA PageKeeps ==
    ASSUME CaptureInv, NEW n \in Pages, Page(n) PROVE CaptureInv'
<1>1. /\ Working /\ Now.header /\ Reserved <= config.maxArcs /\ reserved' = Reserved
      /\ captured' = WithPage(n) /\ queue' = Waiting
      /\ current' = [Now EXCEPT !.total = Total, !.offset = @ + n]
      /\ terminal' = terminal
  BY DEF Page, GoOn
<1>2. /\ Calling /\ Now # NULL /\ UNCHANGED <<machine, config, graph>>
      /\ SoFar(machine, captured, queue, current, reserved)
      /\ work' \in Nat /\ work' <= config.maxWork /\ Len(captured) <= config.maxStates
  BY <1>1, OneMore
<1>3. terminal = NULL
  BY <1>2, InTheCall
<1>4. n \in 0..Left
  BY <1>2, NowFacts, PagesFit
<1>5. /\ Len(captured') = Len(captured)
      /\ SoFar(machine, captured', Waiting, current', Reserved)
  BY <1>1, <1>2, <1>4, MorePages
<1>6. CopiedSoFar'
  BY ONLY <1>1, <1>2, <1>5 DEF CopiedSoFar
<1> QED
  BY <1>1, <1>2, <1>3, <1>6, CaptureGoesOn

LEMMA LastPageKeeps ==
    ASSUME CaptureInv, NEW n \in Pages, LastPage(n) PROVE CaptureInv'
<1> DEFINE fresh == SubSeq(NewTargets, 1, Least(Room, Len(NewTargets)))
<1>1. /\ Working /\ Now.header /\ Reserved <= config.maxArcs /\ n = Left /\ reserved' = Reserved
      /\ captured' = WithPage(Left) \o [k \in DOMAIN fresh |-> Empty(fresh[k])]
      /\ queue' = Waiting \o Discovered(Len(captured), fresh)
      /\ IF Len(NewTargets) > Room
         THEN End("states") /\ current' = Now
         ELSE GoOn /\ current' = NULL
  BY DEF LastPage
<1>2. /\ Calling /\ Now # NULL /\ UNCHANGED <<machine, config, graph>>
      /\ SoFar(machine, captured, queue, current, reserved)
      /\ work' \in Nat /\ work' <= config.maxWork /\ Len(captured) <= config.maxStates
      /\ config.maxStates \in Nat
  BY <1>1, OneMore
<1>3. /\ SoFar(machine, Grown(WithPage(Left), NewTargets),
               Waiting \o Discovered(Len(captured), NewTargets), NULL, Reserved)
      /\ Len(Grown(WithPage(Left), NewTargets)) = Len(captured) + Len(NewTargets)
      /\ Len(captured) \in Nat /\ NewTargets \in Seq(DOMAIN machine.data)
      /\ FewEnough(Found(machine), config.maxStates) =>
            Len(captured) + Len(NewTargets) <= config.maxStates
  BY <1>1, <1>2, LastOfPages
<1>4. Len(NewTargets) \in Nat
  BY ONLY <1>3
<1>5. CASE Len(NewTargets) > Room
  <2>1. terminal' = "states" /\ callWork' = NULL
    BY <1>1, <1>5 DEF End, Answer
  <2>2. ~FewEnough(Found(machine), config.maxStates)
    <3>1. ~(Len(captured) + Len(NewTargets) <= config.maxStates)
      BY ONLY <1>2, <1>3, <1>4, <1>5 DEF Room
    <3> QED
      BY ONLY <1>3, <3>1
  <2>3. CaptureIsHonest'
    BY ONLY <1>2, <2>1, <2>2 DEF CaptureIsHonest
  <2>4. terminal' \notin {NULL, "complete"}
    BY <2>1, GraphNull DEF Outcomes
  <2> QED
    BY <1>2, <2>1, <2>3, <2>4, CaptureEnds
<1>6. CASE ~(Len(NewTargets) > Room)
  <2>1. current' = NULL /\ terminal' = terminal
    BY <1>1, <1>6 DEF GoOn
  <2>2. terminal = NULL
    BY <1>2, InTheCall
  <2>3. /\ Len(captured) + Len(NewTargets) <= config.maxStates
        /\ Least(Room, Len(NewTargets)) = Len(NewTargets)
    BY ONLY <1>2, <1>3, <1>4, <1>6 DEF Room, Least
  <2>4. fresh = NewTargets
    BY ONLY <1>3, <2>3
  <2>5. captured' = Grown(WithPage(Left), NewTargets)
    BY ONLY <1>1, <2>4 DEF Grown
  <2>6. queue' = Waiting \o Discovered(Len(captured), NewTargets)
    BY ONLY <1>1, <2>4
  <2>7. CopiedSoFar'
    BY ONLY <1>1, <1>2, <1>3, <2>1, <2>3, <2>5, <2>6 DEF CopiedSoFar
  <2> QED
    BY <1>2, <2>1, <2>2, <2>7, CaptureGoesOn
<1> QED
  BY <1>5, <1>6

LEMMA PageFailsKeeps ==
    ASSUME CaptureInv, PageFails PROVE CaptureInv'
<1>1. /\ Working /\ Now.header
      /\ End("provider") \/ (Reserved > config.maxArcs /\ End("arcs"))
  BY DEF PageFails
<1>2. /\ Calling /\ Now # NULL /\ UNCHANGED <<machine, config, graph>>
      /\ SoFar(machine, captured, queue, current, reserved) /\ config.maxArcs \in Nat
  BY <1>1, OneMore
<1>3. CASE End("provider")
  BY <1>2, <1>3, OtherEnds
<1>4. CASE Reserved > config.maxArcs /\ End("arcs")
  <2>1. terminal' = "arcs" /\ callWork' = NULL
    BY <1>4 DEF End, Answer
  <2>2. ~FewEnough(Leaving(machine, Found(machine)), config.maxArcs)
    <3>1. FewEnough(Leaving(machine, Found(machine)), config.maxArcs) => Reserved <= config.maxArcs
      BY <1>1, <1>2, LastOfPages
    <3>2. Reserved \in Nat
      <4>1. Left \in Nat
        BY <1>2, NowFacts
      <4>2. 0 \in 0..Left
        BY ONLY <4>1
      <4> QED
        BY <1>1, <1>2, <4>2, PageCopied
    <3> QED
      BY ONLY <1>2, <1>4, <3>1, <3>2
  <2>3. CaptureIsHonest'
    BY ONLY <1>2, <2>1, <2>2 DEF CaptureIsHonest
  <2>4. terminal' \notin {NULL, "complete"}
    BY <2>1, GraphNull DEF Outcomes
  <2> QED
    BY <1>2, <2>1, <2>3, <2>4, CaptureEnds
<1> QED
  BY <1>1, <1>3, <1>4

LEMMA TakeKeeps ==
    ASSUME CaptureInv, Take PROVE CaptureInv'
<1>1. /\ config # NULL /\ terminal = "complete" /\ graph' = IntoGraph
      /\ terminal' = NULL /\ callWork' = NULL /\ config' = NULL /\ machine' = machine
  BY DEF Take, Consumed
<1>2. /\ machine \in Machines /\ current = NULL /\ queue = << >>
      /\ SoFar(machine, captured, queue, current, reserved)
  BY <1>1 DEF CaptureInv, CopiedSoFar
<1>3. CaptureIsExact'
  BY <1>1, <1>2, TakenIsExact
<1>4. CaptureIsHonest'
  BY ONLY <1>1 DEF CaptureIsHonest
<1> QED
  BY ONLY <1>1, <1>2, <1>3, <1>4 DEF CaptureInv, Calling

LEMMA CaptureKeeps ==
    ASSUME CaptureInv, [Capture]_cursorVars PROVE CaptureInv'
<1>1. CASE AskAgain \/ Call
  BY <1>1, AskAgainKeeps
<1>2. CASE Cancel
  BY <1>2, OtherEnds DEF Cancel
<1>3. CASE Complete
  BY <1>3, CompleteKeeps
<1>4. CASE Pause
  BY <1>4, PauseKeeps
<1>5. CASE OutOfWork
  BY <1>5, OutOfWorkKeeps
<1>6. CASE Header \/ HeaderFails
  BY <1>6, HeaderKeeps
<1>7. ASSUME NEW n \in Pages, Page(n) \/ LastPage(n) PROVE CaptureInv'
  BY <1>7, PageKeeps, LastPageKeeps
<1>8. CASE PageFails
  BY <1>8, PageFailsKeeps
<1>9. CASE Take
  BY <1>9, TakeKeeps
<1>10. CASE UNCHANGED cursorVars
  <2>1. SoFar(machine, captured, queue, current, reserved)'
           = SoFar(machine, captured, queue, current, reserved)
    BY <1>10 DEF cursorVars, counts
  <2>2. CopiedSoFar' = CopiedSoFar
    BY <1>10, <2>1 DEF CopiedSoFar, cursorVars, counts
  <2>3. CaptureIsExact' = CaptureIsExact /\ CaptureIsHonest' = CaptureIsHonest
    BY <1>10 DEF CaptureIsExact, CaptureIsHonest, cursorVars, counts
  <2> QED
    BY <1>10, <2>2, <2>3 DEF CaptureInv, Calling, cursorVars
<1> QED
  BY <1>1, <1>2, <1>3, <1>4, <1>5, <1>6, <1>7, <1>8, <1>9, <1>10 DEF Capture, Turn

(* However a provider cuts its pages, a graph that is taken is the part of *)
(* the machine that can be found, each state once, numbered in reading     *)
(* order, with its own arcs (graph.rs, poll and into_graph).               *)
THEOREM CapturesAreExact == CaptureSpec => []CaptureIsExact
<1>1. CaptureInit => CaptureInv
  BY CaptureBegins
<1>2. CaptureInv /\ [Capture]_cursorVars => CaptureInv'
  BY CaptureKeeps
<1>3. CaptureInv => CaptureIsExact
  BY DEF CaptureInv
<1> QED
  BY <1>1, <1>2, <1>3, PTL DEF CaptureSpec

(* A capture that gives up does so for a reason that is true of the whole  *)
(* machine, and one that completes was within its bounds (graph.rs, poll). *)
THEOREM CapturesAreHonest == CaptureSpec => []CaptureIsHonest
<1>1. CaptureInit => CaptureInv
  BY CaptureBegins
<1>2. CaptureInv /\ [Capture]_cursorVars => CaptureInv'
  BY CaptureKeeps
<1>3. CaptureInv => CaptureIsHonest
  BY DEF CaptureInv
<1> QED
  BY <1>1, <1>2, <1>3, PTL DEF CaptureSpec
=============================================================================
