--------------------------- MODULE PathCursor_proofs ---------------------------
(***************************************************************************)
(* For every machine and every bound: the walk of a path cursor is         *)
(* coherent and within its bounds, the paths it yields are the first of    *)
(* the accepting paths in depth-first order, and its outcome is sticky and *)
(* true of the machine.                                                    *)
(***************************************************************************)
EXTENDS PathCursor, FiniteSetTheorems, SequenceTheorems,
        NaturalsInduction, WellFoundedInduction, TLAPS

Frames == [state : States, next : Nat \ {0}, emitted : BOOLEAN, weight : Nat]
Steps == [from : States, arc : Arcs]

(* Leaving the last element of a sequence.                                 *)
LEMMA Popped ==
    ASSUME NEW S, NEW s \in Seq(S), s # << >>
    PROVE  /\ Pop(s) \in Seq(S) /\ Len(Pop(s)) = Len(s) - 1 /\ Len(s) \in Nat \ {0}
           /\ \A i \in 1..(Len(s) - 1) : Pop(s)[i] = s[i]
<1>1. Len(s) \in Nat \ {0} /\ \A i \in 1..(Len(s) - 1) : s[i] \in S
  OBVIOUS
<1>2. 1 \in Int /\ Len(s) - 1 \in Int
  BY <1>1
<1>3. /\ Pop(s) \in Seq(S)
      /\ Len(Pop(s)) = IF 1 <= Len(s) - 1 THEN (Len(s) - 1) - 1 + 1 ELSE 0
      /\ \A i \in 1..((Len(s) - 1) - 1 + 1) : Pop(s)[i] = s[1 + i - 1]
  BY ONLY <1>1, <1>2, SubSeqProperties DEF Pop
<1>4. Len(Pop(s)) = Len(s) - 1
  <2>1. Len(Pop(s)) = IF 1 <= Len(s) - 1 THEN (Len(s) - 1) - 1 + 1 ELSE 0
    BY ONLY <1>3
  <2>2. Len(s) \in Nat \ {0}
    BY ONLY <1>1
  <2>3. \A n \in Nat \ {0} : (IF 1 <= n - 1 THEN (n - 1) - 1 + 1 ELSE 0) = n - 1
    OBVIOUS
  <2> QED
    BY ONLY <2>1, <2>2, <2>3
<1>5. ASSUME NEW i \in 1..(Len(s) - 1) PROVE Pop(s)[i] = s[i]
  <2>1. 1 + i - 1 = i /\ i \in 1..((Len(s) - 1) - 1 + 1)
    BY ONLY <1>1, i \in 1..(Len(s) - 1)
  <2>2. Pop(s)[i] = s[1 + i - 1]
    BY ONLY <1>3, <2>1
  <2> QED
    BY ONLY <2>1, <2>2
<1> QED
  BY ONLY <1>1, <1>3, <1>4, <1>5

LEMMA Pushed ==
    ASSUME NEW S, NEW s \in Seq(S), NEW e \in S
    PROVE  /\ Append(s, e) \in Seq(S) /\ Len(Append(s, e)) = Len(s) + 1
           /\ Append(s, e) # << >> /\ Len(s) \in Nat
           /\ \A i \in 1..Len(s) : Append(s, e)[i] = s[i]
           /\ Append(s, e)[Len(s) + 1] = e
  OBVIOUS

(* The arcs of a captured machine lead to its states.                      *)
LEMMA ArcFacts ==
    ASSUME TypeOK, NEW s \in States, NEW i \in 1..Len(Data(s).arcs)
    PROVE  /\ Data(s).arcs[i] \in Arcs
           /\ Data(s).arcs[i].target \in States /\ Data(s).arcs[i].weight \in Nat
           /\ Len(Data(s).arcs) \in Nat
<1>1. machine \in Machines /\ s \in DOMAIN machine.data
  BY DEF TypeOK, States
<1> QED
  BY <1>1, MachinesAssumption DEF Data, States, Arcs

LEMMA LengthFacts ==
    ASSUME TypeOK, NEW s \in States
    PROVE  Len(Data(s).arcs) \in Nat
  BY MachinesAssumption DEF TypeOK, States, Data

LEMMA ConfigFacts ==
    ASSUME TypeOK
    PROVE  /\ config.maxStates \in Nat /\ config.maxArcs \in Nat /\ config.maxWork \in Nat
           /\ config.workPerCall \in Nat /\ config.maxDepth \in Nat
  BY ConfigsAssumption DEF TypeOK

(* The frame on top of an open walk.                                       *)
LEMMA TopFacts ==
    ASSUME TypeOK, frames # << >>
    PROVE  /\ Top \in Frames /\ Len(frames) \in Nat \ {0} /\ Len(frames) \in 1..Len(frames)
           /\ Marked \in Seq(Frames) /\ Len(Marked) = Len(frames) /\ Marked # << >>
           /\ Moved \in Seq(Frames) /\ Len(Moved) = Len(frames) /\ Moved # << >>
           /\ \A i \in 1..Len(frames) :
                 /\ Marked[i].state = frames[i].state /\ Marked[i].weight = frames[i].weight
                 /\ Marked[i].next = frames[i].next
                 /\ Moved[i].state = frames[i].state /\ Moved[i].weight = frames[i].weight
                 /\ Moved[i].next = IF i = Len(frames) THEN frames[i].next + 1 ELSE frames[i].next
<1>1. frames \in Seq(Frames)
  BY DEF TypeOK, Frames
<1>2. Len(frames) \in Nat \ {0} /\ Len(frames) \in 1..Len(frames) /\ Top \in Frames
  BY <1>1 DEF Top
<1>3. \A i \in 1..Len(frames) : frames[i] \in Frames
  BY <1>1
<1>4. Marked = [frames EXCEPT ![Len(frames)] = [Top EXCEPT !.emitted = TRUE]]
  BY ONLY <1>1, <1>2 DEF Marked, Top
<1>5. [Top EXCEPT !.emitted = TRUE] \in Frames
  BY <1>2 DEF Frames
<1>6. /\ Marked \in Seq(Frames) /\ Len(Marked) = Len(frames)
      /\ \A i \in 1..Len(frames) :
            Marked[i] = IF i = Len(frames) THEN [Top EXCEPT !.emitted = TRUE] ELSE frames[i]
  BY ONLY <1>1, <1>2, <1>4, <1>5, ExceptSeq
<1> DEFINE top == Marked[Len(frames)]
           moved == [top EXCEPT !.next = @ + 1]
<1>7. Moved = [Marked EXCEPT ![Len(frames)] = moved]
  BY ONLY <1>2, <1>6 DEF Moved
<1>8. top \in Frames
  BY ONLY <1>2, <1>5, <1>6
<1>9. moved \in Frames
  <2> HIDE DEF top
  <2> QED
    BY ONLY <1>8 DEF Frames
<1> HIDE DEF moved
<1>10. /\ Moved \in Seq(Frames) /\ Len(Moved) = Len(frames)
       /\ \A i \in 1..Len(frames) : Moved[i] = IF i = Len(frames) THEN moved ELSE Marked[i]
  BY ONLY <1>2, <1>6, <1>7, <1>9, ExceptSeq
<1>11. moved.state = top.state /\ moved.weight = top.weight /\ moved.next = top.next + 1
  <2> HIDE DEF top
  <2> QED
    BY ONLY <1>8 DEF Frames, moved
<1>12. Marked # << >> /\ Moved # << >>
  BY ONLY <1>2, <1>6, <1>10
<1>13. /\ \A i \in 1..Len(frames) :
              /\ Marked[i].state = frames[i].state /\ Marked[i].weight = frames[i].weight
              /\ Marked[i].next = frames[i].next
  <2>1. ASSUME NEW i \in 1..Len(frames), i = Len(frames)
        PROVE  /\ Marked[i].state = frames[i].state /\ Marked[i].weight = frames[i].weight
               /\ Marked[i].next = frames[i].next
    BY ONLY <1>2, <1>6, <2>1 DEF Frames, Top
  <2>2. ASSUME NEW i \in 1..Len(frames), i # Len(frames)
        PROVE  Marked[i] = frames[i]
    BY ONLY <1>6, <2>2
  <2> QED
    BY ONLY <2>1, <2>2
<1>14. /\ \A i \in 1..Len(frames) :
             /\ Moved[i].state = frames[i].state /\ Moved[i].weight = frames[i].weight
             /\ Moved[i].next = IF i = Len(frames) THEN frames[i].next + 1 ELSE frames[i].next
  BY ONLY <1>2, <1>10, <1>13, <1>11
<1> QED
  BY ONLY <1>2, <1>6, <1>10, <1>12, <1>13, <1>14

-----------------------------------------------------------------------------
(* Type correctness                                                        *)

LEMMA InitHolds == Init => CursorInv
<1> SUFFICES ASSUME Init PROVE CursorInv
  OBVIOUS
<1>1. machine \in Machines /\ config \in Configs
  BY DEF Init
<1>2. TypeOK
  <2>1. seen \subseteq States /\ IsFiniteSet(seen)
    BY FS_EmptySet DEF Init
  <2>2. /\ frames \in Seq([state : States, next : Nat \ {0}, emitted : BOOLEAN, weight : Nat])
        /\ steps \in Seq([from : States, arc : Arcs])
    BY DEF Init
  <2>3. /\ terminal \in Outcomes \cup {NULL} /\ callWork \in Nat \cup {NULL}
        /\ reply \in Outcomes \cup {"path", "pending", NULL}
    BY DEF Init
  <2>4. expanded \in Nat /\ work \in Nat
    BY DEF Init
  <2>5. truncated \in BOOLEAN /\ started \in BOOLEAN
    BY DEF Init
  <2> QED
    BY <1>1, <2>1, <2>2, <2>3, <2>4, <2>5 DEF TypeOK
<1>3. WalkIsCoherent
  BY DEF Init, WalkIsCoherent
<1>4. WithinBounds
  BY <1>1, FS_EmptySet, ConfigsAssumption DEF Init, WithinBounds
<1>5. OutcomeIsKept
  BY NullAssumption DEF Init, OutcomeIsKept, Calling
<1> QED
  BY <1>2, <1>3, <1>4, <1>5 DEF CursorInv

(* A step that leaves the walk, its budget and its work alone.             *)
LEMMA Resting ==
    ASSUME CursorInv,
           UNCHANGED <<machine, config, walk, budget, work, started>>,
           truncated' \in BOOLEAN,
           terminal' \in Outcomes \cup {NULL}, callWork' \in Nat \cup {NULL},
           reply' \in Outcomes \cup {"path", "pending", NULL},
           OutcomeIsKept'
    PROVE  CursorInv'
<1>1. TypeOK'
  BY DEF CursorInv, TypeOK, walk, budget, States, Arcs, Data
<1>2. WalkIsCoherent'
  BY DEF CursorInv, WalkIsCoherent, walk, Data
<1>3. WithinBounds'
  BY DEF CursorInv, WithinBounds, walk, budget, Data
<1> QED
  BY <1>1, <1>2, <1>3 DEF CursorInv

-----------------------------------------------------------------------------
(* The beginning and the end of a call                                     *)

LEMMA CallsKeep ==
    ASSUME CursorInv,
           AskAgain \/ EnoughPaths \/ Call \/ Cancel \/ Finish \/ Pause \/ OutOfWork
    PROVE  CursorInv'
<1>0. /\ terminal \in Outcomes \cup {NULL} /\ truncated \in BOOLEAN
      /\ callWork \in Nat \cup {NULL} /\ reply \in Outcomes \cup {"path", "pending", NULL}
      /\ OutcomeIsKept
  BY DEF CursorInv, TypeOK
<1>1. "pending" \notin Outcomes /\ "truncated" \in Outcomes /\ "exhausted" \in Outcomes
      /\ "cancelled" \in Outcomes /\ "work" \in Outcomes
  BY DEF Outcomes, Completions, Errors
<1>2. ASSUME NEW o \in Outcomes, End(o), UNCHANGED <<frames, started>>
      PROVE  /\ terminal' \in Outcomes \cup {NULL} /\ callWork' \in Nat \cup {NULL}
             /\ reply' \in Outcomes \cup {"path", "pending", NULL} /\ OutcomeIsKept'
  BY <1>0, <1>2 DEF End, Answer, OutcomeIsKept, Calling
<1>3. CASE AskAgain
  BY <1>0, <1>3, Resting DEF AskAgain, Answer, OutcomeIsKept, Calling, walk
<1>4. CASE EnoughPaths
  BY <1>0, <1>1, <1>2, <1>4, Resting DEF EnoughPaths, walk
<1>5. CASE Call
  <2>1. callWork' = 0 /\ terminal = NULL
        /\ UNCHANGED <<machine, config, walk, budget, work, truncated, started, terminal, reply>>
    BY <1>5 DEF Call
  <2>2. OutcomeIsKept' /\ callWork' \in Nat
    BY ONLY <1>0, <2>1 DEF OutcomeIsKept, Calling, walk
  <2> QED
    BY <1>0, <2>1, <2>2, Resting
<1>6. CASE Cancel
  BY <1>0, <1>1, <1>2, <1>6, Resting DEF Cancel, walk
<1>7. CASE Finish
  <2>1. PICK o \in Outcomes : End(o)
    BY <1>1, <1>7 DEF Finish
  <2> QED
    BY <1>0, <1>2, <1>7, <2>1, Resting DEF Finish, walk
<1>8. CASE Pause
  <2>1. callWork' = NULL /\ reply' = "pending"
        /\ UNCHANGED <<machine, config, walk, budget, work, truncated, started, terminal>>
    BY <1>8 DEF Pause, Answer
  <2>2. OutcomeIsKept'
    BY ONLY <1>0, <1>1, <2>1 DEF OutcomeIsKept, Calling, walk
  <2> QED
    BY <1>0, <2>1, <2>2, Resting
<1>9. CASE OutOfWork
  BY <1>0, <1>1, <1>2, <1>9, Resting DEF OutOfWork, Fail, walk
<1> QED
  BY <1>3, <1>4, <1>5, <1>6, <1>7, <1>8, <1>9

-----------------------------------------------------------------------------
(* One unit of work                                                        *)

LEMMA WorkFacts ==
    ASSUME CursorInv, Working
    PROVE  /\ machine' = machine /\ config' = config
           /\ work' \in Nat /\ work' <= config.maxWork
           /\ callWork \in Nat /\ terminal = NULL
  BY ConfigFacts DEF CursorInv, TypeOK, Working, Calling, OutcomeIsKept

(* What remains to show once the walk and its budget are known.            *)
LEMMA Outcome ==
    ASSUME CursorInv, Working,
           \/ GoOn
           \/ Answer("path") /\ UNCHANGED terminal
           \/ \E o \in Outcomes : End(o),
           frames' # << >> => started'
    PROVE  /\ terminal' \in Outcomes \cup {NULL} /\ callWork' \in Nat \cup {NULL}
           /\ reply' \in Outcomes \cup {"path", "pending", NULL}
           /\ OutcomeIsKept'
<1>1. callWork \in Nat /\ terminal = NULL /\ OutcomeIsKept
      /\ reply \in Outcomes \cup {"path", "pending", NULL}
  BY WorkFacts DEF CursorInv, TypeOK
<1>2. "path" \notin Outcomes
  BY DEF Outcomes, Completions, Errors
<1>3. CASE GoOn
  BY ONLY <1>1, <1>3, frames' # << >> => started' DEF GoOn, OutcomeIsKept, Calling
<1>4. CASE Answer("path") /\ UNCHANGED terminal
  BY ONLY <1>1, <1>2, <1>4, frames' # << >> => started' DEF Answer, OutcomeIsKept, Calling
<1>5. ASSUME NEW o \in Outcomes, End(o)
      PROVE  /\ terminal' \in Outcomes \cup {NULL} /\ callWork' \in Nat \cup {NULL}
             /\ reply' \in Outcomes \cup {"path", "pending", NULL}
             /\ OutcomeIsKept'
  BY ONLY <1>1, <1>5, frames' # << >> => started' DEF End, Answer, OutcomeIsKept, Calling
<1> QED
  BY <1>3, <1>4, <1>5

(* What failing answers with is an outcome.                                *)
LEMMA FailEnds ==
    /\ \A s : Refusals(s) \subseteq Outcomes
    /\ "weight" \in Outcomes
    /\ \A o : Fail(o) => End(o)
  BY DEF Refusals, Obstacle, Outcomes, Completions, Errors, Fail

(* Marking the top frame, and moving it past an arc, keep the walk.        *)
LEMMA Reframed ==
    ASSUME CursorInv, Working, frames # << >>,
           frames' = Marked \/ frames' = Moved,
           UNCHANGED <<steps, budget, truncated, started>>,
           \/ Answer("path") /\ UNCHANGED terminal
           \/ \E o \in Outcomes : End(o)
    PROVE  CursorInv'
<1>1. /\ frames' \in Seq(Frames) /\ frames' # << >> /\ Len(frames') = Len(frames)
      /\ Len(frames) \in Nat \ {0}
      /\ \A i \in 1..Len(frames) :
            /\ frames'[i].state = frames[i].state /\ frames'[i].weight = frames[i].weight
            /\ i # Len(frames) => frames'[i].next = frames[i].next
  <2>1. TypeOK
    BY DEF CursorInv
  <2>2. CASE frames' = Marked
    BY ONLY <2>1, <2>2, frames # << >>, TopFacts
  <2>3. CASE frames' = Moved
    BY ONLY <2>1, <2>3, frames # << >>, TopFacts
  <2> QED
    BY <2>2, <2>3
<1>2. /\ machine' = machine /\ config' = config /\ work' \in Nat /\ work' <= config.maxWork
  BY WorkFacts
<1>3. /\ terminal' \in Outcomes \cup {NULL} /\ callWork' \in Nat \cup {NULL}
      /\ reply' \in Outcomes \cup {"path", "pending", NULL}
      /\ OutcomeIsKept'
  <2>1. frames' # << >> => started'
    BY DEF CursorInv, OutcomeIsKept
  <2> QED
    BY <2>1, Outcome
<1>4. TypeOK'
  BY <1>1, <1>2, <1>3 DEF CursorInv, TypeOK, budget, States, Arcs, Data, Frames
<1>5. WalkIsCoherent'
  <2>1. /\ Len(steps) = Len(frames) - 1
        /\ frames[1].state = machine.start /\ frames[1].weight = 0
        /\ \A i \in 1..Len(steps) :
              /\ steps[i].from = frames[i].state
              /\ frames[i].next - 1 \in 1..Len(Data(frames[i].state).arcs)
              /\ steps[i].arc = Data(frames[i].state).arcs[frames[i].next - 1]
              /\ frames[i + 1].state = steps[i].arc.target
              /\ frames[i + 1].weight = frames[i].weight + steps[i].arc.weight
    BY DEF CursorInv, WalkIsCoherent
  <2>2. \A i \in 1..Len(steps) : i \in 1..Len(frames) /\ i # Len(frames) /\ i + 1 \in 1..Len(frames)
    BY ONLY <1>1, <2>1
  <2>3. 1 \in 1..Len(frames)
    BY ONLY <1>1
  <2>4. \A s : Data(s)' = Data(s)
    BY ONLY <1>2 DEF Data
  <2>5. ASSUME NEW i \in 1..Len(steps)
        PROVE  /\ steps'[i].from = frames'[i].state
               /\ frames'[i].next - 1 \in 1..Len(Data(frames'[i].state).arcs)
               /\ steps'[i].arc = Data(frames'[i].state).arcs[frames'[i].next - 1]
               /\ frames'[i + 1].state = steps'[i].arc.target
               /\ frames'[i + 1].weight = frames'[i].weight + steps'[i].arc.weight
    BY ONLY <1>1, <2>1, <2>2, <2>5, UNCHANGED steps
  <2> QED
    BY ONLY <1>1, <1>2, <2>1, <2>3, <2>4, <2>5, UNCHANGED steps DEF WalkIsCoherent
<1>6. WithinBounds'
  BY <1>1, <1>2 DEF CursorInv, WithinBounds, budget, Data
<1> QED
  BY <1>3, <1>4, <1>5, <1>6 DEF CursorInv

(* Entering a state that nothing keeps the cursor from.                    *)
LEMMA CountKeeps ==
    ASSUME CursorInv, NEW s \in States, Obstacle(s) = NULL, Count(s)
    PROVE  /\ seen' \subseteq States /\ IsFiniteSet(seen') /\ Cardinality(seen') <= config.maxStates
           /\ expanded' \in Nat /\ expanded' <= config.maxArcs
           /\ seen \subseteq seen' /\ s \in seen' /\ Data(s).valid
<1>1. /\ seen \subseteq States /\ IsFiniteSet(seen) /\ Cardinality(seen) <= config.maxStates
      /\ expanded \in Nat /\ expanded <= config.maxArcs /\ TypeOK
  BY DEF CursorInv, TypeOK, WithinBounds
<1>2. config.maxStates \in Nat /\ config.maxArcs \in Nat /\ Len(Data(s).arcs) \in Nat
  BY <1>1, ConfigFacts, LengthFacts
<1>3. Cardinality(seen) \in Nat
  BY <1>1, FS_CardinalityType
<1>4. /\ Data(s).valid
      /\ s \notin seen => /\ Cardinality(seen) < config.maxStates
                           /\ expanded + Len(Data(s).arcs) <= config.maxArcs
  <2>1. NULL # "states" /\ NULL # "arcs" /\ NULL # "invalid"
    BY NullAssumption DEF Outcomes, Errors
  <2> QED
    BY <1>1, <1>2, <1>3, <2>1 DEF Obstacle
<1>5. seen' = seen \cup {s} /\ expanded' = IF s \in seen THEN expanded ELSE expanded + Len(Data(s).arcs)
  BY DEF Count
<1>6. CASE s \in seen
  <2>1. seen' = seen
    BY <1>5, <1>6
  <2> QED
    BY <1>1, <1>4, <1>5, <1>6, <2>1
<1>7. CASE s \notin seen
  <2>1. IsFiniteSet(seen') /\ Cardinality(seen') = Cardinality(seen) + 1
    BY ONLY <1>1, <1>5, <1>7, FS_AddElement
  <2>2. Cardinality(seen') <= config.maxStates
    BY ONLY <1>2, <1>3, <1>4, <1>7, <2>1
  <2>3. expanded' \in Nat /\ expanded' <= config.maxArcs
    BY ONLY <1>1, <1>2, <1>4, <1>5, <1>7
  <2> QED
    BY ONLY <1>1, <1>4, <1>5, <2>1, <2>2, <2>3, s \in States
<1> QED
  BY <1>6, <1>7

LEMMA FrameFacts ==
    ASSUME NEW s \in States, NEW w \in Nat
    PROVE  /\ Frame(s, w) \in Frames
           /\ Frame(s, w).state = s /\ Frame(s, w).weight = w
  BY DEF Frame, Frames

LEMMA BeginKeeps ==
    ASSUME CursorInv, Begin
    PROVE  CursorInv'
<1>1. /\ Working /\ frames = << >> /\ steps = << >> /\ Obstacle(machine.start) = NULL
      /\ Count(machine.start) /\ GoOn /\ started' = TRUE /\ truncated' = truncated
      /\ frames' = << Frame(machine.start, 0) >> /\ steps' = steps
  <2>1. steps \in Seq([from : States, arc : Arcs]) /\ (frames = << >> => Len(steps) = 0)
    BY DEF CursorInv, TypeOK, WalkIsCoherent
  <2> QED
    BY <2>1 DEF Begin
<1>2. machine.start \in States
  BY MachinesAssumption DEF CursorInv, TypeOK, States
<1>3. /\ seen' \subseteq States /\ IsFiniteSet(seen') /\ Cardinality(seen') <= config.maxStates
      /\ expanded' \in Nat /\ expanded' <= config.maxArcs
      /\ machine.start \in seen' /\ Data(machine.start).valid
  BY <1>1, <1>2, CountKeeps
<1>4. /\ machine' = machine /\ config' = config /\ work' \in Nat /\ work' <= config.maxWork
  BY <1>1, WorkFacts
<1>5. /\ frames' \in Seq(Frames) /\ frames' # << >> /\ Len(frames') = 1
      /\ frames'[1].state = machine.start /\ frames'[1].weight = 0
  <2> DEFINE f == Frame(machine.start, 0)
  <2>1. f \in Frames /\ f.state = machine.start /\ f.weight = 0
    BY <1>2, FrameFacts
  <2> HIDE DEF f
  <2>2. frames' = << f >>
    BY <1>1 DEF f
  <2> QED
    BY ONLY <2>1, <2>2
<1>6. /\ terminal' \in Outcomes \cup {NULL} /\ callWork' \in Nat \cup {NULL}
      /\ reply' \in Outcomes \cup {"path", "pending", NULL}
      /\ OutcomeIsKept'
  BY <1>1, Outcome
<1>7. TypeOK'
  <2>1. steps' \in Seq([from : States, arc : Arcs])
    BY <1>1 DEF CursorInv, TypeOK
  <2>2. machine \in Machines /\ config \in Configs /\ truncated \in BOOLEAN
    BY DEF CursorInv, TypeOK
  <2>3. States' = States /\ Arcs' = Arcs
    BY <1>4 DEF States, Arcs, Data
  <2>4. started' \in BOOLEAN /\ truncated' \in BOOLEAN
    BY <1>1, <2>2
  <2> QED
    BY <1>3, <1>4, <1>5, <1>6, <2>1, <2>2, <2>3, <2>4 DEF TypeOK, Frames
<1>8. WalkIsCoherent'
  <2>1. Len(steps') = 0
    BY <1>1
  <2> QED
    BY ONLY <1>4, <1>5, <2>1 DEF WalkIsCoherent
<1>9. WithinBounds'
  <2>1. Len(steps') = 0 /\ config.maxDepth \in Nat
    BY <1>1, ConfigFacts DEF CursorInv
  <2> QED
    BY ONLY <1>3, <1>4, <1>5, <2>1 DEF WithinBounds, Data
<1> QED
  BY <1>6, <1>7, <1>8, <1>9 DEF CursorInv

LEMMA BeginFailsKeeps ==
    ASSUME CursorInv, BeginFails
    PROVE  CursorInv'
<1>1. /\ Working /\ frames = << >> /\ started' = TRUE
      /\ UNCHANGED <<walk, budget, truncated>>
      /\ \E o \in Outcomes : End(o)
  BY FailEnds DEF BeginFails
<1>2. /\ machine' = machine /\ config' = config /\ work' \in Nat /\ work' <= config.maxWork
  BY <1>1, WorkFacts
<1>3. /\ terminal' \in Outcomes \cup {NULL} /\ callWork' \in Nat \cup {NULL}
      /\ reply' \in Outcomes \cup {"path", "pending", NULL}
      /\ OutcomeIsKept'
  BY <1>1, Outcome
<1>4. TypeOK'
  BY <1>1, <1>2, <1>3 DEF CursorInv, TypeOK, walk, budget, States, Arcs, Data
<1>5. WalkIsCoherent'
  BY <1>1, <1>2 DEF CursorInv, WalkIsCoherent, walk, Data
<1>6. WithinBounds'
  BY <1>1, <1>2 DEF CursorInv, WithinBounds, walk, budget, Data
<1> QED
  BY <1>3, <1>4, <1>5, <1>6 DEF CursorInv

LEMMA EmitKeeps ==
    ASSUME CursorInv, Emit \/ EmitFails
    PROVE  CursorInv'
<1>1. CASE Emit
  BY <1>1, Reframed DEF Emit, Yields
<1>2. CASE EmitFails
  <2>1. \E o \in Outcomes : End(o)
    BY <1>2, FailEnds DEF EmitFails
  <2> QED
    BY <1>2, <2>1, Reframed DEF EmitFails, Yields
<1> QED
  BY <1>1, <1>2

LEMMA AdvanceFailsKeeps ==
    ASSUME CursorInv, AdvanceFails
    PROVE  CursorInv'
<1>1. \E o \in Outcomes : End(o)
  BY FailEnds DEF AdvanceFails
<1> QED
  BY <1>1, Reframed DEF AdvanceFails, HasArc

(* The walk goes along an arc.                                             *)
LEMMA AdvanceKeeps ==
    ASSUME CursorInv, Advance
    PROVE  CursorInv'
<1> DEFINE n == Len(frames)
           t == Arc.target
           w == Top.weight + Arc.weight
<1>1. /\ Working /\ HasArc /\ Len(steps) < config.maxDepth /\ Obstacle(t) = NULL
      /\ frames' = Append(Moved, Frame(t, w))
      /\ steps' = Append(steps, [from |-> Top.state, arc |-> Arc])
      /\ Count(t) /\ GoOn /\ truncated' = truncated /\ started' = started
  BY DEF Advance
<1>2. TypeOK /\ frames # << >> /\ Top \in Frames /\ n \in Nat \ {0}
      /\ frames \in Seq(Frames) /\ Top = frames[n]
  BY <1>1, TopFacts DEF CursorInv, HasArc, TypeOK, Frames, Top
<1>3. /\ Moved \in Seq(Frames) /\ Len(Moved) = n
      /\ \A i \in 1..n :
            /\ Moved[i].state = frames[i].state /\ Moved[i].weight = frames[i].weight
            /\ Moved[i].next = IF i = n THEN frames[i].next + 1 ELSE frames[i].next
  BY ONLY <1>2, TopFacts
<1>4. /\ Top.state \in States /\ Top.weight \in Nat /\ Top.next \in Nat \ {0}
      /\ Top.next \in 1..Len(Data(Top.state).arcs)
      /\ Arc = Data(Top.state).arcs[Top.next]
  <2>1. /\ Top.state \in States /\ Top.weight \in Nat /\ Top.next \in Nat \ {0}
    BY ONLY <1>2 DEF Frames
  <2>2. Len(Data(Top.state).arcs) \in Nat
    BY <1>2, <2>1, LengthFacts
  <2> QED
    BY ONLY <1>1, <2>1, <2>2 DEF HasArc, Arc
<1>5. Arc \in Arcs /\ t \in States /\ Arc.weight \in Nat /\ w \in Nat
  <2>1. Arc \in Arcs /\ t \in States /\ Arc.weight \in Nat
    BY ONLY <1>2, <1>4, ArcFacts
  <2> QED
    BY ONLY <1>4, <2>1
<1>6. /\ seen' \subseteq States /\ IsFiniteSet(seen') /\ Cardinality(seen') <= config.maxStates
      /\ expanded' \in Nat /\ expanded' <= config.maxArcs
      /\ seen \subseteq seen' /\ t \in seen' /\ Data(t).valid
  BY <1>1, <1>5, CountKeeps
<1>7. /\ machine' = machine /\ config' = config /\ work' \in Nat /\ work' <= config.maxWork
  BY <1>1, WorkFacts
<1>8. /\ frames' \in Seq(Frames) /\ frames' # << >> /\ Len(frames') = n + 1
      /\ \A i \in 1..n : frames'[i] = Moved[i]
      /\ frames'[n + 1].state = t /\ frames'[n + 1].weight = w
  <2> DEFINE f == Frame(t, w)
  <2>1. f \in Frames /\ f.state = t /\ f.weight = w
    BY <1>5, FrameFacts
  <2> HIDE DEF f
  <2>2. frames' = Append(Moved, f)
    BY <1>1 DEF f
  <2> QED
    BY ONLY <1>3, <2>1, <2>2, Pushed
<1> DEFINE step == [from |-> Top.state, arc |-> Arc]
<1>9. /\ steps \in Seq(Steps) /\ Len(steps) \in Nat /\ steps' \in Seq(Steps) /\ Len(steps') = Len(steps) + 1
      /\ \A i \in 1..Len(steps) : steps'[i] = steps[i]
      /\ steps'[Len(steps) + 1] = step /\ step.from = Top.state /\ step.arc = Arc
  <2>1. steps \in Seq(Steps)
    BY <1>2 DEF TypeOK, Steps
  <2>2. step \in Steps /\ step.from = Top.state /\ step.arc = Arc
    BY ONLY <1>4, <1>5 DEF Steps
  <2>3. steps' = Append(steps, step)
    BY <1>1
  <2> HIDE DEF step
  <2> QED
    BY ONLY <2>1, <2>2, <2>3, Pushed
<1> HIDE DEF n, t, w, step
<1>10. /\ terminal' \in Outcomes \cup {NULL} /\ callWork' \in Nat \cup {NULL}
       /\ reply' \in Outcomes \cup {"path", "pending", NULL}
       /\ OutcomeIsKept'
  <2>1. started'
    BY <1>1, <1>2 DEF CursorInv, OutcomeIsKept
  <2> QED
    BY <1>1, <2>1, Outcome
<1>11. TypeOK'
  <2>1. machine \in Machines /\ config \in Configs /\ truncated \in BOOLEAN /\ started \in BOOLEAN
    BY <1>2 DEF TypeOK
  <2>2. States' = States /\ Arcs' = Arcs
    BY <1>7 DEF States, Arcs, Data
  <2>3. started' \in BOOLEAN /\ truncated' \in BOOLEAN
    BY <1>1, <2>1
  <2>4. steps' \in Seq([from : States', arc : Arcs'])
    BY ONLY <1>9, <2>2 DEF Steps
  <2>5. frames' \in Seq([state : States', next : Nat \ {0}, emitted : BOOLEAN, weight : Nat])
    BY ONLY <1>8, <2>2 DEF Frames
  <2> QED
    BY ONLY <1>6, <1>7, <1>10, <2>1, <2>2, <2>3, <2>4, <2>5 DEF TypeOK
<1>12. WalkIsCoherent'
  <2>1. /\ Len(steps) = n - 1
        /\ frames[1].state = machine.start /\ frames[1].weight = 0
        /\ \A i \in 1..Len(steps) :
              /\ steps[i].from = frames[i].state
              /\ frames[i].next - 1 \in 1..Len(Data(frames[i].state).arcs)
              /\ steps[i].arc = Data(frames[i].state).arcs[frames[i].next - 1]
              /\ frames[i + 1].state = steps[i].arc.target
              /\ frames[i + 1].weight = frames[i].weight + steps[i].arc.weight
    BY <1>2 DEF CursorInv, WalkIsCoherent, n
  <2>2. Data(frames[1].state)' = Data(frames'[1].state) /\ \A s : Data(s)' = Data(s)
    BY <1>7 DEF Data
  <2>3. \A i \in 1..n : frames'[i].state = frames[i].state /\ frames'[i].weight = frames[i].weight
                        /\ frames'[i].next = IF i = n THEN frames[i].next + 1 ELSE frames[i].next
    BY ONLY <1>3, <1>8
  <2>4. ASSUME NEW i \in 1..Len(steps')
        PROVE  /\ steps'[i].from = frames'[i].state
               /\ frames'[i].next - 1 \in 1..Len(Data(frames'[i].state).arcs)
               /\ steps'[i].arc = Data(frames'[i].state).arcs[frames'[i].next - 1]
               /\ frames'[i + 1].state = steps'[i].arc.target
               /\ frames'[i + 1].weight = frames'[i].weight + steps'[i].arc.weight
    <3>1. Len(steps') = n /\ n \in Nat \ {0}
      BY ONLY <1>2, <1>9, <2>1 DEF n
    <3>2. CASE i = n
      <4>1. steps'[i] = step /\ i \in 1..n /\ i = Len(steps) + 1
        BY ONLY <1>9, <2>1, <3>1, <3>2
      <4>2. frames'[i].state = Top.state /\ frames'[i].weight = Top.weight /\ frames'[i].next = Top.next + 1
        BY ONLY <1>2, <2>3, <3>2, <4>1 DEF n
      <4>3. frames'[i].next - 1 = Top.next
        BY ONLY <1>4, <4>2
      <4>4. frames'[i + 1].state = Arc.target /\ frames'[i + 1].weight = Top.weight + Arc.weight
        BY ONLY <1>8, <3>2 DEF t, w
      <4> QED
        BY ONLY <1>4, <1>9, <4>1, <4>2, <4>3, <4>4
    <3>3. CASE i # n
      <4>1. i \in 1..Len(steps) /\ i \in 1..n /\ i + 1 \in 1..n /\ steps'[i] = steps[i]
        BY ONLY <1>9, <2>1, <3>1, <3>3, i \in 1..Len(steps')
      <4> QED
        BY ONLY <2>1, <2>3, <3>3, <4>1
    <3> QED
      BY <3>2, <3>3
  <2>5. /\ Len(steps') = Len(frames') - 1
        /\ frames'[1].state = machine'.start /\ frames'[1].weight = 0
    BY ONLY <1>2, <1>7, <1>8, <1>9, <2>1, <2>3 DEF n
  <2> QED
    BY ONLY <1>8, <2>2, <2>4, <2>5 DEF WalkIsCoherent
<1>13. WithinBounds'
  <2>1. \A i \in 1..n : frames[i].state \in seen /\ Data(frames[i].state).valid
    BY DEF CursorInv, WithinBounds, n
  <2>2. \A s : Data(s)' = Data(s)
    BY <1>7 DEF Data
  <2>3. \A i \in 1..n : frames'[i].state = frames[i].state
    BY ONLY <1>3, <1>8
  <2>4. ASSUME NEW i \in 1..Len(frames')
        PROVE  frames'[i].state \in seen' /\ Data(frames'[i].state).valid
    <3>1. CASE i = n + 1
      BY ONLY <1>6, <1>8, <3>1
    <3>2. CASE i # n + 1
      <4>1. i \in 1..n
        BY ONLY <1>2, <1>8, <3>2, i \in 1..Len(frames') DEF n
      <4> QED
        BY ONLY <1>6, <2>1, <2>3, <4>1
    <3> QED
      BY <3>1, <3>2
  <2>5. Len(steps') <= config.maxDepth
    <3>1. config.maxDepth \in Nat
      BY <1>2, ConfigFacts
    <3> QED
      BY ONLY <1>1, <1>9, <3>1
  <2> QED
    BY ONLY <1>6, <1>7, <2>2, <2>4, <2>5 DEF WithinBounds
<1> QED
  BY <1>10, <1>11, <1>12, <1>13 DEF CursorInv

(* The walk goes back to the state it came from.                           *)
LEMMA RetreatKeeps ==
    ASSUME CursorInv, Retreat
    PROVE  CursorInv'
<1> DEFINE n == Len(frames)
<1>1. /\ Working /\ frames # << >>
      /\ frames' = Pop(frames) /\ steps' = IF n = 1 THEN steps ELSE Pop(steps)
      /\ truncated' = (truncated \/ HasArc) /\ GoOn /\ UNCHANGED <<budget, started>>
  BY DEF Retreat
<1>2. TypeOK /\ frames \in Seq(Frames) /\ steps \in Seq(Steps) /\ n \in Nat \ {0}
  BY <1>1, TopFacts DEF CursorInv, TypeOK, Frames, Steps
<1>3. /\ frames' \in Seq(Frames) /\ Len(frames') = n - 1
      /\ \A i \in 1..(n - 1) : frames'[i] = frames[i]
  BY ONLY <1>1, <1>2, Popped
<1>4. /\ Len(steps) = n - 1
      /\ frames[1].state = machine.start /\ frames[1].weight = 0
      /\ \A i \in 1..Len(steps) :
            /\ steps[i].from = frames[i].state
            /\ frames[i].next - 1 \in 1..Len(Data(frames[i].state).arcs)
            /\ steps[i].arc = Data(frames[i].state).arcs[frames[i].next - 1]
            /\ frames[i + 1].state = steps[i].arc.target
            /\ frames[i + 1].weight = frames[i].weight + steps[i].arc.weight
  BY <1>1 DEF CursorInv, WalkIsCoherent
<1>5. /\ steps' \in Seq(Steps) /\ Len(steps') = IF n = 1 THEN 0 ELSE n - 2
      /\ \A i \in 1..Len(steps') : steps'[i] = steps[i]
  <2>1. CASE n = 1
    BY ONLY <1>1, <1>2, <1>4, <2>1
  <2>2. CASE n # 1
    <3>1. steps # << >> /\ steps' = Pop(steps)
      BY ONLY <1>1, <1>2, <1>4, <2>2
    <3>2. /\ Pop(steps) \in Seq(Steps) /\ Len(Pop(steps)) = Len(steps) - 1
          /\ \A i \in 1..(Len(steps) - 1) : Pop(steps)[i] = steps[i]
      BY ONLY <1>2, <3>1, Popped
    <3> QED
      BY ONLY <1>2, <1>4, <2>2, <3>1, <3>2
  <2> QED
    BY <2>1, <2>2
<1>6. /\ machine' = machine /\ config' = config /\ work' \in Nat /\ work' <= config.maxWork
  BY <1>1, WorkFacts
<1> HIDE DEF n
<1>7. /\ terminal' \in Outcomes \cup {NULL} /\ callWork' \in Nat \cup {NULL}
      /\ reply' \in Outcomes \cup {"path", "pending", NULL}
      /\ OutcomeIsKept'
  <2>1. started'
    BY <1>1 DEF CursorInv, OutcomeIsKept
  <2> QED
    BY <1>1, <2>1, Outcome
<1>8. TypeOK'
  <2>1. machine \in Machines /\ config \in Configs /\ truncated \in BOOLEAN /\ started \in BOOLEAN
        /\ seen \subseteq States /\ IsFiniteSet(seen) /\ expanded \in Nat
    BY <1>2 DEF TypeOK
  <2>2. States' = States /\ Arcs' = Arcs
    BY <1>6 DEF States, Arcs, Data
  <2>3. started' \in BOOLEAN /\ truncated' \in BOOLEAN /\ seen' = seen /\ expanded' = expanded
    BY <1>1, <2>1 DEF budget
  <2>4. steps' \in Seq([from : States', arc : Arcs'])
    BY ONLY <1>5, <2>2 DEF Steps
  <2>5. frames' \in Seq([state : States', next : Nat \ {0}, emitted : BOOLEAN, weight : Nat])
    BY ONLY <1>3, <2>2 DEF Frames
  <2> QED
    BY ONLY <1>6, <1>7, <2>1, <2>2, <2>3, <2>4, <2>5 DEF TypeOK
<1>9. WalkIsCoherent'
  <2>1. \A s : Data(s)' = Data(s)
    BY <1>6 DEF Data
  <2>2. ASSUME NEW i \in 1..Len(steps')
        PROVE  /\ i \in 1..Len(steps) /\ steps'[i] = steps[i]
               /\ frames'[i] = frames[i] /\ frames'[i + 1] = frames[i + 1]
    <3>1. i \in 1..(n - 1) /\ i + 1 \in 1..(n - 1) /\ i \in 1..Len(steps)
      BY ONLY <1>2, <1>4, <1>5, i \in 1..Len(steps')
    <3> QED
      BY ONLY <1>3, <1>5, <3>1, i \in 1..Len(steps')
  <2>3. Len(steps') = IF frames' = << >> THEN 0 ELSE Len(frames') - 1
    BY ONLY <1>2, <1>3, <1>5
  <2>4. frames' # << >> => frames'[1] = frames[1]
    <3>1. frames' # << >> => 1 \in 1..(n - 1)
      BY ONLY <1>2, <1>3
    <3> QED
      BY ONLY <1>3, <3>1
  <2> QED
    BY ONLY <1>4, <1>6, <2>1, <2>2, <2>3, <2>4 DEF WalkIsCoherent
<1>10. WithinBounds'
  <2>1. /\ \A i \in 1..n : frames[i].state \in seen /\ Data(frames[i].state).valid
        /\ Cardinality(seen) <= config.maxStates /\ expanded <= config.maxArcs
        /\ Len(steps) <= config.maxDepth
    BY DEF CursorInv, WithinBounds, n
  <2>2. seen' = seen /\ expanded' = expanded /\ \A s : Data(s)' = Data(s)
    BY <1>1, <1>6 DEF Data, budget
  <2>3. Len(steps') <= config.maxDepth
    <3>1. config.maxDepth \in Nat
      BY <1>2, ConfigFacts
    <3> QED
      BY ONLY <1>2, <1>4, <1>5, <2>1, <3>1
  <2>4. \A i \in 1..Len(frames') : i \in 1..n /\ frames'[i] = frames[i]
    BY ONLY <1>2, <1>3
  <2> QED
    BY ONLY <1>6, <2>1, <2>2, <2>3, <2>4 DEF WithinBounds
<1> QED
  BY <1>7, <1>8, <1>9, <1>10 DEF CursorInv

LEMMA NextKeeps ==
    ASSUME CursorInv, [Next]_vars
    PROVE  CursorInv'
<1>1. CASE UNCHANGED vars
  <2>1. OutcomeIsKept'
    BY <1>1 DEF vars, walk, CursorInv, OutcomeIsKept, Calling
  <2> QED
    BY <1>1, <2>1, Resting DEF vars, CursorInv, TypeOK
<1>2. CASE Next
  BY <1>2, CallsKeep, BeginKeeps, BeginFailsKeeps, EmitKeeps, AdvanceKeeps,
     AdvanceFailsKeeps, RetreatKeeps DEF Next, Poll, Turn
<1> QED
  BY <1>1, <1>2

-----------------------------------------------------------------------------
(* The walks of a machine                                                  *)

LEMMA HopFacts ==
    ASSUME NEW m, NEW h \in Hops(m)
    PROVE  /\ h = [from |-> h.from, via |-> h.via]
           /\ h.from \in DOMAIN m.data /\ h.via \in 1..Len(m.data[h.from].arcs)
  BY DEF Hops, HopsOf

LEMMA HopIsOne ==
    ASSUME NEW m, NEW s \in DOMAIN m.data, NEW i \in 1..Len(m.data[s].arcs)
    PROVE  [from |-> s, via |-> i] \in Hops(m)
  BY DEF Hops, HopsOf

(* The walks of n hops are the sequences of n hops that are walks.         *)
LEMMA WalksAreSequences ==
    ASSUME NEW m, NEW n \in Nat, NEW w
    PROVE  w \in WalksOf(m, n) <=> w \in Seq(Hops(m)) /\ Len(w) = n /\ IsWalk(m, w)
<1>1. ASSUME w \in [1..n -> Hops(m)] PROVE w \in Seq(Hops(m)) /\ Len(w) = n
  <2>1. w \in Seq(Hops(m))
    BY <1>1, IsASeq
  <2>2. DOMAIN w = 1..n /\ DOMAIN w = 1..Len(w) /\ Len(w) \in Nat
    BY <1>1, <2>1, LenProperties
  <2> QED
    BY <2>1, <2>2
<1>2. ASSUME w \in Seq(Hops(m)), Len(w) = n PROVE w \in [1..n -> Hops(m)]
  BY <1>2, LenProperties
<1> QED
  BY <1>1, <1>2 DEF WalksOf

LEMMA WalksWithinAreShort ==
    ASSUME NEW m, NEW n \in Nat, NEW w
    PROVE  w \in WalksWithin(m, n) <=> w \in Seq(Hops(m)) /\ Len(w) <= n /\ IsWalk(m, w)
<1>1. \A k \in 0..n : k \in Nat /\ k <= n
  OBVIOUS
<1>2. ASSUME w \in WalksWithin(m, n) PROVE w \in Seq(Hops(m)) /\ Len(w) <= n /\ IsWalk(m, w)
  <2>1. PICK k \in 0..n : w \in WalksOf(m, k)
    BY <1>2 DEF WalksWithin
  <2> QED
    BY <1>1, <2>1, WalksAreSequences
<1>3. ASSUME w \in Seq(Hops(m)), Len(w) <= n, IsWalk(m, w) PROVE w \in WalksWithin(m, n)
  <2>1. Len(w) \in 0..n /\ Len(w) \in Nat
    BY <1>3, LenProperties
  <2>2. w \in WalksOf(m, Len(w))
    BY <1>3, <2>1, WalksAreSequences
  <2> QED
    BY <2>1, <2>2 DEF WalksWithin
<1> QED
  BY <1>2, <1>3

LEMMA LeastNumber ==
    ASSUME NEW T, T \subseteq Nat, T # {}
    PROVE  \E m \in T : \A n \in T : m <= n
<1> DEFINE R == OpToRel(<, Nat)
<1>1. IsWellFoundedOn(R, Nat)
  BY NatLessThanWellFounded
<1>2. \A m, n \in Nat : <<n, m>> \in R <=> n < m
  BY DEF OpToRel
<1> HIDE DEF R
<1>3. PICK m \in T : \A n \in T : ~ (<<n, m>> \in R)
  BY <1>1, WFMin
<1>4. ASSUME NEW n \in T PROVE m <= n
  <2>1. m \in Nat /\ n \in Nat /\ ~(n < m)
    BY <1>2, <1>3
  <2> QED BY <2>1
<1> QED BY <1>3, <1>4

(* The arcs of a walk of n hops, added up one by one.                      *)
AddsUp(m, w, n, f) ==
    /\ Len(w) = n /\ f \in [0..n -> Nat] /\ f[0] = 0
    /\ \A i \in 1..n : f[i] = f[i - 1] + Taken(m, w[i]).weight

(* A walk weighs what adding up its arcs comes to.                         *)
LEMMA WeightIsSum ==
    ASSUME NEW m, NEW w, NEW n \in Nat, NEW f, AddsUp(m, w, n, f)
    PROVE  WeightOf(m, w) = f[n]
<1> USE DEF AddsUp
<1> DEFINE step(g) == [i \in 0..n |-> IF i = 0 THEN 0 ELSE g[i - 1] + Taken(m, w[i]).weight]
           sum == CHOOSE g : g = step(g)
           differing == {i \in 0..n : sum[i] # f[i]}
<1>1. f = step(f)
  <2>1. ASSUME NEW i \in 0..n PROVE f[i] = step(f)[i]
    <3>1. i = 0 \/ i \in 1..n
      BY ONLY i \in 0..n, n \in Nat
    <3>2. step(f)[i] = IF i = 0 THEN 0 ELSE f[i - 1] + Taken(m, w[i]).weight
      OBVIOUS
    <3>3. i \in 1..n => i # 0
      OBVIOUS
    <3> HIDE DEF step
    <3> QED
      BY <3>1, <3>2, <3>3
  <2> HIDE DEF step
  <2>2. step(f) = [i \in 0..n |-> step(f)[i]]
    BY DEF step
  <2> QED
    BY <2>1, <2>2
<1>2. sum = step(sum)
  BY <1>1
<1>3. WeightOf(m, w) = sum[n]
  BY DEF WeightOf
<1>4. differing = {}
  <2> SUFFICES ASSUME differing # {} PROVE FALSE
    OBVIOUS
  <2>1. PICK i \in differing : \A j \in differing : i <= j
    <3>1. differing \subseteq Nat
      OBVIOUS
    <3> HIDE DEF differing
    <3> QED
      BY <3>1, LeastNumber
  <2>2. i \in 0..n /\ sum[i] # f[i]
    BY <2>1
  <2>3. sum[i] = IF i = 0 THEN 0 ELSE sum[i - 1] + Taken(m, w[i]).weight
    <3>1. step(sum)[i] = IF i = 0 THEN 0 ELSE sum[i - 1] + Taken(m, w[i]).weight
      <4> HIDE DEF sum, differing
      <4> QED
        BY <2>2
    <3> HIDE DEF sum, step
    <3> QED
      BY <1>2, <3>1
  <2>4. i # 0 => sum[i - 1] = f[i - 1]
    <3> SUFFICES ASSUME i # 0 PROVE i - 1 \notin differing
      <4>1. i # 0 => i - 1 \in 0..n
        BY ONLY <2>2
      <4> QED
        BY <4>1
    <3>1. ~(i <= i - 1)
      BY ONLY <2>2
    <3> HIDE DEF differing
    <3> QED
      BY ONLY <2>1, <3>1
  <2>5. i # 0 => i \in 1..n
    BY ONLY <2>2
  <2> HIDE DEF sum, step, differing
  <2> QED
    BY <2>2, <2>3, <2>4, <2>5
<1>5. n \in 0..n
  OBVIOUS
<1> HIDE DEF sum, step
<1> QED
  BY <1>3, <1>4, <1>5

-----------------------------------------------------------------------------
(* The trail of a cursor                                                   *)

(* The hop that a frame went past last.                                    *)
Gone(f) == [from |-> f.state, via |-> f.next - 1]

(* The arcs between the frames are a walk of the machine from its start.   *)
LEMMA TrailIsWalk ==
    ASSUME CursorInv
    PROVE  /\ Trail \in Seq(Hops(machine)) /\ Len(Trail) = Len(steps) /\ IsWalk(machine, Trail)
           /\ Len(steps) \in Nat /\ Len(steps) <= config.maxDepth
           /\ frames # << >> => Len(frames) = Len(steps) + 1 /\ EndOf(machine, Trail) = Top.state
           /\ \A i \in 1..Len(steps) :
                 /\ Trail[i] = Gone(frames[i])
                 /\ Taken(machine, Trail[i]) = steps[i].arc
                 /\ i \in 1..Len(frames) /\ i # Len(frames)
<1>1. /\ Len(steps) \in Nat /\ Len(frames) \in Nat /\ Len(steps) <= config.maxDepth
      /\ \A i \in 1..Len(frames) : frames[i] \in Frames
  <2>1. frames \in Seq(Frames) /\ steps \in Seq(Steps) /\ Len(steps) <= config.maxDepth
    BY DEF CursorInv, TypeOK, WithinBounds, Frames, Steps
  <2> QED
    BY ONLY <2>1
<1>2. /\ Len(steps) = IF frames = << >> THEN 0 ELSE Len(frames) - 1
      /\ frames # << >> => frames[1].state = machine.start
      /\ \A i \in 1..Len(steps) :
           /\ frames[i].next - 1 \in 1..Len(Data(frames[i].state).arcs)
           /\ steps[i].arc = Data(frames[i].state).arcs[frames[i].next - 1]
           /\ frames[i + 1].state = steps[i].arc.target
  BY DEF CursorInv, WalkIsCoherent
<1>3. (frames = << >> <=> Len(frames) = 0) /\ (frames # << >> => Len(frames) = Len(steps) + 1)
  <2>1. frames \in Seq(Frames)
    BY DEF CursorInv, TypeOK, Frames
  <2>2. frames = << >> <=> Len(frames) = 0
    BY ONLY <2>1
  <2> QED
    BY ONLY <1>1, <1>2, <2>2
<1>4. \A i \in 1..Len(steps) : i \in 1..Len(frames) /\ i # Len(frames) /\ i + 1 \in 1..Len(frames)
  BY ONLY <1>1, <1>2, <1>3
<1>5. /\ Trail = [i \in 1..Len(steps) |-> Gone(frames[i])]
  BY DEF Trail, Gone
<1>6. \A i \in 1..Len(steps) : Trail[i] = Gone(frames[i])
  BY ONLY <1>5
<1>7. ASSUME NEW i \in 1..Len(steps)
      PROVE  Gone(frames[i]) \in Hops(machine) /\ Taken(machine, Trail[i]) = steps[i].arc
  <2>1. frames[i].state \in DOMAIN machine.data
    BY ONLY <1>1, <1>4, <1>7 DEF Frames, States
  <2>2. frames[i].next - 1 \in 1..Len(machine.data[frames[i].state].arcs)
    BY ONLY <1>2, <1>7 DEF Data
  <2>3. Gone(frames[i]) \in Hops(machine)
    BY ONLY <2>1, <2>2, HopIsOne DEF Gone
  <2>4. Gone(frames[i]).from = frames[i].state /\ Gone(frames[i]).via = frames[i].next - 1
    BY ONLY TRUE DEF Gone
  <2>5. steps[i].arc = machine.data[frames[i].state].arcs[frames[i].next - 1]
    BY ONLY <1>2, <1>7 DEF Data
  <2> QED
    BY ONLY <1>6, <1>7, <2>3, <2>4, <2>5 DEF Taken
<1>8. Trail \in Seq(Hops(machine)) /\ Len(Trail) = Len(steps)
  <2>1. Trail \in [1..Len(steps) -> Hops(machine)]
    BY ONLY <1>5, <1>7
  <2>2. Trail \in Seq(Hops(machine))
    BY ONLY <1>1, <2>1, IsASeq
  <2>3. DOMAIN Trail = 1..Len(Trail) /\ Len(Trail) \in Nat
    BY ONLY <2>2, LenProperties
  <2> QED
    BY ONLY <1>1, <2>1, <2>2, <2>3
<1>9. IsWalk(machine, Trail)
  <2> SUFFICES ASSUME NEW i \in 1..Len(steps)
               PROVE  Trail[i].from = IF i = 1 THEN machine.start ELSE Taken(machine, Trail[i - 1]).target
    BY <1>8 DEF IsWalk
  <2>1. Trail[i].from = frames[i].state
    <3>1. Trail[i] = Gone(frames[i])
      BY ONLY <1>6, i \in 1..Len(steps)
    <3> QED
      BY ONLY <3>1 DEF Gone
  <2>2. CASE i = 1
    <3>1. frames # << >>
      BY ONLY <1>2, <2>2, i \in 1..Len(steps)
    <3> QED
      BY ONLY <1>2, <2>1, <2>2, <3>1
  <2>3. CASE i # 1
    <3>1. i - 1 \in 1..Len(steps) /\ (i - 1) + 1 = i
      BY ONLY <1>1, <2>3, i \in 1..Len(steps)
    <3>2. Taken(machine, Trail[i - 1]).target = frames[(i - 1) + 1].state
      BY ONLY <1>2, <1>7, <3>1
    <3> QED
      BY ONLY <2>1, <2>3, <3>1, <3>2
  <2> QED
    BY <2>2, <2>3
<1>10. frames # << >> => EndOf(machine, Trail) = Top.state
  <2> SUFFICES ASSUME frames # << >> PROVE EndOf(machine, Trail) = frames[Len(frames)].state
    BY DEF Top
  <2>1. CASE Len(steps) = 0
    <3>1. Trail = << >> /\ Len(frames) = 1
      BY ONLY <1>1, <1>3, <1>8, <2>1, frames # << >>
    <3> QED
      BY ONLY <1>2, <3>1, frames # << >> DEF EndOf
  <2>2. CASE Len(steps) # 0
    <3>1. Trail # << >> /\ Len(steps) \in 1..Len(steps) /\ Len(frames) = Len(steps) + 1
      BY ONLY <1>1, <1>3, <1>8, <2>2, frames # << >>
    <3>2. EndOf(machine, Trail) = Taken(machine, Trail[Len(steps)]).target
      BY ONLY <1>8, <3>1 DEF EndOf
    <3> QED
      BY ONLY <1>2, <1>7, <3>1, <3>2
  <2> QED
    BY <2>1, <2>2
<1> QED
  BY ONLY <1>1, <1>3, <1>4, <1>6, <1>7, <1>8, <1>9, <1>10

(* The top frame carries the weight of the trail.                          *)
LEMMA TrailWeighs ==
    ASSUME CursorInv, frames # << >>
    PROVE  WeightOf(machine, Trail) = Top.weight
<1> DEFINE n == Len(steps)
           f == [i \in 0..n |-> frames[i + 1].weight]
<1>1. /\ n \in Nat /\ Len(Trail) = n /\ Len(frames) = n + 1
      /\ \A i \in 1..n : Taken(machine, Trail[i]) = steps[i].arc
  BY TrailIsWalk
<1>2. /\ frames[1].weight = 0
      /\ \A i \in 1..n : frames[i + 1].weight = frames[i].weight + steps[i].arc.weight
  BY DEF CursorInv, WalkIsCoherent
<1>3. f[0] = 0
  BY ONLY <1>1, <1>2
<1>4. ASSUME NEW i \in 1..n PROVE f[i] = f[i - 1] + Taken(machine, Trail[i]).weight
  <2>1. i \in 0..n /\ i - 1 \in 0..n /\ (i - 1) + 1 = i
    BY ONLY <1>1, <1>4
  <2>2. f[i] = frames[i + 1].weight /\ f[i - 1] = frames[i].weight
    BY ONLY <2>1
  <2> QED
    BY ONLY <1>1, <1>2, <1>4, <2>2
<1>5. f \in [0..n -> Nat]
  <2>1. ASSUME NEW i \in 0..n PROVE frames[i + 1].weight \in Nat
    <3>1. i + 1 \in 1..Len(frames) /\ frames \in Seq(Frames)
      BY <1>1 DEF CursorInv, TypeOK, Frames
    <3>2. frames[i + 1] \in Frames
      BY ONLY <3>1
    <3> QED
      BY ONLY <3>2 DEF Frames
  <2> QED
    BY ONLY <2>1
<1>6. f[n] = Top.weight
  BY ONLY <1>1 DEF Top
<1> HIDE DEF f, n
<1>7. n \in Nat /\ Len(Trail) = n
  BY ONLY <1>1
<1>8. \A i \in 1..n : f[i] = f[i - 1] + Taken(machine, Trail[i]).weight
  BY ONLY <1>4
<1>9. WeightOf(machine, Trail) = f[n]
  <2>1. AddsUp(machine, Trail, n, f)
    BY ONLY <1>3, <1>5, <1>7, <1>8 DEF AddsUp
  <2> QED
    BY ONLY <1>7, <2>1, WeightIsSum
<1> QED
  BY ONLY <1>6, <1>9

-----------------------------------------------------------------------------
(* How far a search has come                                               *)

(* A walk goes along with the frames below frame i.                        *)
Follows(w, fs, i) == Len(w) >= i - 1 /\ \A j \in 1..(i - 1) : w[j] = Gone(fs[j])

(* The first hop that frame i has not been past, or is not past yet.       *)
Bound(fs, i) == IF i = Len(fs) THEN fs[i].next ELSE fs[i].next - 1

(* The frames have gone past a walk: it ends at a frame that has been      *)
(* emitted, or it leaves one of them by an arc that is done with.          *)
Passed(w, fs) ==
    \E i \in 1..Len(fs) :
        /\ Follows(w, fs, i)
        /\ \/ Len(w) = i - 1 /\ fs[i].emitted
           \/ Len(w) >= i /\ w[i].via < Bound(fs, i)

(* Of n frames the top one is marked, and perhaps a new one is pushed.     *)
GoesOn(fs, gs, n) ==
    /\ Len(fs) = n /\ \A i \in 1..n : i # n => gs[i] = fs[i]
    /\ gs[n].emitted /\ Bound(gs, n) = Bound(fs, n)
    /\ Len(gs) = n \/ (Len(gs) = n + 1 /\ gs[n + 1].next = 1 /\ ~gs[n + 1].emitted)

(* Marking the top frame, or pushing a new one on it, goes past the walk   *)
(* of the frames themselves and past no other.                             *)
LEMMA PassedByPushing ==
    ASSUME NEW fs, NEW gs, NEW w, NEW n \in Nat \ {0}, Len(w) \in Nat,
           \A i \in 1..Len(w) : w[i].via \in Nat \ {0}, GoesOn(fs, gs, n)
    PROVE  Passed(w, gs) <=> Passed(w, fs) \/ (Len(w) = n - 1 /\ Follows(w, fs, n))
<1> USE DEF GoesOn
<1>1. \A i \in 1..n : Follows(w, gs, i) <=> Follows(w, fs, i)
  BY DEF Follows
<1>2. \A i \in 1..n : Bound(gs, i) = Bound(fs, i)
  BY DEF Bound
<1>3. ASSUME Passed(w, gs) PROVE Passed(w, fs) \/ (Len(w) = n - 1 /\ Follows(w, fs, n))
  <2>1. PICK i \in 1..Len(gs) : /\ Follows(w, gs, i)
                                /\ \/ Len(w) = i - 1 /\ gs[i].emitted
                                   \/ Len(w) >= i /\ w[i].via < Bound(gs, i)
    BY <1>3 DEF Passed
  <2>2. CASE i = n + 1
    <3>1. Bound(gs, i) = 1 /\ ~gs[i].emitted
      BY <2>2 DEF Bound
    <3>2. Len(w) >= i /\ w[i].via < 1
      BY ONLY <2>1, <3>1
    <3>3. i \in 1..Len(w)
      BY <3>2
    <3>4. w[i].via \in Nat \ {0}
      BY <3>3
    <3> QED
      BY ONLY <3>2, <3>4
  <2>3. CASE i = n
    BY <1>1, <1>2, <2>1, <2>3 DEF Passed
  <2>4. CASE i # n /\ i # n + 1
    <3>1. i \in 1..n /\ gs[i] = fs[i]
      BY <2>1, <2>4
    <3> QED
      BY ONLY <1>1, <1>2, <2>1, <3>1, Len(fs) = n DEF Passed
  <2> QED
    BY <2>2, <2>3, <2>4
<1>4. ASSUME Len(w) = n - 1, Follows(w, fs, n) PROVE Passed(w, gs)
  <2>1. n \in 1..Len(gs) /\ Follows(w, gs, n)
    BY <1>1, <1>4
  <2> QED
    BY ONLY <1>4, <2>1, gs[n].emitted DEF Passed
<1>5. ASSUME Passed(w, fs) PROVE Passed(w, gs)
  <2>1. PICK i \in 1..n : /\ Follows(w, fs, i)
                          /\ \/ Len(w) = i - 1 /\ fs[i].emitted
                             \/ Len(w) >= i /\ w[i].via < Bound(fs, i)
    BY <1>5 DEF Passed
  <2>2. fs[i].emitted => gs[i].emitted
    <3>1. i # n => gs[i] = fs[i]
      OBVIOUS
    <3> QED
      BY <3>1
  <2>3. i \in 1..Len(gs)
    OBVIOUS
  <2> QED
    BY ONLY <1>1, <1>2, <2>1, <2>2, <2>3 DEF Passed
<1> QED
  BY <1>3, <1>4, <1>5

(* Popping a frame goes past the walks that go along with the frames and   *)
(* have not been passed: of those below it, the ones that it cut off.      *)
LEMMA PassedByPopping ==
    ASSUME NEW fs, NEW gs, NEW w, NEW n \in Nat \ {0, 1},
           Len(fs) = n, Len(gs) = n - 1, Len(w) \in Nat,
           \A i \in 1..Len(w) : w[i].via \in Nat \ {0},
           \A i \in 1..n : fs[i].next \in Nat \ {0},
           \A i \in 1..(n - 1) : gs[i] = fs[i],
           Follows(w, fs, n - 1) /\ Len(w) >= n - 1
               => w[n - 1] = [from |-> fs[n - 1].state, via |-> w[n - 1].via]
    PROVE  /\ Passed(w, fs) => Passed(w, gs)
           /\ Passed(w, gs) => \/ Passed(w, fs)
                               \/ Follows(w, fs, n) /\ Len(w) = n - 1 /\ ~fs[n].emitted
                               \/ Follows(w, fs, n) /\ Len(w) >= n /\ w[n].via >= fs[n].next
<1>1. \A i \in 1..(n - 1) : Follows(w, gs, i) <=> Follows(w, fs, i)
  BY DEF Follows
<1>2. \A i \in 1..(n - 1) : Bound(gs, i) = IF i = n - 1 THEN Bound(fs, i) + 1 ELSE Bound(fs, i)
  BY DEF Bound
<1>3. \A i \in 1..n : Bound(fs, i) \in Nat
  BY DEF Bound
<1>4. Follows(w, fs, n) => /\ Follows(w, fs, n - 1) /\ Len(w) >= n - 1
                           /\ w[n - 1].via = fs[n - 1].next - 1
  <2> SUFFICES ASSUME Follows(w, fs, n)
               PROVE  /\ Follows(w, fs, n - 1) /\ Len(w) >= n - 1
                      /\ w[n - 1].via = fs[n - 1].next - 1
    OBVIOUS
  <2>1. Len(w) >= n - 1 /\ \A j \in 1..(n - 1) : w[j] = Gone(fs[j])
    BY DEF Follows
  <2>2. w[n - 1] = Gone(fs[n - 1])
    BY <2>1
  <2>3. w[n - 1].via = fs[n - 1].next - 1
    BY ONLY <2>2 DEF Gone
  <2>4. Follows(w, fs, n - 1)
    BY <2>1 DEF Follows
  <2> QED
    BY ONLY <2>1, <2>3, <2>4
<1>5. Bound(fs, n) = fs[n].next /\ Bound(fs, n - 1) = fs[n - 1].next - 1
  BY DEF Bound
<1>6. ASSUME Passed(w, fs) PROVE Passed(w, gs)
  <2>1. PICK i \in 1..n : /\ Follows(w, fs, i)
                          /\ \/ Len(w) = i - 1 /\ fs[i].emitted
                             \/ Len(w) >= i /\ w[i].via < Bound(fs, i)
    BY <1>6 DEF Passed
  <2>2. CASE i = n
    <3>1. n - 1 \in 1..Len(gs) /\ n - 1 \in 1..(n - 1)
      OBVIOUS
    <3>2. Follows(w, gs, n - 1) /\ Len(w) >= n - 1
      BY ONLY <1>1, <1>4, <2>1, <2>2, <3>1
    <3>3. w[n - 1].via < Bound(gs, n - 1)
      <4>1. w[n - 1].via = Bound(fs, n - 1) /\ Bound(gs, n - 1) = Bound(fs, n - 1) + 1
        BY ONLY <1>2, <1>4, <1>5, <2>1, <2>2, <3>1
      <4>2. Bound(fs, n - 1) \in Nat
        BY <1>3
      <4> QED
        BY ONLY <4>1, <4>2
    <3> QED
      BY ONLY <3>1, <3>2, <3>3 DEF Passed
  <2>3. CASE i # n
    <3>1. i \in 1..(n - 1) /\ i \in 1..Len(gs) /\ gs[i] = fs[i]
      BY <2>3
    <3>2. Len(w) >= i => w[i].via \in Nat
      BY <3>1
    <3>3. w[i].via < Bound(fs, i) /\ Len(w) >= i => w[i].via < Bound(gs, i)
      <4>1. Bound(fs, i) \in Nat
        BY <1>3
      <4>2. Bound(gs, i) = Bound(fs, i) + 1 \/ Bound(gs, i) = Bound(fs, i)
        BY ONLY <1>2, <3>1
      <4> QED
        BY ONLY <3>2, <4>1, <4>2
    <3> QED
      BY ONLY <1>1, <2>1, <3>1, <3>3 DEF Passed
  <2> QED
    BY <2>2, <2>3
<1>7. ASSUME Passed(w, gs), ~Passed(w, fs)
      PROVE  \/ Follows(w, fs, n) /\ Len(w) = n - 1 /\ ~fs[n].emitted
             \/ Follows(w, fs, n) /\ Len(w) >= n /\ w[n].via >= fs[n].next
  <2>1. PICK i \in 1..(n - 1) : /\ Follows(w, gs, i)
                                /\ \/ Len(w) = i - 1 /\ gs[i].emitted
                                   \/ Len(w) >= i /\ w[i].via < Bound(gs, i)
    BY <1>7 DEF Passed
  <2>2. /\ Follows(w, fs, i) /\ i \in 1..Len(fs) /\ i \in 1..n
        /\ gs[i] = fs[i]
    BY <1>1, <2>1
  <2>3. ~(Len(w) = i - 1 /\ fs[i].emitted) /\ ~(Len(w) >= i /\ w[i].via < Bound(fs, i))
    BY ONLY <1>7, <2>2 DEF Passed
  <2>4. Len(w) >= i /\ w[i].via < Bound(gs, i) /\ ~(w[i].via < Bound(fs, i))
    BY ONLY <2>1, <2>2, <2>3
  <2>5. i = n - 1
    BY ONLY <1>2, <2>1, <2>4
  <2>6. w[i].via = fs[n - 1].next - 1
    <3>1. Bound(gs, i) = Bound(fs, i) + 1 /\ Bound(fs, i) = fs[n - 1].next - 1
      BY ONLY <1>2, <1>5, <2>1, <2>5
    <3>2. i \in 1..Len(w)
      BY <2>4
    <3>3. w[i].via \in Nat /\ Bound(fs, i) \in Nat
      BY <1>3, <2>2, <3>2
    <3> QED
      BY ONLY <2>4, <3>1, <3>3
  <2>7. w[n - 1] = Gone(fs[n - 1])
    BY <2>2, <2>4, <2>5, <2>6 DEF Gone
  <2>8. Follows(w, fs, n)
    <3>1. ASSUME NEW j \in 1..(n - 1) PROVE w[j] = Gone(fs[j])
      <4>1. j = n - 1 \/ j \in 1..((n - 1) - 1)
        OBVIOUS
      <4>2. \A k \in 1..((n - 1) - 1) : w[k] = Gone(fs[k])
        BY ONLY <2>2, <2>5 DEF Follows
      <4> QED
        BY ONLY <2>7, <4>1, <4>2
    <3> QED
      BY ONLY <2>4, <2>5, <3>1 DEF Follows
  <2>9. ~(Len(w) = n - 1 /\ fs[n].emitted) /\ ~(Len(w) >= n /\ w[n].via < fs[n].next)
    <3>1. n \in 1..Len(fs)
      OBVIOUS
    <3> QED
      BY ONLY <1>5, <1>7, <2>8, <3>1 DEF Passed
  <2>10. CASE Len(w) = n - 1
    BY ONLY <2>8, <2>9, <2>10
  <2>11. CASE Len(w) # n - 1
    <3>1. Len(w) >= n /\ n \in 1..Len(w)
      BY <2>4, <2>5, <2>11
    <3>2. w[n].via \in Nat /\ fs[n].next \in Nat
      BY <3>1
    <3> QED
      BY ONLY <2>8, <2>9, <3>1, <3>2
  <2> QED
    BY <2>10, <2>11
<1> QED
  BY <1>6, <1>7

Behind(w) == IF frames = << >> THEN started ELSE Passed(w, frames)

(* The hops of a walk name arcs of the states they leave.                  *)
LEMMA WalkHops ==
    ASSUME TypeOK, NEW w \in Seq(Hops(machine))
    PROVE  /\ Len(w) \in Nat
           /\ \A i \in 1..Len(w) :
                 /\ w[i] = [from |-> w[i].from, via |-> w[i].via]
                 /\ w[i].from \in States /\ w[i].via \in 1..Len(Data(w[i].from).arcs)
                 /\ Len(Data(w[i].from).arcs) \in Nat /\ w[i].via \in Nat \ {0}
<1>1. Len(w) \in Nat /\ \A i \in 1..Len(w) : w[i] \in Hops(machine)
  OBVIOUS
<1>2. ASSUME NEW i \in 1..Len(w)
      PROVE  /\ w[i] = [from |-> w[i].from, via |-> w[i].via]
             /\ w[i].from \in States /\ w[i].via \in 1..Len(Data(w[i].from).arcs)
             /\ Len(Data(w[i].from).arcs) \in Nat /\ w[i].via \in Nat \ {0}
  <2> DEFINE h == w[i]
  <2>1. h \in Hops(machine)
    BY <1>1
  <2> HIDE DEF h
  <2>2. h = [from |-> h.from, via |-> h.via] /\ h.from \in States /\ h.via \in 1..Len(Data(h.from).arcs)
    BY ONLY <2>1, HopFacts DEF States, Data
  <2>3. Len(Data(h.from).arcs) \in Nat
    BY <2>2, LengthFacts
  <2>4. h.via \in Nat \ {0}
    BY ONLY <2>2, <2>3
  <2> QED
    BY ONLY <2>2, <2>3, <2>4 DEF h
<1> QED
  BY <1>1, <1>2

(* A walk that goes along with the frames leaves the same states.          *)
LEMMA FollowsFrames ==
    ASSUME CursorInv, NEW w \in Seq(Hops(machine)), IsWalk(machine, w),
           NEW i \in 1..Len(frames), Follows(w, frames, i)
    PROVE  /\ Len(w) >= i => w[i].from = frames[i].state
           /\ i = Len(frames) /\ Len(w) = i - 1 => w = Trail
<1>1. /\ Trail \in Seq(Hops(machine)) /\ Len(Trail) = Len(steps)
      /\ Len(steps) \in Nat /\ Len(frames) \in Nat
      /\ frames # << >> => Len(frames) = Len(steps) + 1
      /\ \A j \in 1..Len(steps) : Trail[j] = Gone(frames[j]) /\ Taken(machine, Trail[j]) = steps[j].arc
  <2>1. Len(frames) \in Nat
    BY DEF CursorInv, TypeOK
  <2> QED
    BY <2>1, TrailIsWalk
<1>2. frames # << >> /\ Len(frames) = Len(steps) + 1
  <2>1. frames # << >>
    BY <1>1
  <2> QED
    BY ONLY <1>1, <2>1
<1>3. Len(w) \in Nat /\ Len(w) >= i - 1 /\ \A j \in 1..(i - 1) : w[j] = Gone(frames[j])
  BY DEF Follows
<1>4. ASSUME Len(w) >= i PROVE w[i].from = frames[i].state
  <2>1. w[i].from = IF i = 1 THEN machine.start ELSE Taken(machine, w[i - 1]).target
    BY <1>3, <1>4 DEF IsWalk
  <2>2. CASE i = 1
    BY <1>2, <2>1, <2>2 DEF CursorInv, WalkIsCoherent
  <2>3. CASE i # 1
    <3>1. i - 1 \in 1..Len(steps) /\ i - 1 \in 1..(i - 1) /\ (i - 1) + 1 = i
      BY <1>1, <1>2, <2>3
    <3>2. w[i - 1] = Trail[i - 1]
      BY ONLY <1>1, <1>3, <3>1
    <3>3. frames[(i - 1) + 1].state = steps[i - 1].arc.target
      BY <3>1 DEF CursorInv, WalkIsCoherent
    <3> QED
      BY ONLY <1>1, <2>1, <2>3, <3>1, <3>2, <3>3
  <2> QED
    BY <2>2, <2>3
<1>5. ASSUME i = Len(frames), Len(w) = i - 1 PROVE w = Trail
  <2>1. Len(w) = Len(steps) /\ i - 1 = Len(steps)
    BY ONLY <1>1, <1>2, <1>5
  <2>2. \A j \in 1..Len(steps) : w[j] = Trail[j]
    BY ONLY <1>1, <1>3, <2>1
  <2>3. Len(w) = Len(Trail) /\ \A j \in 1..Len(w) : w[j] = Trail[j]
    BY ONLY <1>1, <2>1, <2>2
  <2> QED
    BY ONLY <1>1, <2>3, w \in Seq(Hops(machine)), SeqEqual
<1> QED
  BY <1>4, <1>5

LEMMA TrailFollows ==
    ASSUME CursorInv, frames # << >>
    PROVE  Follows(Trail, frames, Len(frames)) /\ Len(Trail) = Len(frames) - 1
<1>1. /\ Len(Trail) = Len(steps) /\ Len(steps) \in Nat /\ Len(frames) = Len(steps) + 1
      /\ \A j \in 1..Len(steps) : Trail[j] = Gone(frames[j])
  BY TrailIsWalk
<1> QED
  BY ONLY <1>1 DEF Follows

(* What marking and moving do to the frames.                               *)
LEMMA ReframeFacts ==
    ASSUME TypeOK, frames # << >>
    PROVE  /\ \A i \in 1..Len(frames) : i # Len(frames) => Marked[i] = frames[i] /\ Moved[i] = frames[i]
           /\ Marked[Len(frames)].emitted /\ Moved[Len(frames)].emitted
           /\ Marked[Len(frames)].next = Top.next /\ Moved[Len(frames)].next = Top.next + 1
           /\ Len(Marked) = Len(frames) /\ Len(Moved) = Len(frames)
<1> DEFINE n == Len(frames)
<1>1. frames \in Seq(Frames) /\ n \in Nat \ {0} /\ n \in 1..n /\ Top \in Frames /\ Top = frames[n]
  BY TopFacts DEF TypeOK, Frames, Top
<1> HIDE DEF n
<1>2. DOMAIN frames = 1..n
  BY ONLY <1>1 DEF n
<1>3. Marked = [i \in 1..n |-> IF i = n THEN [Top EXCEPT !.emitted = TRUE] ELSE frames[i]]
  BY ONLY <1>1, <1>2 DEF Marked, n
<1>4. Moved = [i \in 1..n |-> IF i = n THEN [Marked[n] EXCEPT !.next = @ + 1] ELSE Marked[i]]
  BY ONLY <1>1, <1>3 DEF Moved, n
<1>5. \A i \in 1..n : i # n => Marked[i] = frames[i] /\ Moved[i] = frames[i]
  BY ONLY <1>3, <1>4
<1>6. Marked[n] = [Top EXCEPT !.emitted = TRUE] /\ Moved[n] = [Marked[n] EXCEPT !.next = @ + 1]
  BY ONLY <1>1, <1>3, <1>4
<1> DEFINE f == Marked[n]
<1>7. f \in Frames /\ f.emitted /\ f.next = Top.next
  BY ONLY <1>1, <1>6 DEF Frames
<1> HIDE DEF f
<1>8. Moved[n] = [f EXCEPT !.next = @ + 1]
  BY ONLY <1>6 DEF f
<1>9. Moved[n].emitted /\ Moved[n].next = Top.next + 1
  BY ONLY <1>7, <1>8 DEF Frames
<1>10. Len(Marked) = n /\ Len(Moved) = n
  BY <1>1, TopFacts DEF n
<1> QED
  BY ONLY <1>5, <1>7, <1>9, <1>10 DEF f, n

(* Nothing is behind the search when it begins.                            *)
LEMMA BeginPasses ==
    ASSUME CursorInv, Begin, NEW w \in Seq(Hops(machine))
    PROVE  ~Behind(w) /\ ~Behind(w)'
<1>1. frames = << >> /\ ~started
  BY DEF Begin, Working, Finished
<1>2. frames' = << Frame(machine.start, 0) >>
  BY DEF Begin
<1>3. Len(frames') = 1 /\ ~frames'[1].emitted /\ frames'[1].next = 1 /\ frames' # << >>
  BY <1>2 DEF Frame
<1>4. ~Passed(w, frames')
  <2> SUFFICES ASSUME Passed(w, frames') PROVE FALSE
    OBVIOUS
  <2>1. PICK i \in 1..1 : /\ Follows(w, frames', i)
                          /\ \/ Len(w) = i - 1 /\ frames'[i].emitted
                             \/ Len(w) >= i /\ w[i].via < Bound(frames', i)
    BY <1>3 DEF Passed
  <2>2. i = 1 /\ Bound(frames', 1) = 1
    BY <1>3 DEF Bound
  <2>3. Len(w) >= 1 /\ w[1].via < 1
    BY ONLY <1>3, <2>1, <2>2
  <2>4. w[1].via \in Nat \ {0}
    <3>1. Len(w) \in Nat /\ \A j \in 1..Len(w) : w[j].via \in Nat \ {0}
      BY WalkHops DEF CursorInv
    <3> QED
      BY ONLY <2>3, <3>1
  <2> QED
    BY ONLY <2>3, <2>4
<1> QED
  BY ONLY <1>1, <1>3, <1>4 DEF Behind

(* Going on from the top frame, or staying, goes past the trail.           *)
LEMMA TurnPasses ==
    ASSUME CursorInv, Emit \/ Advance, NEW w \in Seq(Hops(machine)), IsWalk(machine, w)
    PROVE  Behind(w)' <=> Behind(w) \/ w = Trail
<1> DEFINE n == Len(frames)
<1>1. TypeOK /\ frames # << >>
  BY DEF CursorInv, Emit, Advance, Yields, HasArc
<1>2. n \in Nat \ {0} /\ n \in 1..n /\ Top = frames[n]
  BY <1>1, TopFacts DEF Top
<1>3. Len(w) \in Nat /\ \A i \in 1..Len(w) : w[i].via \in Nat \ {0}
  BY <1>1, WalkHops
<1>4. /\ \A i \in 1..n : i # n => Marked[i] = frames[i] /\ Moved[i] = frames[i]
      /\ Marked[n].emitted /\ Moved[n].emitted
      /\ Marked[n].next = Top.next /\ Moved[n].next = Top.next + 1
      /\ Len(Marked) = n /\ Len(Moved) = n
  BY <1>1, ReframeFacts
<1>5. Len(w) = n - 1 /\ Follows(w, frames, n) <=> w = Trail
  <2>1. Len(w) = n - 1 /\ Follows(w, frames, n) => w = Trail
    BY <1>2, FollowsFrames
  <2>2. w = Trail => Len(w) = n - 1 /\ Follows(w, frames, n)
    BY <1>1, TrailFollows
  <2> QED
    BY <2>1, <2>2
<1>6. Top.next \in Nat
  BY <1>1, TopFacts DEF Frames
<1> HIDE DEF n
<1>7. Passed(w, frames') <=> Passed(w, frames) \/ (Len(w) = n - 1 /\ Follows(w, frames, n))
  <2>1. CASE Emit
    <3>1. frames' = Marked
      BY <2>1 DEF Emit
    <3>2. Len(frames') = n /\ frames'[n].emitted /\ \A i \in 1..n : i # n => frames'[i] = frames[i]
      BY ONLY <1>4, <3>1
    <3>3. Bound(frames', n) = Bound(frames, n)
      BY ONLY <1>2, <1>4, <3>1, <3>2 DEF Bound, n
    <3>4. Len(frames) = n
      BY ONLY <1>2 DEF n
    <3>5. GoesOn(frames, frames', n)
      BY ONLY <1>2, <3>2, <3>3, <3>4 DEF GoesOn
    <3> QED
      BY ONLY <1>2, <1>3, <3>5, PassedByPushing
  <2>2. CASE Advance
    <3> DEFINE f == Frame(Arc.target, Top.weight + Arc.weight)
    <3>1. frames' = Append(Moved, f) /\ f.next = 1 /\ ~f.emitted
      BY <2>2 DEF Advance, Frame
    <3> HIDE DEF f
    <3>2. Moved \in Seq(Frames)
      BY <1>1, TopFacts
    <3>3. /\ Len(frames') = n + 1 /\ frames'[n + 1] = f
          /\ \A i \in 1..n : frames'[i] = Moved[i]
      BY ONLY <1>2, <1>4, <3>1, <3>2
    <3>4. frames'[n].emitted /\ \A i \in 1..n : i # n => frames'[i] = frames[i]
      BY ONLY <1>2, <1>4, <3>3
    <3>5. Bound(frames', n) = Bound(frames, n)
      <4>1. n # n + 1 /\ frames'[n].next = Top.next + 1
        BY ONLY <1>2, <1>4, <3>3
      <4>2. Bound(frames', n) = (Top.next + 1) - 1
        BY ONLY <3>3, <4>1 DEF Bound
      <4>3. Bound(frames, n) = Top.next
        BY ONLY <1>2 DEF Bound, n
      <4> QED
        BY ONLY <1>6, <4>2, <4>3
    <3>6. Len(frames) = n
      BY ONLY <1>2 DEF n
    <3>7. frames'[n + 1].next = 1 /\ ~frames'[n + 1].emitted
      BY ONLY <3>1, <3>3
    <3>8. GoesOn(frames, frames', n)
      BY ONLY <1>2, <3>3, <3>4, <3>5, <3>6, <3>7 DEF GoesOn
    <3> QED
      BY ONLY <1>2, <1>3, <3>8, PassedByPushing
  <2> QED
    BY <2>1, <2>2
<1>8. frames' # << >>
  BY <1>1, TopFacts DEF Emit, Advance
<1> QED
  BY ONLY <1>1, <1>5, <1>7, <1>8 DEF Behind

(* Going back goes past the trail, and past what it cuts off.              *)
LEMMA RetreatPasses ==
    ASSUME CursorInv, Retreat, NEW w \in Seq(Hops(machine)), IsWalk(machine, w)
    PROVE  /\ Behind(w) => Behind(w)'
           /\ Behind(w)' => \/ Behind(w)
                            \/ w = Trail /\ ~Top.emitted
                            \/ Len(w) > config.maxDepth /\ truncated'
<1> DEFINE n == Len(frames)
<1>1. TypeOK /\ frames # << >> /\ ~Yields /\ (~HasArc \/ Len(steps) >= config.maxDepth)
      /\ frames' = Pop(frames) /\ truncated' = (truncated \/ HasArc) /\ started' = started
  BY DEF CursorInv, Retreat
<1>2. n \in Nat \ {0} /\ n \in 1..n /\ Top = frames[n] /\ frames \in Seq(Frames)
  BY <1>1, TopFacts DEF Top, TypeOK, Frames
<1>3. /\ Len(w) \in Nat
      /\ \A i \in 1..Len(w) : /\ w[i] = [from |-> w[i].from, via |-> w[i].via]
                              /\ w[i].via \in 1..Len(Data(w[i].from).arcs)
                              /\ Len(Data(w[i].from).arcs) \in Nat /\ w[i].via \in Nat \ {0}
  BY <1>1, WalkHops
<1>4. Len(frames') = n - 1 /\ \A i \in 1..(n - 1) : frames'[i] = frames[i]
  BY ONLY <1>1, <1>2, Popped
<1>5. Len(w) = n - 1 /\ Follows(w, frames, n) => w = Trail
  BY <1>2, FollowsFrames
<1>6. \A i \in 1..n : Follows(w, frames, i) /\ Len(w) >= i => w[i].from = frames[i].state
  BY FollowsFrames
<1>7. Len(steps) = n - 1 /\ config.maxDepth \in Nat /\ started
  <2>1. Len(steps) = n - 1 /\ started
    BY <1>1 DEF CursorInv, WalkIsCoherent, OutcomeIsKept
  <2> QED
    BY <1>1, <2>1, ConfigFacts
<1> HIDE DEF n
<1>8. ASSUME Follows(w, frames, n), Len(w) >= n, w[n].via >= frames[n].next
      PROVE  Len(w) > config.maxDepth /\ truncated'
  <2>1. n \in 1..Len(w) /\ w[n].from = Top.state
    BY ONLY <1>2, <1>3, <1>6, <1>8
  <2>2. w[n].via \in 1..Len(Data(Top.state).arcs) /\ Len(Data(Top.state).arcs) \in Nat
    BY ONLY <1>3, <2>1
  <2>3. Top.next \in Nat
    BY <1>1, TopFacts DEF Frames
  <2>4. Top.next <= Len(Data(Top.state).arcs)
    BY ONLY <1>2, <1>8, <2>2, <2>3
  <2>5. HasArc
    BY ONLY <1>1, <2>4 DEF HasArc
  <2> QED
    <3>1. Len(steps) >= config.maxDepth /\ truncated'
      BY ONLY <1>1, <2>5
    <3> QED
      BY ONLY <1>2, <1>3, <1>7, <1>8, <3>1
<1>9. CASE n = 1
  <2>1. frames' = << >>
    <3>1. frames' \in Seq(Frames)
      BY ONLY <1>1, <1>2, Popped
    <3> QED
      BY ONLY <1>4, <1>9, <3>1
  <2>2. Behind(w)'
    BY ONLY <1>1, <1>7, <2>1 DEF Behind
  <2>3. Follows(w, frames, 1)
    BY ONLY <1>3 DEF Follows
  <2>4. CASE Len(w) = 0
    <3>1. Top.emitted => Passed(w, frames)
      BY ONLY <1>2, <1>9, <2>3, <2>4 DEF Passed, n
    <3> QED
      BY ONLY <1>1, <1>5, <1>9, <2>2, <2>3, <2>4, <3>1 DEF Behind
  <2>5. CASE Len(w) # 0
    <3>1. Len(w) >= 1 /\ 1 \in 1..Len(w)
      BY ONLY <1>3, <2>5
    <3>2. w[1].via < frames[1].next => Passed(w, frames)
      <4>1. Bound(frames, 1) = frames[1].next
        BY ONLY <1>9 DEF Bound, n
      <4> QED
        BY ONLY <1>2, <1>9, <2>3, <3>1, <4>1 DEF Passed, n
    <3>3. frames[1].next \in Nat /\ w[1].via \in Nat
      <4>1. Top.next \in Nat
        BY <1>1, TopFacts DEF Frames
      <4> QED
        BY ONLY <1>2, <1>3, <1>9, <3>1, <4>1
    <3>4. ~(w[1].via < frames[1].next) => Len(w) > config.maxDepth /\ truncated'
      BY ONLY <1>8, <1>9, <2>3, <3>1, <3>3
    <3> QED
      BY ONLY <1>1, <2>2, <3>2, <3>4 DEF Behind
  <2> QED
    BY <2>4, <2>5
<1>10. CASE n # 1
  <2>1. n \in Nat \ {0, 1} /\ Len(frames) = n /\ n - 1 \in 1..n
    <3>1. n \in Nat \ {0}
      BY ONLY <1>2
    <3>2. Len(frames) = n
      BY ONLY TRUE DEF n
    <3> QED
      BY ONLY <1>10, <3>1, <3>2
  <2>2. \A i \in 1..n : frames[i].next \in Nat \ {0}
    <3>1. \A i \in 1..n : frames[i] \in Frames
      BY ONLY <1>2 DEF n
    <3> QED
      BY ONLY <3>1 DEF Frames
  <2>3. Follows(w, frames, n - 1) /\ Len(w) >= n - 1
            => w[n - 1] = [from |-> frames[n - 1].state, via |-> w[n - 1].via]
    <3>1. Len(w) >= n - 1 => n - 1 \in 1..Len(w)
      BY ONLY <1>3, <2>1
    <3> QED
      BY ONLY <1>3, <1>6, <2>1, <3>1
  <2>4. Len(w) \in Nat /\ \A i \in 1..Len(w) : w[i].via \in Nat \ {0}
    BY ONLY <1>3
  <2>5. /\ Passed(w, frames) => Passed(w, frames')
        /\ Passed(w, frames') => \/ Passed(w, frames)
                                 \/ Follows(w, frames, n) /\ Len(w) = n - 1 /\ ~frames[n].emitted
                                 \/ Follows(w, frames, n) /\ Len(w) >= n /\ w[n].via >= frames[n].next
    BY ONLY <1>4, <2>1, <2>2, <2>3, <2>4, PassedByPopping
  <2>6. frames' # << >>
    BY ONLY <1>4, <2>1
  <2> QED
    BY ONLY <1>1, <1>2, <1>5, <1>8, <2>5, <2>6 DEF Behind
<1> QED
  BY <1>9, <1>10

(* What a frame has behind it: a frame that is not on top has been         *)
(* emitted, and one that has not been emitted has tried no arc.            *)
FramesAreSpent ==
    /\ \A i \in 1..(Len(frames) - 1) : frames[i].emitted
    /\ frames # << >> /\ ~Top.emitted => Top.next = 1

(* What is behind the search comes before the trail it has not emitted.    *)
LEMMA BehindIsBefore ==
    ASSUME CursorInv, FramesAreSpent, frames # << >>, ~Top.emitted,
           NEW w \in Seq(Hops(machine)), Behind(w)
    PROVE  Before(w, Trail)
<1> DEFINE n == Len(frames)
<1>1. /\ Len(Trail) = n - 1 /\ Len(steps) = n - 1 /\ n \in Nat \ {0} /\ Top = frames[n]
      /\ \A j \in 1..(n - 1) : Trail[j] = Gone(frames[j])
  <2>1. n \in Nat \ {0}
    BY TopFacts DEF CursorInv
  <2>2. /\ Len(Trail) = Len(steps) /\ Len(steps) \in Nat /\ n = Len(steps) + 1
        /\ \A j \in 1..Len(steps) : Trail[j] = Gone(frames[j])
    BY TrailIsWalk
  <2>3. Len(steps) = n - 1
    BY ONLY <2>1, <2>2
  <2> QED
    BY ONLY <2>1, <2>2, <2>3 DEF Top
<1>2. Len(w) \in Nat /\ \A i \in 1..Len(w) : w[i].via \in Nat \ {0}
  BY WalkHops DEF CursorInv
<1>3. PICK i \in 1..n : /\ Follows(w, frames, i)
                        /\ \/ Len(w) = i - 1 /\ frames[i].emitted
                           \/ Len(w) >= i /\ w[i].via < Bound(frames, i)
  BY DEF Behind, Passed
<1>4. i # n
  <2> SUFFICES ASSUME i = n PROVE FALSE
    OBVIOUS
  <2>1. ~frames[n].emitted /\ Bound(frames, n) = 1
    BY <1>1 DEF Bound, FramesAreSpent
  <2>2. Len(w) >= i /\ w[i].via < 1
    BY ONLY <1>3, <2>1, i = n
  <2>3. i \in 1..Len(w)
    BY ONLY <1>2, <1>3, <2>2
  <2>4. w[i].via \in Nat \ {0}
    BY ONLY <1>2, <2>3
  <2> QED
    BY ONLY <2>2, <2>4
<1> HIDE DEF n
<1>5. i \in 1..Len(Trail) /\ i \in 1..(n - 1)
  BY ONLY <1>1, <1>3, <1>4
<1>6. Len(w) >= i - 1 /\ \A j \in 1..(i - 1) : w[j] = Gone(frames[j])
  BY ONLY <1>3 DEF Follows
<1>7. ASSUME NEW j \in 1..(i - 1) PROVE w[j] = Trail[j]
  <2>1. j \in 1..(n - 1)
    BY ONLY <1>1, <1>5, <1>7
  <2> QED
    BY ONLY <1>1, <1>6, <1>7, <2>1
<1>8. Len(w) >= i => w[i].via < Trail[i].via
  <2>1. Len(w) >= i => w[i].via < Bound(frames, i)
    BY ONLY <1>2, <1>3
  <2>2. Bound(frames, i) = frames[i].next - 1
    BY ONLY <1>4 DEF Bound, n
  <2>3. Trail[i] = Gone(frames[i])
    BY ONLY <1>1, <1>5
  <2>4. Trail[i].via = frames[i].next - 1
    BY ONLY <2>3 DEF Gone
  <2> QED
    BY ONLY <2>1, <2>2, <2>4
<1> QED
  BY ONLY <1>5, <1>6, <1>7, <1>8 DEF Before

(* What comes before the trail is behind the search.                       *)
LEMMA BeforeIsBehind ==
    ASSUME CursorInv, FramesAreSpent, frames # << >>,
           NEW w \in Seq(Hops(machine)), Before(w, Trail)
    PROVE  Behind(w)
<1> DEFINE n == Len(frames)
<1>1. /\ Len(Trail) = n - 1 /\ n \in Nat \ {0}
      /\ \A j \in 1..(n - 1) : Trail[j] = Gone(frames[j])
  <2>1. n \in Nat \ {0}
    BY TopFacts DEF CursorInv
  <2>2. /\ Len(Trail) = Len(steps) /\ Len(steps) \in Nat /\ n = Len(steps) + 1
        /\ \A j \in 1..Len(steps) : Trail[j] = Gone(frames[j])
    BY TrailIsWalk
  <2>3. Len(steps) = n - 1
    BY ONLY <2>1, <2>2
  <2> QED
    BY ONLY <2>1, <2>2, <2>3
<1>2. Len(w) \in Nat
  OBVIOUS
<1>3. PICK i \in 1..Len(Trail) :
          /\ Len(w) >= i - 1
          /\ \A j \in 1..(i - 1) : w[j] = Trail[j]
          /\ Len(w) >= i => w[i].via < Trail[i].via
  BY DEF Before
<1> HIDE DEF n
<1>4. i \in 1..(n - 1) /\ i \in 1..n /\ i # n
  BY ONLY <1>1, <1>3
<1>5. Follows(w, frames, i)
  <2>1. ASSUME NEW j \in 1..(i - 1) PROVE w[j] = Gone(frames[j])
    <3>1. j \in 1..(n - 1)
      BY ONLY <1>1, <1>4, <2>1
    <3> QED
      BY ONLY <1>1, <1>3, <2>1, <3>1
  <2> QED
    BY ONLY <1>3, <2>1 DEF Follows
<1>6. Len(w) >= i => w[i].via < Bound(frames, i)
  <2>1. Trail[i] = Gone(frames[i])
    BY ONLY <1>1, <1>4
  <2>2. Trail[i].via = frames[i].next - 1
    BY ONLY <2>1 DEF Gone
  <2>3. Bound(frames, i) = frames[i].next - 1
    BY ONLY <1>4 DEF Bound, n
  <2> QED
    BY ONLY <1>3, <2>2, <2>3
<1>7. frames[i].emitted
  BY <1>4 DEF FramesAreSpent, n
<1>8. Len(w) = i - 1 \/ Len(w) >= i
  BY ONLY <1>2, <1>3, <1>4
<1>9. Passed(w, frames)
  <2>1. i \in 1..Len(frames)
    BY ONLY <1>4 DEF n
  <2> QED
    BY ONLY <1>5, <1>6, <1>7, <1>8, <2>1 DEF Passed
<1> QED
  BY <1>9 DEF Behind

-----------------------------------------------------------------------------
(* One arc further                                                         *)

Further == Append(Trail, [from |-> Top.state, via |-> Top.next])

LEMMA FurtherIsWalk ==
    ASSUME CursorInv, HasArc
    PROVE  /\ Further \in Seq(Hops(machine)) /\ Len(Further) = Len(steps) + 1
           /\ IsWalk(machine, Further)
           /\ EndOf(machine, Further) = Arc.target /\ Arc.target \in States
           /\ WeightOf(machine, Further) = Top.weight + Arc.weight
<1> DEFINE h == [from |-> Top.state, via |-> Top.next]
           n == Len(steps)
<1>1. TypeOK /\ frames # << >> /\ Top.next <= Len(Data(Top.state).arcs)
  BY DEF CursorInv, HasArc
<1>2. Top.state \in States /\ Top.next \in Nat \ {0} /\ Top.weight \in Nat
  <2>1. Top \in Frames
    BY <1>1, TopFacts
  <2> QED
    BY ONLY <2>1 DEF Frames
<1>3. Len(Data(Top.state).arcs) \in Nat
  BY <1>1, <1>2, LengthFacts
<1>4. Top.next \in 1..Len(Data(Top.state).arcs)
  BY ONLY <1>1, <1>2, <1>3
<1>5. h \in Hops(machine)
  BY ONLY <1>2, <1>4, HopIsOne DEF States, Data
<1>6. Taken(machine, h) = Arc
  BY DEF Taken, Arc, Data
<1>7. Arc.target \in States /\ Arc.weight \in Nat
  <2>1. Arc = Data(Top.state).arcs[Top.next]
    BY DEF Arc
  <2> QED
    BY <1>1, <1>2, <1>4, <2>1, ArcFacts
<1>8. /\ Trail \in Seq(Hops(machine)) /\ Len(Trail) = n /\ n \in Nat /\ IsWalk(machine, Trail)
      /\ EndOf(machine, Trail) = Top.state /\ Len(frames) = n + 1
      /\ \A i \in 1..n : Taken(machine, Trail[i]) = steps[i].arc
  BY <1>1, TrailIsWalk
<1>9. h.from = Top.state
  OBVIOUS
<1> HIDE DEF h, n
<1>10. /\ Further \in Seq(Hops(machine)) /\ Len(Further) = n + 1 /\ Further # << >>
       /\ \A i \in 1..n : Further[i] = Trail[i]
       /\ Further[n + 1] = h
  <2>1. Further = Append(Trail, h)
    BY DEF Further, h
  <2> QED
    BY ONLY <1>5, <1>8, <2>1, Pushed
<1>11. IsWalk(machine, Further)
  <2>1. ASSUME NEW i \in 1..(n + 1)
        PROVE  Further[i].from = IF i = 1 THEN machine.start ELSE Taken(machine, Further[i - 1]).target
    <3>1. CASE i = n + 1
      <4>1. Further[i].from = EndOf(machine, Trail)
        BY ONLY <1>8, <1>9, <1>10, <3>1
      <4>2. CASE n = 0
        <5>1. Trail = << >>
          BY ONLY <1>8, <4>2
        <5> QED
          BY ONLY <3>1, <4>1, <4>2, <5>1 DEF EndOf
      <4>3. CASE n # 0
        <5>1. Trail # << >> /\ i # 1 /\ i - 1 = n /\ n \in 1..n
          BY ONLY <1>8, <3>1, <4>3
        <5>2. Further[i - 1] = Trail[n]
          BY ONLY <1>10, <5>1
        <5> QED
          BY ONLY <1>8, <4>1, <5>1, <5>2 DEF EndOf
      <4> QED
        BY <4>2, <4>3
    <3>2. CASE i # n + 1
      <4>1. i \in 1..n /\ (i # 1 => i - 1 \in 1..n)
        BY ONLY <1>8, <2>1, <3>2
      <4>2. Trail[i].from = IF i = 1 THEN machine.start ELSE Taken(machine, Trail[i - 1]).target
        BY ONLY <1>8, <4>1 DEF IsWalk
      <4> QED
        BY ONLY <1>10, <4>1, <4>2
    <3> QED
      BY <3>1, <3>2
  <2> QED
    BY ONLY <1>10, <2>1 DEF IsWalk
<1>12. EndOf(machine, Further) = Arc.target
  BY ONLY <1>6, <1>10 DEF EndOf
<1>13. WeightOf(machine, Further) = Top.weight + Arc.weight
  <2> DEFINE l == n + 1
             f == [i \in 0..l |-> IF i = l THEN Top.weight + Arc.weight ELSE frames[i + 1].weight]
  <2>1. l \in Nat /\ l # 0 /\ Len(Further) = l
    BY ONLY <1>8, <1>10
  <2>2. \A i \in 1..l : frames[i].weight \in Nat
    <3>1. frames \in Seq(Frames) /\ Len(frames) = l
      BY <1>1, <1>8 DEF TypeOK, Frames
    <3>2. \A i \in 1..l : frames[i] \in Frames
      BY ONLY <3>1
    <3> QED
      BY ONLY <3>2 DEF Frames
  <2>3. f \in [0..l -> Nat]
    <3>1. \A i \in 0..l : i # l => i + 1 \in 1..l
      BY ONLY <2>1
    <3> QED
      BY ONLY <1>2, <1>7, <2>2, <3>1
  <2>4. /\ frames[1].weight = 0
        /\ \A i \in 1..n : frames[i + 1].weight = frames[i].weight + steps[i].arc.weight
    BY <1>1 DEF CursorInv, WalkIsCoherent, n
  <2>5. f[0] = 0
    BY ONLY <2>1, <2>4
  <2>6. ASSUME NEW i \in 1..l PROVE f[i] = f[i - 1] + Taken(machine, Further[i]).weight
    <3>1. i \in 0..l /\ i - 1 \in 0..l /\ i - 1 # l /\ (i - 1) + 1 = i
      BY ONLY <2>1, <2>6
    <3>2. f[i - 1] = frames[i].weight
      BY ONLY <3>1
    <3>3. CASE i = l
      <4>1. frames[i].weight = Top.weight
        BY ONLY <1>8, <3>3 DEF Top
      <4> QED
        BY ONLY <1>6, <1>10, <3>1, <3>2, <3>3, <4>1
    <3>4. CASE i # l
      <4>1. i \in 1..n /\ f[i] = frames[i + 1].weight
        BY ONLY <1>8, <3>1, <3>4, i \in 1..l
      <4> QED
        BY ONLY <1>8, <1>10, <2>4, <3>2, <4>1
    <3> QED
      BY <3>3, <3>4
  <2>7. f[l] = Top.weight + Arc.weight
    BY ONLY <2>1
  <2> HIDE DEF f, l
  <2>8. WeightOf(machine, Further) = f[l]
    <3>1. l \in Nat /\ Len(Further) = l
      BY ONLY <2>1
    <3>2. \A i \in 1..l : f[i] = f[i - 1] + Taken(machine, Further[i]).weight
      BY ONLY <2>6
    <3>3. AddsUp(machine, Further, l, f)
      BY ONLY <2>3, <2>5, <3>1, <3>2 DEF AddsUp
    <3> QED
      BY ONLY <3>1, <3>3, WeightIsSum
  <2> QED
    BY ONLY <2>7, <2>8
<1> QED
  BY ONLY <1>7, <1>10, <1>11, <1>12, <1>13 DEF n

(* The states that an open walk leads to are within reach.                 *)
LEMMA ReachFacts ==
    ASSUME CursorInv
    PROVE  /\ machine.start \in Reach(machine, config.maxDepth)
           /\ machine.start \in States
           /\ HasArc /\ Len(steps) < config.maxDepth
                  => Further \in WalksWithin(machine, config.maxDepth)
                     /\ Arc.target \in Reach(machine, config.maxDepth)
<1>1. config.maxDepth \in Nat
  BY ConfigFacts DEF CursorInv
<1>2. << >> \in WalksWithin(machine, config.maxDepth)
  <2>1. << >> \in Seq(Hops(machine)) /\ Len(<< >>) = 0
    OBVIOUS
  <2>2. IsWalk(machine, << >>)
    BY ONLY <2>1 DEF IsWalk
  <2>3. Len(<< >>) <= config.maxDepth
    BY ONLY <1>1, <2>1
  <2> QED
    BY ONLY <1>1, <2>1, <2>2, <2>3, WalksWithinAreShort
<1>3. machine.start = EndOf(machine, << >>)
  BY DEF EndOf
<1>4. machine.start \in States
  BY MachinesAssumption DEF CursorInv, TypeOK, States
<1>5. ASSUME HasArc, Len(steps) < config.maxDepth
      PROVE  Further \in WalksWithin(machine, config.maxDepth)
             /\ Arc.target = EndOf(machine, Further)
  <2>1. /\ Further \in Seq(Hops(machine)) /\ Len(Further) = Len(steps) + 1
        /\ IsWalk(machine, Further) /\ EndOf(machine, Further) = Arc.target
    BY <1>5, FurtherIsWalk
  <2>2. Len(steps) \in Nat
    BY TrailIsWalk
  <2>3. Len(Further) <= config.maxDepth
    BY ONLY <1>1, <1>5, <2>1, <2>2
  <2> QED
    BY ONLY <1>1, <2>1, <2>3, WalksWithinAreShort
<1> QED
  BY ONLY <1>2, <1>3, <1>4, <1>5 DEF Reach

-----------------------------------------------------------------------------
(* The budget                                                              *)

(* The states that count are within reach, and so are the arcs.            *)
BudgetIsExact ==
    /\ seen \subseteq Reach(machine, config.maxDepth)
    /\ IsFiniteSet(Leaving(machine, seen))
    /\ Cardinality(Leaving(machine, seen)) = expanded

LEMMA HopsAreCounted ==
    ASSUME NEW m, NEW s, Len(m.data[s].arcs) \in Nat
    PROVE  IsFiniteSet(HopsOf(m, s)) /\ Cardinality(HopsOf(m, s)) = Len(m.data[s].arcs)
<1> DEFINE n == Len(m.data[s].arcs)
           f == [i \in 1..n |-> [from |-> s, via |-> i]]
<1>1. \A i, j \in 1..n : f[i] = f[j] => i = j
  <2> SUFFICES ASSUME NEW i \in 1..n, NEW j \in 1..n, f[i] = f[j] PROVE i = j
    OBVIOUS
  <2>1. f[i].via = i /\ f[j].via = j
    OBVIOUS
  <2> QED
    BY <2>1
<1>2. HopsOf(m, s) = {[from |-> s, via |-> i] : i \in 1..n}
  BY DEF HopsOf
<1>3. f \in [1..n -> HopsOf(m, s)] /\ \A h \in HopsOf(m, s) : \E i \in 1..n : f[i] = h
  BY <1>2
<1>4. f \in Bijection(1..n, HopsOf(m, s))
  BY ONLY <1>1, <1>3 DEF Bijection, Injection, Surjection, IsInjective
<1>5. ExistsBijection(1..n, HopsOf(m, s))
  BY ONLY <1>4 DEF ExistsBijection
<1> HIDE DEF f
<1> QED
  BY <1>5, FS_NatBijection, FS_CountingElements

(* Counting a state of the machine that has not been seen.                 *)
LEMMA LeavingOneMore ==
    ASSUME TypeOK, NEW s \in States, s \notin seen,
           IsFiniteSet(Leaving(machine, seen)), Cardinality(Leaving(machine, seen)) = expanded
    PROVE  /\ IsFiniteSet(Leaving(machine, seen \cup {s}))
           /\ Cardinality(Leaving(machine, seen \cup {s})) = expanded + Len(Data(s).arcs)
<1> DEFINE S == Leaving(machine, seen)
           T == HopsOf(machine, s)
<1>1. IsFiniteSet(T) /\ Cardinality(T) = Len(Data(s).arcs)
  <2>1. Len(machine.data[s].arcs) \in Nat
    BY LengthFacts DEF Data
  <2> QED
    BY ONLY <2>1, HopsAreCounted DEF Data
<1>2. \A h \in T : h \in Hops(machine) /\ h.from = s
  <2>1. s \in DOMAIN machine.data
    BY DEF States
  <2> QED
    BY ONLY <2>1 DEF Hops, HopsOf
<1>3. \A h \in Hops(machine) : h.from = s => h \in T
  BY ONLY TRUE DEF Hops, HopsOf
<1>4. Leaving(machine, seen \cup {s}) = S \cup T
  BY ONLY <1>2, <1>3 DEF Leaving
<1>5. S \cap T = {}
  BY ONLY <1>2, s \notin seen DEF Leaving
<1> HIDE DEF S, T
<1>6. IsFiniteSet(S) /\ Cardinality(S) = expanded
  BY DEF S
<1>7. /\ IsFiniteSet(S \cup T)
      /\ Cardinality(S \cup T) = Cardinality(S) + Cardinality(T) - Cardinality(S \cap T)
  BY ONLY <1>1, <1>6, FS_Union
<1>8. Cardinality(S \cap T) = 0
  BY ONLY <1>5, FS_EmptySet
<1>9. expanded \in Nat /\ Len(Data(s).arcs) \in Nat
  BY LengthFacts DEF TypeOK
<1>10. Cardinality(S \cup T) = expanded + Len(Data(s).arcs)
  BY ONLY <1>1, <1>6, <1>7, <1>8, <1>9
<1> QED
  BY ONLY <1>4, <1>7, <1>10

(* Entering a state within reach keeps the budget exact.                   *)
LEMMA CountIsExact ==
    ASSUME CursorInv, BudgetIsExact, machine' = machine, config' = config,
           NEW s \in States, s \in Reach(machine, config.maxDepth), Count(s)
    PROVE  BudgetIsExact'
<1>1. seen' = seen \cup {s} /\ expanded' = IF s \in seen THEN expanded ELSE expanded + Len(Data(s).arcs)
  BY DEF Count
<1>2. seen' \subseteq Reach(machine, config.maxDepth)
  BY <1>1 DEF BudgetIsExact
<1>3. IsFiniteSet(Leaving(machine, seen')) /\ Cardinality(Leaving(machine, seen')) = expanded'
  <2>1. CASE s \in seen
    <3>1. seen' = seen /\ expanded' = expanded
      BY <1>1, <2>1
    <3> QED
      BY ONLY <3>1, BudgetIsExact DEF BudgetIsExact
  <2>2. CASE s \notin seen
    <3>1. TypeOK /\ IsFiniteSet(Leaving(machine, seen)) /\ Cardinality(Leaving(machine, seen)) = expanded
      BY DEF CursorInv, BudgetIsExact
    <3>2. seen' = seen \cup {s} /\ expanded' = expanded + Len(Data(s).arcs)
      BY <1>1, <2>2
    <3> QED
      BY ONLY <2>2, <3>1, <3>2, s \in States, LeavingOneMore
  <2> QED
    BY <2>1, <2>2
<1> QED
  BY ONLY <1>2, <1>3, machine' = machine, config' = config DEF BudgetIsExact

(* A state within reach that cannot be entered is refused for what it is.  *)
LEMMA RefusalIsHonest ==
    ASSUME CursorInv, BudgetIsExact, NEW s \in States, s \in Reach(machine, config.maxDepth),
           NEW e \in Refusals(s)
    PROVE  LET reach == Reach(machine, config.maxDepth) IN
           /\ e = "states" => ~FewEnough(reach, config.maxStates)
           /\ e = "arcs" => ~FewEnough(Leaving(machine, reach), config.maxArcs)
           /\ e = "invalid" => \E t \in reach : ~Data(t).valid
           /\ e \notin {"exhausted", "truncated", "work", "weight"}
<1> DEFINE reach == Reach(machine, config.maxDepth)
<1>1. /\ seen \subseteq reach /\ IsFiniteSet(seen) /\ TypeOK
      /\ IsFiniteSet(Leaving(machine, seen)) /\ Cardinality(Leaving(machine, seen)) = expanded
  BY DEF CursorInv, TypeOK, BudgetIsExact
<1>2. config.maxStates \in Nat /\ config.maxArcs \in Nat /\ s \in reach
  BY <1>1, ConfigFacts
<1> HIDE DEF reach
<1>3. e = "provider" \/ (e = Obstacle(s) /\ Obstacle(s) # NULL)
  BY DEF Refusals
<1>4. NULL \notin Outcomes /\ "provider" \in Outcomes
  BY NullAssumption DEF Outcomes, Errors
<1>5. /\ Obstacle(s) = "states" => s \notin seen /\ Cardinality(seen) >= config.maxStates
      /\ Obstacle(s) = "arcs" => s \notin seen /\ expanded + Len(Data(s).arcs) > config.maxArcs
      /\ Obstacle(s) = "invalid" => ~Data(s).valid
      /\ Obstacle(s) \in {"states", "arcs", "invalid", NULL}
  <2>1. NULL # "states" /\ NULL # "arcs" /\ NULL # "invalid"
    BY NullAssumption DEF Outcomes, Errors
  <2> QED
    BY ONLY <2>1 DEF Obstacle
<1>6. ASSUME s \notin seen, Cardinality(seen) >= config.maxStates
      PROVE  ~FewEnough(reach, config.maxStates)
  <2> SUFFICES ASSUME IsFiniteSet(reach), Cardinality(reach) <= config.maxStates PROVE FALSE
    BY DEF FewEnough
  <2>1. Cardinality(seen \cup {s}) = Cardinality(seen) + 1
    BY ONLY <1>1, <1>6, FS_AddElement
  <2>2. seen \cup {s} \subseteq reach
    BY ONLY <1>1, <1>2
  <2>3. Cardinality(seen \cup {s}) <= Cardinality(reach)
    BY <2>2, FS_Subset
  <2>4. Cardinality(reach) \in Nat /\ Cardinality(seen) \in Nat
    BY <1>1, FS_CardinalityType
  <2>5. Cardinality(seen) >= config.maxStates /\ Cardinality(reach) <= config.maxStates
    BY <1>6
  <2> QED
    BY ONLY <1>2, <2>1, <2>3, <2>4, <2>5
<1>7. ASSUME s \notin seen, expanded + Len(Data(s).arcs) > config.maxArcs
      PROVE  ~FewEnough(Leaving(machine, reach), config.maxArcs)
  <2> SUFFICES ASSUME IsFiniteSet(Leaving(machine, reach)),
                      Cardinality(Leaving(machine, reach)) <= config.maxArcs
               PROVE  FALSE
    BY DEF FewEnough
  <2>1. Cardinality(Leaving(machine, seen \cup {s})) = expanded + Len(Data(s).arcs)
    BY ONLY <1>1, <1>7, s \in States, LeavingOneMore
  <2>2. Leaving(machine, seen \cup {s}) \subseteq Leaving(machine, reach)
    BY ONLY <1>1, <1>2 DEF Leaving
  <2>3. Cardinality(Leaving(machine, seen \cup {s})) <= Cardinality(Leaving(machine, reach))
    BY <2>2, FS_Subset
  <2>4. Cardinality(Leaving(machine, reach)) \in Nat /\ expanded + Len(Data(s).arcs) \in Nat
    BY <1>1, FS_CardinalityType, LengthFacts DEF TypeOK
  <2>5. expanded + Len(Data(s).arcs) > config.maxArcs /\ Cardinality(Leaving(machine, reach)) <= config.maxArcs
    BY <1>7
  <2> QED
    BY ONLY <1>2, <2>1, <2>3, <2>4, <2>5
<1>8. /\ e = "states" => ~FewEnough(reach, config.maxStates)
      /\ e = "arcs" => ~FewEnough(Leaving(machine, reach), config.maxArcs)
  BY ONLY <1>3, <1>5, <1>6, <1>7
<1>9. e = "invalid" => \E t \in reach : ~Data(t).valid
  BY ONLY <1>2, <1>3, <1>5
<1>10. e \notin {"exhausted", "truncated", "work", "weight"}
  BY ONLY <1>3, <1>5
<1> QED
  BY ONLY <1>8, <1>9, <1>10 DEF reach

-----------------------------------------------------------------------------
(* What the search has done, at every turn                                 *)

(* The paths yielded are wanted ones, and a call begins with one to spare. *)
PathsAreCounted ==
    /\ paths \in Seq(PathsWithin(machine, config.maxDepth))
    /\ Len(paths) <= config.maxPaths
    /\ Calling => Len(paths) < config.maxPaths

(* A search that is said to have been cut short was.                       *)
CutsAreReal == truncated => GoesDeeper

(* Behind a search that has not ended are the paths it has yielded, and    *)
(* every path that is behind it has been yielded; only a search that has   *)
(* been cut short has walks behind it that are too deep.                   *)
SearchIsComplete ==
    terminal = NULL =>
        /\ \A k \in DOMAIN paths : Behind(paths[k].hops)
        /\ \A w \in WalksWithin(machine, config.maxDepth) :
               Behind(w) /\ Accepts(machine, w) => Yielded(PathOf(machine, w))
        /\ ~truncated => ~\E w \in WalksOf(machine, config.maxDepth + 1) : Behind(w)

SearchInv ==
    /\ CursorInv /\ FramesAreSpent /\ BudgetIsExact /\ PathsAreCounted /\ CutsAreReal
    /\ SearchIsComplete /\ YieldsInOrder /\ OutcomeIsHonest

LEMMA PathFacts ==
    ASSUME NEW m, NEW n, NEW p
    PROVE  /\ p \in PathsWithin(m, n) <=> \E w \in WalksWithin(m, n) : Accepts(m, w) /\ p = PathOf(m, w)
           /\ \A w : PathOf(m, w).hops = w
  BY DEF PathsWithin, PathOf

LEMMA SearchBegins == Init => SearchInv
<1> SUFFICES ASSUME Init PROVE SearchInv
  OBVIOUS
<1>1. /\ machine \in Machines /\ config \in Configs /\ frames = << >> /\ seen = {} /\ expanded = 0
      /\ ~truncated /\ ~started /\ terminal = NULL /\ callWork = NULL /\ paths = << >>
  BY DEF Init
<1>2. CursorInv
  BY InitHolds
<1>3. FramesAreSpent
  BY <1>1 DEF FramesAreSpent
<1>4. BudgetIsExact
  <2>1. Leaving(machine, seen) = {}
    BY <1>1 DEF Leaving
  <2> QED
    BY <1>1, <2>1, FS_EmptySet DEF BudgetIsExact
<1>5. PathsAreCounted
  <2>1. config.maxPaths \in Nat
    BY <1>1, ConfigsAssumption
  <2> QED
    BY <1>1, <2>1 DEF PathsAreCounted, Calling
<1>6. CutsAreReal
  BY <1>1 DEF CutsAreReal
<1>7. \A w : ~Behind(w)
  BY <1>1 DEF Behind
<1>8. DOMAIN paths = {}
  BY <1>1
<1>9. SearchIsComplete /\ YieldsInOrder
  BY <1>7, <1>8 DEF SearchIsComplete, YieldsInOrder
<1>10. OutcomeIsHonest
  <2>1. terminal \notin Outcomes
    BY <1>1, NullAssumption
  <2> QED
    BY <2>1 DEF OutcomeIsHonest, Outcomes, Completions, Errors
<1> QED
  BY <1>2, <1>3, <1>4, <1>5, <1>6, <1>9, <1>10 DEF SearchInv

-----------------------------------------------------------------------------
(* What a step that yields nothing keeps                                   *)

LEMMA OrderIsKept ==
    ASSUME YieldsInOrder, UNCHANGED <<machine, config, paths>>
    PROVE  YieldsInOrder'
  BY DEF YieldsInOrder, Yielded

LEMMA CutsAreKept ==
    ASSUME CutsAreReal, UNCHANGED <<machine, config, truncated>>
    PROVE  CutsAreReal'
  BY DEF CutsAreReal, GoesDeeper

LEMMA CountIsKept ==
    ASSUME PathsAreCounted, UNCHANGED <<machine, config, paths>>, Calling' => Calling
    PROVE  PathsAreCounted'
  BY DEF PathsAreCounted

LEMMA BudgetIsKept ==
    ASSUME BudgetIsExact, UNCHANGED <<machine, config, budget>>
    PROVE  BudgetIsExact'
  BY DEF BudgetIsExact, budget

(* A search that has not ended has nothing to be honest about.             *)
LEMMA NoOutcome ==
    ASSUME terminal' = NULL
    PROVE  OutcomeIsHonest'
<1>1. terminal' \notin {"exhausted", "truncated", "states", "arcs", "work", "invalid", "weight"}
  BY NullAssumption DEF Outcomes, Completions, Errors
<1> QED
  BY <1>1 DEF OutcomeIsHonest

(* One that has ended has nothing more to find.                            *)
LEMMA Ended ==
    ASSUME NEW o \in Outcomes, terminal' = o
    PROVE  SearchIsComplete'
<1>1. terminal' # NULL
  BY NullAssumption
<1> QED
  BY <1>1 DEF SearchIsComplete

LEMMA SearchRests ==
    ASSUME SearchIsComplete, terminal = NULL,
           UNCHANGED <<machine, config, frames, truncated, started, paths>>
    PROVE  SearchIsComplete'
  BY DEF SearchIsComplete, Behind, Yielded

(* What a search has done once nothing is left of its frames.              *)
LEMMA FinishedIsComplete ==
    ASSUME SearchInv, terminal = NULL, Finished
    PROVE  AllYielded /\ (~truncated => ~GoesDeeper)
<1>1. \A w : Behind(w)
  BY DEF Behind, Finished
<1>2. AllYielded
  <2> SUFFICES ASSUME NEW p \in PathsWithin(machine, config.maxDepth) PROVE Yielded(p)
    BY DEF AllYielded
  <2>1. PICK w \in WalksWithin(machine, config.maxDepth) : Accepts(machine, w) /\ p = PathOf(machine, w)
    BY ONLY p \in PathsWithin(machine, config.maxDepth), PathFacts
  <2> QED
    BY <1>1, <2>1 DEF SearchInv, SearchIsComplete
<1>3. ~truncated => ~GoesDeeper
  BY <1>1 DEF SearchInv, SearchIsComplete, GoesDeeper
<1> QED
  BY <1>2, <1>3

-----------------------------------------------------------------------------
(* The search, the beginning and the end of a call                         *)

LEMMA SearchOutsideTurns ==
    ASSUME SearchInv,
           AskAgain \/ EnoughPaths \/ Call \/ Cancel \/ Finish \/ Pause \/ OutOfWork
    PROVE  SearchInv'
<1>1. /\ CursorInv /\ FramesAreSpent /\ BudgetIsExact /\ PathsAreCounted /\ CutsAreReal
      /\ SearchIsComplete /\ YieldsInOrder /\ OutcomeIsHonest
  BY DEF SearchInv
<1>2. CursorInv'
  BY <1>1, CallsKeep
<1>3. UNCHANGED <<machine, config, frames, budget, work, truncated, started, paths>>
  BY DEF AskAgain, EnoughPaths, Call, Cancel, Finish, Pause, OutOfWork, walk
<1>4. FramesAreSpent' /\ BudgetIsExact' /\ CutsAreReal' /\ YieldsInOrder'
  <2>1. FramesAreSpent'
    BY <1>1, <1>3 DEF FramesAreSpent, Top
  <2> QED
    BY <1>1, <1>3, <2>1, BudgetIsKept, CutsAreKept, OrderIsKept
<1>5. PathsAreCounted'
  <2>1. CASE Call
    BY <1>1, <1>3, <2>1 DEF PathsAreCounted, Call
  <2>2. CASE AskAgain \/ EnoughPaths \/ Cancel \/ Finish \/ Pause \/ OutOfWork
    <3>1. ~Calling'
      BY <2>2 DEF AskAgain, EnoughPaths, Cancel, Finish, Pause, OutOfWork, Fail, End, Answer, Calling
    <3> QED
      BY <1>1, <1>3, <3>1, CountIsKept
  <2> QED
    BY <2>1, <2>2
<1>6. /\ AllYielded' = AllYielded /\ GoesDeeper' = GoesDeeper
  BY <1>3 DEF AllYielded, GoesDeeper, Yielded
<1>7. SearchIsComplete' /\ OutcomeIsHonest'
  <2>1. CASE AskAgain
    <3>1. terminal' = terminal /\ terminal # NULL
      BY <2>1 DEF AskAgain
    <3>2. SearchIsComplete'
      BY <3>1 DEF SearchIsComplete
    <3>3. OutcomeIsHonest'
      BY <1>1, <1>3, <1>6, <3>1 DEF OutcomeIsHonest, Data, Weighs
    <3> QED
      BY <3>2, <3>3
  <2>2. CASE Call \/ Pause
    <3>1. terminal' = NULL /\ terminal = NULL
      BY <1>1, <2>2 DEF Call, Pause, CursorInv, OutcomeIsKept
    <3> QED
      BY <1>1, <1>3, <3>1, NoOutcome, SearchRests
  <2>3. CASE EnoughPaths
    <3>1. terminal' = "truncated" /\ Len(paths) >= config.maxPaths
      BY <2>3 DEF EnoughPaths, End
    <3>2. Len(paths') = config'.maxPaths
      <4>1. config.maxPaths \in Nat /\ Len(paths) \in Nat /\ Len(paths) <= config.maxPaths
        BY <1>1, ConfigsAssumption DEF CursorInv, TypeOK, PathsAreCounted
      <4>2. Len(paths) = config.maxPaths
        BY ONLY <3>1, <4>1
      <4> QED
        BY <1>3, <4>2
    <3>3. "truncated" \in Outcomes
      BY DEF Outcomes, Completions
    <3>4. OutcomeIsHonest'
      BY <3>1, <3>2 DEF OutcomeIsHonest
    <3> QED
      BY <3>1, <3>3, <3>4, Ended
  <2>4. CASE Cancel
    <3>1. terminal' = "cancelled" /\ "cancelled" \in Outcomes
      BY <2>4 DEF Cancel, End, Outcomes, Completions
    <3>2. OutcomeIsHonest'
      BY <3>1 DEF OutcomeIsHonest
    <3> QED
      BY <3>1, <3>2, Ended
  <2>5. CASE OutOfWork
    <3>1. terminal' = "work" /\ "work" \in Outcomes
      BY <2>5 DEF OutOfWork, Fail, End, Outcomes, Errors
    <3>2. work' = config'.maxWork
      <4>1. work >= config.maxWork /\ work <= config.maxWork /\ work \in Nat /\ config.maxWork \in Nat
        BY <1>1, <2>5, ConfigFacts DEF OutOfWork, CursorInv, TypeOK, WithinBounds
      <4>2. work = config.maxWork
        BY ONLY <4>1
      <4> QED
        BY <1>3, <4>2
    <3>3. OutcomeIsHonest'
      BY <3>1, <3>2 DEF OutcomeIsHonest
    <3> QED
      BY <3>1, <3>3, Ended
  <2>6. CASE Finish
    <3>1. terminal = NULL /\ Finished
      BY <1>1, <2>6 DEF Finish, CursorInv, OutcomeIsKept
    <3>2. AllYielded /\ (~truncated => ~GoesDeeper) /\ (truncated => GoesDeeper)
      BY <1>1, <3>1, FinishedIsComplete DEF CutsAreReal
    <3>3. terminal' = IF truncated THEN "truncated" ELSE "exhausted"
      BY <2>6 DEF Finish, End
    <3>4. terminal' \in Outcomes
      BY <3>3 DEF Outcomes, Completions
    <3>5. OutcomeIsHonest'
      <4>1. CASE truncated
        <5>1. terminal' = "truncated" /\ AllYielded' /\ GoesDeeper'
          BY <1>6, <3>2, <3>3, <4>1
        <5> QED
          BY ONLY <5>1 DEF OutcomeIsHonest
      <4>2. CASE ~truncated
        <5>1. terminal' = "exhausted" /\ AllYielded' /\ ~GoesDeeper'
          BY <1>6, <3>2, <3>3, <4>2
        <5> QED
          BY ONLY <5>1 DEF OutcomeIsHonest
      <4> QED
        BY <4>1, <4>2
    <3> QED
      BY <3>4, <3>5, Ended
  <2> QED
    BY <2>1, <2>2, <2>3, <2>4, <2>5, <2>6
<1> QED
  BY ONLY <1>2, <1>4, <1>5, <1>7 DEF SearchInv

-----------------------------------------------------------------------------
(* The search, one unit of work                                            *)

(* What is left to show of a turn that does not end the search.            *)
LEMMA TurnGoesOn ==
    ASSUME SearchInv, Working, GoOn
    PROVE  OutcomeIsHonest' /\ (Calling' <=> Calling) /\ terminal' = NULL /\ terminal = NULL
<1>1. terminal = NULL /\ callWork \in Nat
  BY WorkFacts DEF SearchInv
<1>2. terminal' = NULL /\ callWork' = callWork + 1
  BY <1>1 DEF GoOn
<1>3. Calling /\ Calling'
  <2>1. callWork' \in Nat
    BY <1>1, <1>2
  <2> QED
    BY <1>1, <2>1, NullAssumption DEF Calling
<1> QED
  BY <1>1, <1>2, <1>3, NoOutcome

(* What is left to show of a turn that ends it.                            *)
LEMMA TurnFails ==
    ASSUME SearchInv, Working, NEW o \in Outcomes, End(o), CursorInv', OutcomeIsHonest',
           UNCHANGED <<budget, truncated, paths>>, FramesAreSpent'
    PROVE  SearchInv'
<1>1. /\ BudgetIsExact /\ PathsAreCounted /\ CutsAreReal /\ YieldsInOrder
      /\ UNCHANGED <<machine, config>>
  BY DEF SearchInv, Working
<1>2. ~Calling' /\ terminal' = o
  BY DEF End, Answer, Calling
<1> QED
  BY <1>1, <1>2, BudgetIsKept, CutsAreKept, CountIsKept, OrderIsKept, Ended DEF SearchInv

LEMMA MarkingSpends ==
    ASSUME CursorInv, FramesAreSpent, frames # << >>, frames' = Marked \/ frames' = Moved
    PROVE  FramesAreSpent'
<1>1. /\ \A i \in 1..Len(frames) : i # Len(frames) => frames'[i] = frames[i]
      /\ frames'[Len(frames)].emitted /\ Len(frames') = Len(frames)
  BY ReframeFacts DEF CursorInv
<1>2. Len(frames) \in Nat
  BY TopFacts DEF CursorInv
<1>3. \A i \in 1..(Len(frames) - 1) : i \in 1..Len(frames) /\ i # Len(frames)
  BY ONLY <1>2
<1> QED
  BY <1>1, <1>3 DEF FramesAreSpent, Top

LEMMA SearchThroughBegin ==
    ASSUME SearchInv, Begin
    PROVE  SearchInv'
<1>1. /\ CursorInv /\ BudgetIsExact /\ PathsAreCounted /\ CutsAreReal /\ YieldsInOrder
      /\ SearchIsComplete
  BY DEF SearchInv
<1>2. /\ Working /\ GoOn /\ Count(machine.start)
      /\ UNCHANGED <<machine, config, truncated, paths>>
      /\ frames' = << Frame(machine.start, 0) >>
  BY DEF Begin, Working
<1>3. OutcomeIsHonest' /\ (Calling' <=> Calling) /\ terminal' = NULL /\ terminal = NULL
  BY <1>2, TurnGoesOn
<1>4. CursorInv'
  BY <1>1, BeginKeeps
<1>5. FramesAreSpent'
  <2>1. Len(frames') = 1 /\ frames'[1].next = 1
    BY <1>2 DEF Frame
  <2> QED
    BY ONLY <2>1 DEF FramesAreSpent, Top
<1>6. BudgetIsExact'
  <2>1. machine.start \in States /\ machine.start \in Reach(machine, config.maxDepth)
    BY <1>1, ReachFacts
  <2> QED
    BY <1>1, <1>2, <2>1, CountIsExact
<1>7. SearchIsComplete'
  <2>1. \A w \in Seq(Hops(machine)) : ~Behind(w) /\ ~Behind(w)'
    BY <1>1, BeginPasses
  <2>2. config.maxDepth \in Nat /\ config.maxDepth + 1 \in Nat
    BY <1>1, ConfigFacts DEF CursorInv
  <2>3. /\ \A w \in WalksWithin(machine, config.maxDepth) : w \in Seq(Hops(machine))
        /\ \A w \in WalksOf(machine, config.maxDepth + 1) : w \in Seq(Hops(machine))
    BY ONLY <2>2, WalksWithinAreShort, WalksAreSequences
  <2>4. \A k \in DOMAIN paths : paths[k].hops \in Seq(Hops(machine)) /\ Behind(paths[k].hops)
    <3> SUFFICES ASSUME NEW k \in DOMAIN paths
                 PROVE  paths[k].hops \in Seq(Hops(machine)) /\ Behind(paths[k].hops)
      OBVIOUS
    <3>1. paths[k] \in PathsWithin(machine, config.maxDepth)
      BY <1>1 DEF YieldsInOrder
    <3>2. paths[k].hops \in WalksWithin(machine, config.maxDepth)
      BY ONLY <3>1, PathFacts
    <3> QED
      BY <1>1, <1>3, <2>3, <3>2 DEF SearchIsComplete
  <2>5. DOMAIN paths = {}
    BY ONLY <2>1, <2>4
  <2> QED
    BY ONLY <1>2, <2>1, <2>3, <2>5 DEF SearchIsComplete
<1> QED
  BY <1>1, <1>2, <1>3, <1>4, <1>5, <1>6, <1>7, CountIsKept, CutsAreKept, OrderIsKept DEF SearchInv

LEMMA SearchThroughBeginFails ==
    ASSUME SearchInv, BeginFails
    PROVE  SearchInv'
<1>1. CursorInv /\ BudgetIsExact /\ FramesAreSpent
  BY DEF SearchInv
<1>2. PICK o \in Refusals(machine.start) : Fail(o)
  BY DEF BeginFails
<1>3. o \in Outcomes /\ End(o)
  BY <1>2, FailEnds
<1>4. Working /\ UNCHANGED <<machine, config, walk, budget, truncated, paths>>
  BY DEF BeginFails, Working
<1>5. machine.start \in States /\ machine.start \in Reach(machine, config.maxDepth)
  BY <1>1, ReachFacts
<1>6. OutcomeIsHonest'
  <2>1. terminal' = o
    BY <1>3 DEF End
  <2>2. LET reach == Reach(machine, config.maxDepth) IN
        /\ o = "states" => ~FewEnough(reach, config.maxStates)
        /\ o = "arcs" => ~FewEnough(Leaving(machine, reach), config.maxArcs)
        /\ o = "invalid" => \E t \in reach : ~Data(t).valid
        /\ o \notin {"exhausted", "truncated", "work", "weight"}
    BY ONLY <1>1, <1>2, <1>5, RefusalIsHonest
  <2> QED
    BY ONLY <1>4, <2>1, <2>2 DEF OutcomeIsHonest, Data
<1>7. FramesAreSpent'
  BY <1>1, <1>4 DEF FramesAreSpent, walk, Top
<1>8. CursorInv'
  BY <1>1, BeginFailsKeeps
<1> QED
  BY <1>3, <1>4, <1>6, <1>7, <1>8, TurnFails

LEMMA SearchThroughAdvanceFails ==
    ASSUME SearchInv, AdvanceFails
    PROVE  SearchInv'
<1>1. CursorInv /\ BudgetIsExact /\ FramesAreSpent
  BY DEF SearchInv
<1>2. Working /\ HasArc /\ Len(steps) < config.maxDepth /\ frames' = Moved
      /\ UNCHANGED <<machine, config, budget, truncated, paths>>
  BY DEF AdvanceFails, Working
<1>3. PICK o \in IF Top.weight + Arc.weight > MaxWeight THEN {"weight"}
                 ELSE Refusals(Arc.target) : Fail(o)
  BY DEF AdvanceFails
<1>4. o \in Outcomes /\ End(o)
  BY <1>3, FailEnds
<1>5. /\ Further \in WalksWithin(machine, config.maxDepth)
      /\ Arc.target \in Reach(machine, config.maxDepth) /\ Arc.target \in States
      /\ WeightOf(machine, Further) = Top.weight + Arc.weight
  BY <1>1, <1>2, ReachFacts, FurtherIsWalk
<1>6. OutcomeIsHonest'
  <2>1. terminal' = o
    BY <1>4 DEF End
  <2>2. CASE Top.weight + Arc.weight > MaxWeight
    <3>1. o = "weight"
      BY <1>3, <2>2
    <3>2. Weighs(Further)
      BY <1>5, <2>2 DEF Weighs
    <3> QED
      BY ONLY <1>2, <1>5, <2>1, <3>1, <3>2 DEF OutcomeIsHonest, Weighs
  <2>3. CASE ~(Top.weight + Arc.weight > MaxWeight)
    <3>1. o \in Refusals(Arc.target)
      BY <1>3, <2>3
    <3>2. LET reach == Reach(machine, config.maxDepth) IN
          /\ o = "states" => ~FewEnough(reach, config.maxStates)
          /\ o = "arcs" => ~FewEnough(Leaving(machine, reach), config.maxArcs)
          /\ o = "invalid" => \E t \in reach : ~Data(t).valid
          /\ o \notin {"exhausted", "truncated", "work", "weight"}
      BY ONLY <1>1, <1>5, <3>1, RefusalIsHonest
    <3> QED
      BY ONLY <1>2, <2>1, <3>2 DEF OutcomeIsHonest, Data
  <2> QED
    BY <2>2, <2>3
<1>7. FramesAreSpent'
  BY <1>1, <1>2, MarkingSpends DEF HasArc
<1>8. CursorInv'
  BY <1>1, AdvanceFailsKeeps
<1> QED
  BY <1>2, <1>4, <1>6, <1>7, <1>8, TurnFails

(* The path that is yielded is the one the trail stands for.               *)
LEMMA YieldedIsPath ==
    ASSUME CursorInv, Yields
    PROVE  /\ Trail \in WalksWithin(machine, config.maxDepth) /\ Accepts(machine, Trail)
           /\ PathOf(machine, Trail) =
                  [hops |-> Trail, steps |-> steps, final |-> Top.state,
                   weight |-> Top.weight + Data(Top.state).weight]
<1>1. frames # << >> /\ Data(Top.state).final
  BY DEF Yields
<1>2. /\ Trail \in Seq(Hops(machine)) /\ Len(Trail) = Len(steps) /\ IsWalk(machine, Trail)
      /\ Len(steps) \in Nat /\ Len(steps) <= config.maxDepth
      /\ EndOf(machine, Trail) = Top.state
      /\ \A i \in 1..Len(steps) :
            /\ Trail[i] = Gone(frames[i])
            /\ Taken(machine, Trail[i]) = steps[i].arc
  BY <1>1, TrailIsWalk
<1>3. Trail \in WalksWithin(machine, config.maxDepth)
  <2>1. config.maxDepth \in Nat
    BY ConfigFacts DEF CursorInv
  <2> QED
    BY ONLY <1>2, <2>1, WalksWithinAreShort
<1>4. Accepts(machine, Trail)
  BY ONLY <1>1, <1>2 DEF Accepts, Data
<1>5. WeightOf(machine, Trail) = Top.weight
  BY <1>1, TrailWeighs
<1>6. steps = [i \in 1..Len(Trail) |-> [from |-> Trail[i].from, arc |-> Taken(machine, Trail[i])]]
  <2>1. steps \in Seq(Steps) /\ \A i \in 1..Len(steps) : steps[i].from = frames[i].state
    BY DEF CursorInv, TypeOK, WalkIsCoherent, Steps
  <2>2. ASSUME NEW i \in 1..Len(steps)
        PROVE  steps[i] = [from |-> Trail[i].from, arc |-> Taken(machine, Trail[i])]
    <3>1. steps[i] \in Steps
      BY ONLY <2>1, <2>2
    <3>2. steps[i] = [from |-> steps[i].from, arc |-> steps[i].arc]
      BY ONLY <3>1 DEF Steps
    <3>3. Trail[i] = Gone(frames[i])
      BY ONLY <1>2, <2>2
    <3>4. Trail[i].from = frames[i].state
      BY ONLY <3>3 DEF Gone
    <3> QED
      BY ONLY <1>2, <2>1, <2>2, <3>2, <3>4
  <2>3. steps = [i \in 1..Len(steps) |-> steps[i]]
    BY ONLY <2>1
  <2> QED
    BY ONLY <1>2, <2>2, <2>3
<1>7. PathOf(machine, Trail) =
          [hops |-> Trail, steps |-> steps, final |-> Top.state,
           weight |-> Top.weight + Data(Top.state).weight]
  BY ONLY <1>2, <1>5, <1>6 DEF PathOf, Data
<1> QED
  BY ONLY <1>3, <1>4, <1>7

LEMMA SearchThroughEmitFails ==
    ASSUME SearchInv, EmitFails
    PROVE  SearchInv'
<1>1. CursorInv /\ FramesAreSpent
  BY DEF SearchInv
<1>2. Working /\ Yields /\ Top.weight + Data(Top.state).weight > MaxWeight /\ frames' = Marked
      /\ End("weight") /\ "weight" \in Outcomes
      /\ UNCHANGED <<machine, config, budget, truncated, paths>>
  BY FailEnds DEF EmitFails, Working
<1>3. OutcomeIsHonest'
  <2>1. terminal' = "weight"
    BY <1>2 DEF End
  <2>2. Trail \in WalksWithin(machine, config.maxDepth) /\ Weighs(Trail)
    BY <1>1, <1>2, YieldedIsPath DEF Weighs
  <2> QED
    BY ONLY <1>2, <2>1, <2>2 DEF OutcomeIsHonest, Weighs
<1>4. FramesAreSpent'
  BY <1>1, <1>2, MarkingSpends DEF Yields
<1>5. CursorInv'
  BY <1>1, EmitKeeps
<1> QED
  BY <1>2, <1>3, <1>4, <1>5, TurnFails

LEMMA WantedWalks ==
    ASSUME CursorInv
    PROVE  /\ \A w \in WalksWithin(machine, config.maxDepth) :
                 w \in Seq(Hops(machine)) /\ IsWalk(machine, w) /\ ~(Len(w) > config.maxDepth)
           /\ \A w \in WalksOf(machine, config.maxDepth + 1) :
                 w \in Seq(Hops(machine)) /\ IsWalk(machine, w) /\ Len(w) = config.maxDepth + 1
<1>1. config.maxDepth \in Nat /\ config.maxDepth + 1 \in Nat
  BY ConfigFacts DEF CursorInv
<1>2. \A w \in WalksWithin(machine, config.maxDepth) :
         w \in Seq(Hops(machine)) /\ IsWalk(machine, w) /\ ~(Len(w) > config.maxDepth)
  <2> SUFFICES ASSUME NEW w \in WalksWithin(machine, config.maxDepth)
               PROVE  w \in Seq(Hops(machine)) /\ IsWalk(machine, w) /\ ~(Len(w) > config.maxDepth)
    OBVIOUS
  <2>1. w \in Seq(Hops(machine)) /\ Len(w) <= config.maxDepth /\ IsWalk(machine, w)
    BY <1>1, WalksWithinAreShort
  <2>2. Len(w) \in Nat
    BY ONLY <2>1
  <2> QED
    BY ONLY <1>1, <2>1, <2>2
<1>3. \A w \in WalksOf(machine, config.maxDepth + 1) :
         w \in Seq(Hops(machine)) /\ IsWalk(machine, w) /\ Len(w) = config.maxDepth + 1
  BY ONLY <1>1, WalksAreSequences
<1> QED
  BY ONLY <1>2, <1>3

LEMMA YieldedAreWanted ==
    ASSUME CursorInv, YieldsInOrder, NEW k \in DOMAIN paths
    PROVE  /\ paths[k] \in PathsWithin(machine, config.maxDepth)
           /\ paths[k].hops \in WalksWithin(machine, config.maxDepth)
           /\ paths[k].hops \in Seq(Hops(machine)) /\ IsWalk(machine, paths[k].hops)
<1>1. paths[k] \in PathsWithin(machine, config.maxDepth)
  BY DEF YieldsInOrder
<1>2. paths[k].hops \in WalksWithin(machine, config.maxDepth)
  BY ONLY <1>1, PathFacts
<1> QED
  BY <1>1, <1>2, WantedWalks

(* A trail that has nothing to yield is behind the search already, unless  *)
(* it is no path.                                                          *)
LEMMA TrailIsDone ==
    ASSUME CursorInv, frames # << >>, ~Yields, Accepts(machine, Trail)
    PROVE  Behind(Trail)
<1>1. EndOf(machine, Trail) = Top.state
  BY TrailIsWalk
<1>2. Top.emitted
  BY <1>1 DEF Yields, Accepts, Data
<1>3. Follows(Trail, frames, Len(frames)) /\ Len(Trail) = Len(frames) - 1
  BY TrailFollows
<1>4. Len(frames) \in 1..Len(frames) /\ frames[Len(frames)].emitted
  BY <1>2, TopFacts DEF CursorInv, Top
<1>5. Passed(Trail, frames)
  BY ONLY <1>3, <1>4 DEF Passed
<1> QED
  BY <1>5 DEF Behind

(* A turn that yields nothing because there is nothing to yield.           *)
LEMMA SearchMovesOn ==
    ASSUME SearchInv, frames # << >>, ~Yields, terminal = NULL,
           UNCHANGED <<machine, config, paths>>, truncated => truncated',
           \A w \in Seq(Hops(machine)) :
               IsWalk(machine, w) =>
                   /\ Behind(w) => Behind(w)'
                   /\ Behind(w)' => \/ Behind(w) \/ w = Trail
                                    \/ Len(w) > config.maxDepth /\ truncated'
    PROVE  SearchIsComplete'
<1>1. CursorInv /\ YieldsInOrder /\ SearchIsComplete
  BY DEF SearchInv
<1>2. ASSUME NEW k \in DOMAIN paths PROVE Behind(paths[k].hops)'
  <2>1. Behind(paths[k].hops)
    BY <1>1 DEF SearchIsComplete
  <2>2. paths[k].hops \in Seq(Hops(machine)) /\ IsWalk(machine, paths[k].hops)
    BY <1>1, YieldedAreWanted
  <2> DEFINE w == paths[k].hops
  <2>3. Behind(w)'
    BY <2>1, <2>2
  <2> QED
    BY <2>3
<1>3. ASSUME NEW w \in WalksWithin(machine, config.maxDepth), Behind(w)', Accepts(machine, w)
      PROVE  Yielded(PathOf(machine, w))
  <2>1. w \in Seq(Hops(machine)) /\ IsWalk(machine, w) /\ ~(Len(w) > config.maxDepth)
    BY <1>1, WantedWalks
  <2>2. Behind(w) \/ w = Trail
    BY <1>3, <2>1
  <2>3. Behind(w)
    BY <1>1, <1>3, <2>2, TrailIsDone
  <2> QED
    BY <1>1, <1>3, <2>3 DEF SearchIsComplete
<1>4. ASSUME ~truncated', NEW w \in WalksOf(machine, config.maxDepth + 1), Behind(w)' PROVE FALSE
  <2>1. w \in Seq(Hops(machine)) /\ IsWalk(machine, w) /\ Len(w) = config.maxDepth + 1
    BY <1>1, WantedWalks
  <2>2. Behind(w) \/ w = Trail
    BY <1>4, <2>1
  <2>3. Len(Trail) <= config.maxDepth /\ config.maxDepth \in Nat /\ Len(Trail) \in Nat
    <3>1. Len(Trail) = Len(steps) /\ Len(steps) \in Nat /\ Len(steps) <= config.maxDepth
      BY <1>1, TrailIsWalk
    <3> QED
      BY <1>1, <3>1, ConfigFacts DEF CursorInv
  <2>4. w # Trail
    BY ONLY <2>1, <2>3
  <2> QED
    BY <1>1, <1>4, <2>2, <2>4 DEF SearchIsComplete
<1> QED
  BY <1>2, <1>3, <1>4 DEF SearchIsComplete, Yielded

LEMMA SearchThroughAdvance ==
    ASSUME SearchInv, Advance
    PROVE  SearchInv'
<1>1. /\ CursorInv /\ BudgetIsExact /\ PathsAreCounted /\ CutsAreReal /\ YieldsInOrder
      /\ FramesAreSpent
  BY DEF SearchInv
<1>2. /\ Working /\ HasArc /\ frames # << >> /\ ~Yields /\ GoOn /\ Count(Arc.target)
      /\ Len(steps) < config.maxDepth
      /\ UNCHANGED <<machine, config, truncated, paths>>
      /\ frames' = Append(Moved, Frame(Arc.target, Top.weight + Arc.weight))
  BY DEF Advance, Working, HasArc
<1>3. OutcomeIsHonest' /\ (Calling' <=> Calling) /\ terminal' = NULL /\ terminal = NULL
  BY <1>2, TurnGoesOn
<1>4. CursorInv'
  BY <1>1, AdvanceKeeps
<1>5. FramesAreSpent'
  <2> DEFINE f == Frame(Arc.target, Top.weight + Arc.weight)
             n == Len(frames)
  <2>1. f.next = 1 /\ frames' = Append(Moved, f)
    BY <1>2 DEF Frame
  <2>2. /\ Moved \in Seq(Frames) /\ Len(Moved) = n /\ n \in Nat \ {0}
    BY <1>1, <1>2, TopFacts DEF CursorInv
  <2>3. /\ \A i \in 1..n : i # n => Moved[i] = frames[i]
        /\ Moved[n].emitted
    BY <1>1, <1>2, ReframeFacts DEF CursorInv
  <2>4. \A i \in 1..(n - 1) : frames[i].emitted
    BY <1>1 DEF FramesAreSpent
  <2> HIDE DEF f, n
  <2>5. Len(frames') = n + 1 /\ frames'[n + 1] = f /\ \A i \in 1..n : frames'[i] = Moved[i]
    BY ONLY <2>1, <2>2
  <2>6. ASSUME NEW i \in 1..(Len(frames') - 1) PROVE frames'[i].emitted
    <3>1. i \in 1..n /\ (i # n => i \in 1..(n - 1))
      BY ONLY <2>2, <2>5, <2>6
    <3>2. frames'[i] = Moved[i]
      BY ONLY <2>5, <3>1
    <3>3. Moved[i].emitted
      BY ONLY <2>3, <2>4, <3>1
    <3> QED
      BY ONLY <3>2, <3>3
  <2>7. frames'[Len(frames')].next = 1
    BY ONLY <2>1, <2>5
  <2> QED
    BY ONLY <2>6, <2>7 DEF FramesAreSpent, Top
<1>6. BudgetIsExact'
  <2>1. Arc.target \in States /\ Arc.target \in Reach(machine, config.maxDepth)
    BY <1>1, <1>2, ReachFacts, FurtherIsWalk
  <2> QED
    BY <1>1, <1>2, <2>1, CountIsExact
<1>7. SearchIsComplete'
  <2>1. \A w \in Seq(Hops(machine)) : IsWalk(machine, w) => (Behind(w)' <=> Behind(w) \/ w = Trail)
    BY <1>1, TurnPasses
  <2> QED
    BY <1>2, <1>3, <2>1, SearchMovesOn
<1> QED
  BY <1>1, <1>2, <1>3, <1>4, <1>5, <1>6, <1>7, CountIsKept, CutsAreKept, OrderIsKept DEF SearchInv

LEMMA SearchThroughRetreat ==
    ASSUME SearchInv, Retreat
    PROVE  SearchInv'
<1>1. /\ CursorInv /\ BudgetIsExact /\ PathsAreCounted /\ CutsAreReal /\ YieldsInOrder
      /\ FramesAreSpent
  BY DEF SearchInv
<1>2. /\ Working /\ frames # << >> /\ ~Yields /\ GoOn
      /\ ~HasArc \/ Len(steps) >= config.maxDepth
      /\ UNCHANGED <<machine, config, budget, paths>>
      /\ truncated' = (truncated \/ HasArc)
      /\ frames' = Pop(frames)
  BY DEF Retreat, Working
<1>3. OutcomeIsHonest' /\ (Calling' <=> Calling) /\ terminal' = NULL /\ terminal = NULL
  BY <1>2, TurnGoesOn
<1>4. CursorInv'
  BY <1>1, RetreatKeeps
<1>5. FramesAreSpent'
  <2> DEFINE n == Len(frames)
  <2>1. frames \in Seq(Frames)
    BY <1>1 DEF CursorInv, TypeOK, Frames
  <2>2. n \in Nat \ {0} /\ Len(frames') = n - 1 /\ \A i \in 1..(n - 1) : frames'[i] = frames[i]
    BY ONLY <1>2, <2>1, Popped
  <2>3. \A i \in 1..(n - 1) : frames[i].emitted
    BY <1>1 DEF FramesAreSpent
  <2> HIDE DEF n
  <2>4. \A i \in 1..(n - 1) : frames'[i].emitted
    BY ONLY <2>2, <2>3
  <2>5. \A i \in 1..(Len(frames') - 1) : i \in 1..(n - 1)
    BY ONLY <2>2
  <2>6. frames' # << >> => Len(frames') \in 1..(n - 1)
    <3>1. frames' \in Seq(Frames)
      BY ONLY <1>2, <2>1, Popped
    <3> QED
      BY ONLY <2>2, <3>1
  <2> QED
    BY ONLY <2>4, <2>5, <2>6 DEF FramesAreSpent, Top
<1>6. CutsAreReal'
  <2>1. CASE HasArc
    <3>1. /\ Further \in Seq(Hops(machine)) /\ Len(Further) = Len(steps) + 1
          /\ IsWalk(machine, Further)
      BY <1>1, <2>1, FurtherIsWalk
    <3>2. Len(steps) \in Nat /\ Len(steps) <= config.maxDepth /\ Len(steps) >= config.maxDepth
          /\ config.maxDepth \in Nat
      BY <1>1, <1>2, <2>1, TrailIsWalk, ConfigFacts DEF CursorInv
    <3>3. Len(Further) = config.maxDepth + 1 /\ config.maxDepth + 1 \in Nat
      BY ONLY <3>1, <3>2
    <3>4. Further \in WalksOf(machine, config.maxDepth + 1)
      BY ONLY <3>1, <3>3, WalksAreSequences
    <3> QED
      BY <1>2, <3>4 DEF CutsAreReal, GoesDeeper
  <2>2. CASE ~HasArc
    <3>1. truncated' = truncated
      BY <1>1, <1>2, <2>2 DEF CursorInv, TypeOK
    <3> QED
      BY <1>1, <1>2, <3>1, CutsAreKept
  <2> QED
    BY <2>1, <2>2
<1>7. SearchIsComplete'
  <2>1. \A w \in Seq(Hops(machine)) :
           IsWalk(machine, w) =>
               /\ Behind(w) => Behind(w)'
               /\ Behind(w)' => \/ Behind(w) \/ w = Trail
                                \/ Len(w) > config.maxDepth /\ truncated'
    BY <1>1, RetreatPasses
  <2>2. truncated => truncated'
    BY <1>2
  <2> QED
    BY <1>2, <1>3, <2>1, <2>2, SearchMovesOn
<1> QED
  BY <1>1, <1>2, <1>3, <1>4, <1>5, <1>6, <1>7, CountIsKept, BudgetIsKept, OrderIsKept DEF SearchInv

(* The path that is yielded comes after all that have been, and nothing    *)
(* that comes before it is left out.                                       *)
LEMMA SearchThroughEmit ==
    ASSUME SearchInv, Emit
    PROVE  SearchInv'
<1> DEFINE wanted == PathsWithin(machine, config.maxDepth)
           n == Len(paths)
<1>1. /\ CursorInv /\ BudgetIsExact /\ PathsAreCounted /\ CutsAreReal /\ YieldsInOrder
      /\ FramesAreSpent /\ SearchIsComplete
  BY DEF SearchInv
<1>2. /\ Working /\ Yields /\ frames # << >> /\ ~Top.emitted /\ frames' = Marked
      /\ UNCHANGED <<machine, config, budget, truncated, terminal>>
      /\ ~Calling' /\ Calling
  BY DEF Emit, Yields, Working, Answer, Calling
<1>3. terminal = NULL /\ terminal' = NULL
  BY <1>1, <1>2, WorkFacts
<1>4. PICK t \in WalksWithin(machine, config.maxDepth) :
          t = Trail /\ Accepts(machine, t) /\ paths' = Append(paths, PathOf(machine, t))
  <2>1. /\ Trail \in WalksWithin(machine, config.maxDepth) /\ Accepts(machine, Trail)
        /\ PathOf(machine, Trail) =
               [hops |-> Trail, steps |-> steps, final |-> Top.state,
                weight |-> Top.weight + Data(Top.state).weight]
    BY <1>1, <1>2, YieldedIsPath
  <2>2. paths' = Append(paths, PathOf(machine, Trail))
    BY <2>1 DEF Emit
  <2> QED
    BY ONLY <2>1, <2>2
<1>5. PICK p \in wanted : p = PathOf(machine, t) /\ p.hops = t
  BY ONLY <1>4, PathFacts
<1>6. paths' = Append(paths, p)
  BY ONLY <1>4, <1>5
<1> HIDE DEF n
<1>7. paths \in Seq(wanted) /\ n < config.maxPaths /\ config.maxPaths \in Nat /\ n = Len(paths)
  <2>1. paths \in Seq(wanted) /\ n < config.maxPaths
    BY <1>1, <1>2 DEF PathsAreCounted, n
  <2>2. config.maxPaths \in Nat
    BY <1>1, ConfigsAssumption DEF CursorInv, TypeOK
  <2> QED
    BY ONLY <2>1, <2>2 DEF n
<1> HIDE DEF wanted
<1>8. /\ paths' \in Seq(wanted) /\ Len(paths') = n + 1 /\ n \in Nat
      /\ DOMAIN paths = 1..n /\ DOMAIN paths' = 1..(n + 1)
      /\ \A k \in 1..n : paths'[k] = paths[k]
      /\ paths'[n + 1] = p
  BY ONLY <1>6, <1>7, p \in wanted, Pushed
<1>9. \A k \in 1..(n + 1) : k \in 1..n \/ k = n + 1
  BY ONLY <1>8
<1>10. /\ \A q : Yielded(q) => Yielded(q)'
      /\ Yielded(p)'
  <2>1. 1..n \subseteq 1..(n + 1) /\ n + 1 \in 1..(n + 1)
    BY ONLY <1>8
  <2>2. ASSUME NEW q, Yielded(q) PROVE Yielded(q)'
    <3>1. PICK k \in 1..n : paths[k] = q
      BY <1>8, <2>2 DEF Yielded
    <3>2. k \in DOMAIN paths' /\ paths'[k] = q
      BY ONLY <1>8, <2>1, <3>1
    <3> QED
      BY ONLY <3>2 DEF Yielded
  <2>3. \E k \in DOMAIN paths' : paths'[k] = p
    BY ONLY <1>8, <2>1
  <2>5. Yielded(p)'
    BY ONLY <2>3 DEF Yielded
  <2> QED
    BY ONLY <2>2, <2>5
<1>11. PathsAreCounted'
  <2>1. PathsWithin(machine', config'.maxDepth) = wanted
    BY <1>2 DEF wanted
  <2>2. n + 1 <= config'.maxPaths
    BY ONLY <1>2, <1>7, <1>8
  <2> QED
    BY ONLY <1>2, <1>8, <2>1, <2>2 DEF PathsAreCounted
<1>12. \A k \in 1..n : /\ paths[k] \in wanted /\ paths[k].hops \in Seq(Hops(machine))
                       /\ IsWalk(machine, paths[k].hops) /\ Behind(paths[k].hops)
  <2> SUFFICES ASSUME NEW k \in 1..n
               PROVE  /\ paths[k] \in wanted /\ paths[k].hops \in Seq(Hops(machine))
                      /\ IsWalk(machine, paths[k].hops) /\ Behind(paths[k].hops)
    OBVIOUS
  <2>1. k \in DOMAIN paths
    BY ONLY <1>8, k \in 1..n
  <2> QED
    BY <1>1, <1>3, <2>1, YieldedAreWanted DEF wanted, SearchIsComplete
<1>13. \A w \in Seq(Hops(machine)) : IsWalk(machine, w) => (Behind(w)' <=> Behind(w) \/ w = t)
  BY <1>1, <1>4, TurnPasses
<1>14. t \in Seq(Hops(machine)) /\ IsWalk(machine, t) /\ Len(t) <= config.maxDepth
  <2>1. config.maxDepth \in Nat
    BY <1>1, ConfigFacts DEF CursorInv
  <2> QED
    BY ONLY <2>1, <1>4, WalksWithinAreShort
<1>15. SearchIsComplete'
  <2>1. ASSUME NEW k \in DOMAIN paths' PROVE Behind(paths[k].hops)'
    <3>1. CASE k \in 1..n
      <4>1. PICK w \in Seq(Hops(machine)) : w = paths[k].hops /\ IsWalk(machine, w) /\ Behind(w)
        BY ONLY <1>12, <3>1
      <4>2. Behind(w)'
        BY ONLY <1>13, <4>1
      <4>3. w = paths'[k].hops
        BY ONLY <1>8, <3>1, <4>1
      <4> QED
        BY ONLY <4>2, <4>3 DEF Behind
    <3>2. CASE k = n + 1
      <4>1. t = paths'[k].hops
        BY ONLY <1>5, <1>8, <3>2
      <4>2. Behind(t)'
        BY ONLY <1>13, <1>14
      <4> QED
        BY ONLY <4>1, <4>2 DEF Behind
    <3> QED
      BY ONLY <1>8, <1>9, <2>1, <3>1, <3>2
  <2>2. ASSUME NEW w \in WalksWithin(machine, config.maxDepth), Behind(w)', Accepts(machine, w)
        PROVE  Yielded(PathOf(machine, w))'
    <3>1. w \in Seq(Hops(machine)) /\ IsWalk(machine, w)
      BY <1>1, WantedWalks
    <3>2. PICK q : q = PathOf(machine, w)
      OBVIOUS
    <3>3. CASE w = t
      <4>1. q = p
        BY ONLY <1>5, <3>2, <3>3
      <4> QED
        BY ONLY <1>2, <1>10, <3>2, <4>1 DEF Yielded
    <3>4. CASE w # t
      <4>1. Behind(w)
        BY ONLY <1>13, <2>2, <3>1, <3>4
      <4>2. Yielded(q)
        BY <1>1, <1>3, <2>2, <3>2, <4>1 DEF SearchIsComplete
      <4>3. Yielded(q)'
        BY ONLY <1>10, <4>2
      <4> QED
        BY ONLY <1>2, <3>2, <4>3 DEF Yielded
    <3> QED
      BY <3>3, <3>4
  <2>3. ASSUME ~truncated, NEW w \in WalksOf(machine, config.maxDepth + 1), Behind(w)' PROVE FALSE
    <3>1. w \in Seq(Hops(machine)) /\ IsWalk(machine, w) /\ Len(w) = config.maxDepth + 1
      BY <1>1, WantedWalks
    <3>2. config.maxDepth \in Nat
      BY <1>1, ConfigFacts DEF CursorInv
    <3>3. w # t
      BY ONLY <1>14, <3>1, <3>2
    <3>4. Behind(w)
      BY ONLY <1>13, <2>3, <3>1, <3>3
    <3> QED
      BY <1>1, <1>3, <2>3, <3>4 DEF SearchIsComplete
  <2> QED
    BY ONLY <1>2, <2>1, <2>2, <2>3 DEF SearchIsComplete
<1>16. YieldsInOrder'
  <2>1. /\ \A k \in 1..n : paths[k] \in wanted
        /\ \A j, k \in 1..n : j < k => Before(paths[j].hops, paths[k].hops)
        /\ \A q \in wanted, k \in 1..n : Before(q.hops, paths[k].hops) => Yielded(q)
    BY ONLY <1>1, <1>8 DEF YieldsInOrder, wanted
  <2>2. \A k \in 1..(n + 1) : paths'[k] \in wanted
    BY ONLY <1>5, <1>8, <1>9, <2>1
  <2>3. ASSUME NEW j \in 1..(n + 1), NEW k \in 1..(n + 1), j < k
        PROVE  Before(paths'[j].hops, paths'[k].hops)
    <3>1. j \in 1..n
      BY ONLY <1>8, <2>3
    <3>2. CASE k \in 1..n
      BY ONLY <1>8, <2>1, <2>3, <3>1, <3>2
    <3>3. CASE k = n + 1
      <4>1. Before(paths[j].hops, t)
        BY <1>1, <1>2, <1>4, <1>12, <3>1, BehindIsBefore
      <4> QED
        BY ONLY <1>5, <1>8, <3>1, <3>3, <4>1
    <3> QED
      BY ONLY <1>9, <2>3, <3>2, <3>3
  <2>4. ASSUME NEW q \in wanted, NEW k \in 1..(n + 1), Before(q.hops, paths'[k].hops)
        PROVE  Yielded(q)'
    <3>1. CASE k \in 1..n
      <4>1. Yielded(q)
        BY ONLY <1>8, <2>1, <2>4, <3>1
      <4> QED
        BY ONLY <1>10, <4>1
    <3>2. CASE k = n + 1
      <4>1. PICK w \in WalksWithin(machine, config.maxDepth) : Accepts(machine, w) /\ q = PathOf(machine, w)
        BY ONLY q \in wanted, PathFacts DEF wanted
      <4>2. q.hops = w /\ w \in Seq(Hops(machine))
        BY <1>1, <4>1, PathFacts, WantedWalks
      <4>3. Before(w, Trail)
        BY ONLY <1>4, <1>5, <1>8, <2>4, <3>2, <4>2
      <4>4. Behind(w)
        BY <1>1, <1>2, <4>2, <4>3, BeforeIsBehind
      <4>5. Yielded(q)
        BY <1>1, <1>3, <4>1, <4>4 DEF SearchIsComplete
      <4> QED
        BY ONLY <1>10, <4>5
    <3> QED
      BY ONLY <1>9, <2>4, <3>1, <3>2
  <2>5. PathsWithin(machine', config'.maxDepth) = wanted
    BY <1>2 DEF wanted
  <2> QED
    BY ONLY <1>8, <2>2, <2>3, <2>4, <2>5 DEF YieldsInOrder
<1>17. FramesAreSpent' /\ CursorInv'
  BY <1>1, <1>2, MarkingSpends, EmitKeeps
<1> QED
  BY <1>1, <1>2, <1>3, <1>11, <1>15, <1>16, <1>17, BudgetIsKept, CutsAreKept, NoOutcome DEF SearchInv

LEMMA SearchGoesOn ==
    ASSUME SearchInv, [Next]_vars
    PROVE  SearchInv'
<1>1. CASE UNCHANGED vars
  <2>1. /\ CursorInv /\ FramesAreSpent /\ BudgetIsExact /\ PathsAreCounted /\ CutsAreReal
        /\ SearchIsComplete /\ YieldsInOrder /\ OutcomeIsHonest
    BY DEF SearchInv
  <2>2. UNCHANGED <<machine, config, frames, seen, expanded, work, truncated, started,
                    terminal, callWork, paths>>
    BY <1>1 DEF vars, walk, budget
  <2>3. CursorInv'
    BY <1>1, <2>1, NextKeeps
  <2>4. FramesAreSpent' /\ BudgetIsExact' /\ PathsAreCounted' /\ CutsAreReal'
    <3>1. FramesAreSpent'
      BY ONLY <2>1, <2>2 DEF FramesAreSpent, Top
    <3>2. BudgetIsExact' /\ PathsAreCounted' /\ CutsAreReal'
      BY <2>1, <2>2, BudgetIsKept, CountIsKept, CutsAreKept DEF budget, Calling
    <3> QED
      BY <3>1, <3>2
  <2>5. SearchIsComplete'
    BY ONLY <2>1, <2>2 DEF SearchIsComplete, Behind, Yielded
  <2>6. YieldsInOrder'
    BY <2>1, <2>2, OrderIsKept
  <2>7. OutcomeIsHonest'
    <3>1. AllYielded' = AllYielded /\ GoesDeeper' = GoesDeeper
      BY ONLY <2>2 DEF AllYielded, GoesDeeper, Yielded
    <3> QED
      BY ONLY <2>1, <2>2, <3>1 DEF OutcomeIsHonest, Data, Weighs
  <2> QED
    BY ONLY <2>3, <2>4, <2>5, <2>6, <2>7 DEF SearchInv
<1>2. CASE Next
  BY <1>2, SearchOutsideTurns, SearchThroughBegin, SearchThroughBeginFails, SearchThroughEmit,
     SearchThroughEmitFails, SearchThroughAdvance, SearchThroughAdvanceFails,
     SearchThroughRetreat DEF Next, Poll, Turn
<1> QED
  BY <1>1, <1>2

LEMMA SearchHolds == Spec => []SearchInv
<1>1. Init => SearchInv
  BY SearchBegins
<1>2. SearchInv /\ [Next]_vars => SearchInv'
  BY SearchGoesOn
<1> QED
  BY <1>1, <1>2, PTL DEF Spec

-----------------------------------------------------------------------------
(* The theorems                                                            *)

(* Whatever the machine and the bounds, the frames and the steps are those *)
(* of one walk from the start, within every bound, and an outcome that was *)
(* answered is the outcome kept.                                           *)
THEOREM WalkIsAlwaysCoherent == Spec => []CursorInv
<1>1. Init => CursorInv
  BY InitHolds
<1>2. CursorInv /\ [Next]_vars => CursorInv'
  BY NextKeeps
<1> QED
  BY <1>1, <1>2, PTL DEF Spec

(* Whatever a client goes on calling, an outcome once answered is answered *)
(* for ever, and no path is yielded after it.                              *)
THEOREM OutcomeIsAlwaysSticky == Spec => OutcomeIsSticky
<1>1. CursorInv /\ [Next]_vars => [(reply \in Outcomes) => reply' = reply /\ paths' = paths]_vars
  <2> SUFFICES ASSUME CursorInv, Next, reply \in Outcomes
               PROVE  reply' = reply /\ paths' = paths
    OBVIOUS
  <2>1. terminal = reply /\ ~Calling /\ terminal # NULL
    BY NullAssumption DEF CursorInv, OutcomeIsKept
  <2>2. AskAgain
    BY <2>1 DEF Next, Poll, Turn, EnoughPaths, Call, Cancel, Finish, Pause, OutOfWork,
                Begin, BeginFails, Emit, EmitFails, Advance, AdvanceFails, Retreat, Working
  <2> QED
    BY <2>1, <2>2 DEF AskAgain, Answer
<1> QED
  BY <1>1, WalkIsAlwaysCoherent, PTL DEF Spec, OutcomeIsSticky

(* Whatever the machine, the bounds and the calls, the paths that a cursor *)
(* has yielded are the first of the accepting paths within its depth       *)
(* bound, in depth-first order, each once and with its own weight.         *)
THEOREM PathsComeInOrder == Spec => []YieldsInOrder
<1>1. SearchInv => YieldsInOrder
  BY DEF SearchInv
<1> QED
  BY <1>1, SearchHolds, PTL

(* Whatever the machine, the bounds and the calls, an outcome is true of   *)
(* the machine: a cursor that is exhausted has yielded every accepting     *)
(* path there is, and one that is refused a budget could not have done     *)
(* with it.                                                                *)
THEOREM OutcomesAreHonest == Spec => []OutcomeIsHonest
<1>1. SearchInv => OutcomeIsHonest
  BY DEF SearchInv
<1> QED
  BY <1>1, SearchHolds, PTL
=============================================================================
