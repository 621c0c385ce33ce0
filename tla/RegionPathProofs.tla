-------------------------- MODULE RegionPathProofs --------------------------
(***************************************************************************)
(* The regions of the parallel state keep to themselves: on a chart with   *)
(* independent regions each holds exactly its own path, and IsInState      *)
(* tells the truth, whatever is sent, cancelled or completed meanwhile.    *)
(***************************************************************************)
EXTENDS RegionProofs

USE DEF IsTree, InitialsLead

-----------------------------------------------------------------------------
(***************************************************************************)
(* Where events can go, and where they lead.                               *)
(***************************************************************************)

\* Above a state of a region lie states of the region and what is above the
\* parallel state.
LEMMA RegionPath ==
  ASSUME NEW r \in Region, NEW s \in State, r \in Ancestors(s), NEW a \in Ancestors(s)
  PROVE  a \in Below(r) \/ a \in Ancestors(Par)
<1> DEFINE U == Below(r) \cup Ancestors(Par)
<1>1. U \in SUBSET State /\ s \in U
  BY AncestorsInState DEF Below
<1>2. ClosedUnderParent(U)
  <2> SUFFICES ASSUME NEW x \in U, Parent[x] # NoState PROVE Parent[x] \in U
    BY DEF ClosedUnderParent
  <2>1. CASE x \in Ancestors(Par)
    BY <2>1, RegionFacts, AncestorsClosed DEF ClosedUnderParent
  <2>2. CASE x \in Below(r) /\ x # r
    <3>1. x \in State /\ r \in Ancestors(Parent[x])
      BY <2>2, AncestorsUnfold DEF Below
    <3> QED BY <3>1, TreeAssumption DEF Below
  <2>3. CASE x = r
    BY <2>3, RegionFacts, AncestorSelf
  <2> QED BY <2>1, <2>2, <2>3
<1> QED BY <1>1, <1>2, AncestorsLeast

\* Nothing above the parallel state is in a region.
LEMMA NotBelow == \A r \in Region : Below(r) \cap Ancestors(Par) = {}
<1> SUFFICES ASSUME NEW r \in Region, NEW s \in Below(r), s \in Ancestors(Par) PROVE FALSE
  OBVIOUS
<1>1. r \in Ancestors(Par)
  BY RegionFacts, AncestorsTransitive DEF Below
<1> QED BY <1>1, RegionFacts, TreeAssumption

\* Two regions have no state in common.
LEMMA RegionsDisjoint ==
  ASSUME NEW r \in Region, NEW q \in Region, NEW s \in Below(r), s \in Below(q)
  PROVE  r = q
<1>1. s \in State /\ r \in Ancestors(s) /\ q \in Ancestors(s)
  BY DEF Below
<1>2. q \in Below(q) /\ r \in Below(r)
  BY RegionFacts, AncestorSelf DEF Below
<1>3. q \in Below(r) /\ r \in Below(q)
  BY <1>1, <1>2, RegionPath, NotBelow
<1> QED BY <1>3, RegionFacts, AncestorsAntisymmetric DEF Below

\* On a chart with independent regions a region moves within itself.
LEMMA RegionMoves ==
  ASSUME RegionLocal, NEW r \in Region, NEW s \in Below(r),
         NEW e \in EventID \ {DoneEvent[Par]}, NEW ok,
         NEW t \in PickTransitionHierarchical(s, e, ok), t.target # NoState
  PROVE  t.target \in Below(r)
<1>0. s \in State /\ r \in Ancestors(s)
  BY DEF Below
<1>1. PICK h \in Ancestors(s), i \in Nat :
        /\ i \in DOMAIN Transitions[h] /\ h \in State /\ t = Transitions[h][i]
        /\ t.event = e \/ t.event = AnyEvent
  <2>1. \A h \in State : DOMAIN Transitions[h] \subseteq Nat
    BY EventAssumption
  <2> QED BY <1>0, <2>1, SelectedByHandler
<1>2. h \notin Ancestors(Par)
  BY <1>1, EventAssumption, RegionFacts DEF RegionLocal, EventID
<1>3. h \in Below(r)
  BY <1>0, <1>1, <1>2, RegionPath
<1>4. r \in RegionOf(h)
  BY <1>3 DEF RegionOf, Below
<1>5. RegionOf(t.target) = RegionOf(h)
  BY <1>1, <1>4 DEF RegionLocal
<1>6. t.target \in State
  BY <1>0, SelectedFacts
<1> QED BY <1>4, <1>5, <1>6 DEF RegionOf, Below

-----------------------------------------------------------------------------
(***************************************************************************)
(* The paths of the regions.                                               *)
(***************************************************************************)

\* A transition within a region exits and enters states of that region only.
LEMMA MoveWithin ==
  ASSUME NEW r \in Region, NEW from \in Below(r), NEW to \in Below(r)
  PROVE  /\ Ancestors(from) \ Ancestors(ComputeLCA(from, to)) \subseteq Below(r)
         /\ Ancestors(to) \ Ancestors(ComputeLCA(from, to)) \subseteq Below(r)
         /\ Ancestors(ComputeLCA(from, to)) \subseteq Ancestors(from)
         /\ Ancestors(ComputeLCA(from, to)) \subseteq Ancestors(to)
<1> DEFINE l == ComputeLCA(from, to)
<1>0. /\ from \in State /\ to \in State /\ r \in Ancestors(from) /\ r \in Ancestors(to)
      /\ r \in State /\ Par \in State /\ Par \in Ancestors(r) /\ r # Par
  <2>1. Par \in Ancestors(r)
    BY RegionFacts, AncestorsUnfold, AncestorSelf
  <2>2. r # Par
    BY <2>1, RegionFacts, TreeAssumption, AncestorSelf
  <2> QED BY <2>1, <2>2, RegionFacts DEF Below
<1>1. Par \in Ancestors(from) /\ Par \in Ancestors(to)
  BY <1>0, AncestorsTransitive
<1>2. from # Par
  BY <1>0, NotBelow, RegionFacts, AncestorSelf
<1>3. Par \in Ancestors(l)
  <2>1. CASE from = to
    <3>1. l = Parent[from]
      BY <2>1 DEF ComputeLCA
    <3> QED BY <1>0, <1>1, <1>2, <3>1, AncestorsUnfold
  <2>2. CASE from # to
    <3> DEFINE C == Ancestors(from) \cap Ancestors(to)
    <3>1. l = Innermost(C)
      BY <2>2 DEF ComputeLCA
    <3>2. C \subseteq Ancestors(Innermost(C))
      BY <1>0, <1>1, InnermostExists
    <3> QED BY <1>1, <3>1, <3>2
  <2> QED BY <2>1, <2>2
<1>4. /\ Ancestors(l) \subseteq Ancestors(from) /\ Ancestors(l) \subseteq Ancestors(to)
      /\ l \in State \cup {NoState}
  BY <1>0, LCAAboveBoth
<1>5. Ancestors(Par) \subseteq Ancestors(l)
  BY <1>3, <1>4, AncestorsNoState, AncestorsTransitive
<1>6. \A a \in Ancestors(from) \cup Ancestors(to) : a \in Below(r) \/ a \in Ancestors(Par)
  BY <1>0, RegionPath
<1> QED BY <1>4, <1>5, <1>6

\* A region's own place, and the transition it is in, are its own states.
OwnInv ==
  \A r \in Region :
    /\ place[r] \in Below(r)
    /\ pc[r] \in {"exiting", "acting"} /\ step[r].to # NoState =>
         step[r].to \in Below(r) /\ step[r].from = place[r]

\* The loop's transitions lead out of the parallel state, and exit it if it is
\* active; until then rt.current is where the parallel state or a region is.
LoopInv ==
  /\ pc[Loop] \in {"selected", "exiting", "acting"} /\ step[Loop].to # NoState =>
       Par \notin Ancestors(step[Loop].to)
  /\ pc[Loop] = "exiting" /\ Par \in active => Par \in Ancestors(step[Loop].from)
  /\ pc[Loop] = "acting" /\ step[Loop].to # NoState => Par \notin active
  /\ Par \in active => current = Par \/ \E r \in Region : current = place[r]

\* Until the regions are spawned Start has entered what is above them.
BeforeInv ==
  /\ life = "new" => active = {} /\ current = Par /\ regions = {}
  /\ life = "starting" /\ regions = {} => active = Ancestors(Par) \ {Par} /\ current = Par

\* Outside the regions the path to the parallel state is active.
OuterInv ==
  Par \in active => active \ UNION {Below(r) : r \in Region} = Ancestors(Par)

\* What a region has entered and not exited.
Holds(r) ==
  /\ pc[r] \in {"off", "spawned", "entering", "ended"} => active \cap Below(r) = {}
  /\ \/ pc[r] \in {"idle", "check", "claim", "claimed", "reading", "exiting"}
     \/ pc[r] = "acting" /\ step[r].to = NoState
     => active \cap Below(r) = Ancestors(place[r]) \cap Below(r)
  /\ pc[r] = "acting" /\ step[r].to # NoState =>
       active \cap Below(r) = Ancestors(ComputeLCA(step[r].from, step[r].to)) \cap Below(r)

HoldsInv == Par \in active => \A r \in Region : Holds(r)

PathInv == OwnInv /\ LoopInv /\ BeforeInv /\ OuterInv /\ HoldsInv

\* The path of a region that is not concerned stays as it is.
LEMMA HoldsKept ==
  ASSUME NEW r \in Region, Holds(r),
         pc'[r] = pc[r], step'[r] = step[r], place'[r] = place[r],
         active' \cap Below(r) = active \cap Below(r)
  PROVE  Holds(r)'
BY DEF Holds

\* Initially.
LEMMA PathInit == Init => PathInv
<1> SUFFICES ASSUME Init PROVE PathInv
  OBVIOUS
<1>1. \A r \in Region : FindDeepestInitial(r) \in Below(r)
  BY RegionFacts, DeepestInitialBelow DEF Below
<1>2. OwnInv
  BY <1>1 DEF Init, OwnInv, Actor
<1>3. LoopInv /\ BeforeInv /\ OuterInv /\ HoldsInv
  BY DEF Init, LoopInv, BeforeInv, OuterInv, HoldsInv, Actor
<1> QED BY <1>2, <1>3 DEF PathInv

\* A state below the parallel state is in a region.
LEMMA InRegion ==
  ASSUME NEW s \in State, Par \in Ancestors(s)
  PROVE  s = Par \/ \E r \in Region : s \in Below(r)
<1> DEFINE W == {u \in State : Par \in Ancestors(u) /\ u # Par /\ \A r \in Region : u \notin Below(r)}
<1>1. SUFFICES ASSUME s \in W PROVE FALSE
  OBVIOUS
<1>2. ClosedUnderParent(W)
  <2> SUFFICES ASSUME NEW w \in W, Parent[w] # NoState PROVE Parent[w] \in W
    BY DEF ClosedUnderParent
  <2>1. Parent[w] \in State /\ Ancestors(w) = {w} \cup Ancestors(Parent[w])
    BY TreeAssumption, AncestorsUnfold
  <2>2. w \notin Region
    BY AncestorSelf DEF Below
  <2>3. Parent[w] # Par
    BY <2>2 DEF Region, Children
  <2> QED BY <2>1, <2>3 DEF Below
<1>3. Ancestors(s) \subseteq W
  BY <1>1, <1>2, AncestorsLeast
<1> QED BY <1>3

\* A step of a region that neither enters nor exits states.
Rests(r) ==
  \/ pc'[r] = pc[r] /\ step'[r].to = step[r].to /\ step'[r].from = step[r].from
  \/ BetweenEvents(r) /\ BetweenEvents(r)'
  \/ pc[r] = "spawned" /\ pc'[r] = "entering"
  \/ BetweenEvents(r) /\ pc'[r] = "acting" /\ step'[r].to = NoState
  \/ BetweenEvents(r) /\ pc'[r] = "exiting" /\ step'[r].from = place[r]
                      /\ step'[r].to \in Below(r)
  \/ pc[r] = "acting" /\ step[r].to = NoState /\ BetweenEvents(r)'

\* Such steps of the regions, and steps of the loop, disturb nothing.
LEMMA RestingKept ==
  ASSUME PathInv, UNCHANGED <<active, current, place>>, \A r \in Region : Rests(r)
  PROVE  OwnInv' /\ OuterInv' /\ HoldsInv'
<1>1. OwnInv'
  <2> SUFFICES ASSUME NEW r \in Region
               PROVE  /\ place'[r] \in Below(r)
                      /\ pc'[r] \in {"exiting", "acting"} /\ step'[r].to # NoState =>
                           step'[r].to \in Below(r) /\ step'[r].from = place'[r]
    BY DEF OwnInv
  <2> QED BY DEF Rests, BetweenEvents, PathInv, OwnInv
<1>2. OuterInv'
  BY DEF PathInv, OuterInv
<1>3. ASSUME NEW r \in Region, Holds(r) PROVE Holds(r)'
  BY <1>3 DEF Rests, BetweenEvents, Holds
<1> QED BY <1>1, <1>2, <1>3 DEF PathInv, HoldsInv

\* The loop between two of its transitions, or in the same one.
LEMMA LoopRests ==
  ASSUME PathInv, UNCHANGED <<active, current, place>>,
         \/ /\ pc'[Loop] = pc[Loop]
            /\ step'[Loop].to = step[Loop].to /\ step'[Loop].from = step[Loop].from
         \/ pc'[Loop] \notin {"selected", "exiting", "acting"}
  PROVE  LoopInv'
BY DEF PathInv, LoopInv

\* A region's step that changes its own states only.
LEMMA OneRegion ==
  ASSUME PathInv, NEW r \in Region,
         \A q \in Region \ {r} : pc'[q] = pc[q] /\ step'[q] = step[q] /\ place'[q] = place[q],
         active \ Below(r) = active' \ Below(r),
         Par \in active => Holds(r)'
  PROVE  OuterInv' /\ HoldsInv' /\ (Par \in active' <=> Par \in active)
<1>1. Par \notin Below(r)
  BY NotBelow, RegionFacts, AncestorSelf
<1>2. active \ UNION {Below(q) : q \in Region} = active' \ UNION {Below(q) : q \in Region}
  OBVIOUS
<1>3. OuterInv'
  BY <1>1, <1>2 DEF PathInv, OuterInv
<1>4. ASSUME NEW q \in Region, q # r, Par \in active PROVE Holds(q)'
  <2>1. Below(q) \cap Below(r) = {}
    BY <1>4, RegionsDisjoint
  <2>2. active' \cap Below(q) = active \cap Below(q)
    BY <2>1
  <2> QED BY <1>4, <2>2, HoldsKept DEF PathInv, HoldsInv
<1>5. HoldsInv'
  BY <1>1, <1>4 DEF HoldsInv
<1> QED BY <1>1, <1>3, <1>5

\* What the induction needs besides the paths themselves.
KeepInv == TypeInv /\ PlaceInv /\ InsideInv /\ RouteInv /\ PathInv

\* Facts about the variables that every case uses.
LEMMA KeepFacts ==
  ASSUME KeepInv
  PROVE  /\ pc \in [Actor -> PC] /\ step \in [Actor -> Step] /\ place \in [Region -> State]
         /\ mailbox \in [Actor -> Seq(EventID)] /\ current \in State /\ active \subseteq State
         /\ regions \in {{}, Region}
         /\ Loop \in Actor /\ Region \subseteq Actor /\ Loop \notin Region
         /\ Par \in State /\ Region # {}
BY RegionFacts, RegionsAssumption DEF KeepInv, TypeInv, TypeOK, Actor

\* While the parallel state is active rt.current is in it.
LEMMA CurrentInside ==
  ASSUME KeepInv, Par \in active
  PROVE  Par \in Ancestors(current)
<1> USE DEF KeepInv
<1>1. ASSUME NEW r \in Region PROVE Par \in Ancestors(place[r])
  <2>1. place[r] \in State /\ r \in Ancestors(place[r])
    BY DEF PathInv, OwnInv, Below
  <2>2. Par \in Ancestors(r)
    BY RegionFacts, AncestorsUnfold, AncestorSelf
  <2> QED BY <2>1, <2>2, AncestorsTransitive
<1> QED BY <1>1, KeepFacts, AncestorSelf DEF PathInv, LoopInv

\* Taking an event: where it leads.
LEMMA PathTake ==
  ASSUME RegionLocal, KeepInv, NEW a \in Actor, TakeEvent(a)
  PROVE  PathInv'
<1> USE DEF KeepInv
<1>0. PICK ok \in SUBSET Guard :
        \E t \in PickTransitionHierarchical(Position(a), Head(mailbox[a]), ok) :
          /\ step' = [step EXCEPT ![a] = [from |-> Position(a), to |-> t.target,
                                          raise |-> t.raise]]
          /\ pc' = [pc EXCEPT ![a] = Selected(a, t.target)]
  BY DEF TakeEvent
<1>1. PICK t \in PickTransitionHierarchical(Position(a), Head(mailbox[a]), ok) :
          /\ step' = [step EXCEPT ![a] = [from |-> Position(a), to |-> t.target,
                                          raise |-> t.raise]]
          /\ pc' = [pc EXCEPT ![a] = Selected(a, t.target)]
  BY <1>0
<1>2. /\ pc[a] = "idle" /\ mailbox[a] # <<>>
      /\ UNCHANGED <<life, regions, current, place, active>>
  BY DEF TakeEvent, control
<1>3. /\ pc'[a] = Selected(a, t.target)
      /\ step'[a].from = Position(a) /\ step'[a].to = t.target
      /\ \A b \in Actor \ {a} : pc'[b] = pc[b] /\ step'[b] = step[b]
  BY <1>1, KeepFacts
<1>4. BeforeInv'
  BY <1>2 DEF PathInv, BeforeInv
<1>5. CASE a = Loop
  <2>1. \A r \in Region : Rests(r)
    BY <1>3, <1>5, KeepFacts DEF Rests
  <2>2. t.target # NoState => Par \notin Ancestors(t.target)
    <3>1. Head(mailbox[a]) \in RootEvent
      BY <1>5, LoopHears
    <3>2. Position(a) \in State
      BY <1>5, KeepFacts DEF Position
    <3> QED BY <3>1, <3>2, RootSelects
  <2>3. /\ pc'[Loop] = IF t.target = NoState THEN "acting" ELSE "selected"
        /\ step'[Loop].to = t.target
    BY <1>3, <1>5 DEF Selected
  <2>4. LoopInv'
    BY <1>2, <2>2, <2>3 DEF PathInv, LoopInv
  <2> QED BY <1>2, <1>4, <2>1, <2>4, RestingKept DEF PathInv
<1>6. CASE a # Loop
  <2>1. a \in Region /\ Position(a) = place[a]
    BY <1>6 DEF Actor, Position
  <2>2. place[a] \in Below(a)
    BY <2>1 DEF PathInv, OwnInv
  <2>3. Head(mailbox[a]) \in EventID \ {DoneEvent[Par]}
    <3>1. mailbox[a] \in Seq(EventID)
      BY KeepFacts
    <3>2. 1 \in DOMAIN mailbox[a] /\ Head(mailbox[a]) = mailbox[a][1] /\ mailbox[a][1] \in EventID
      BY <1>2, <3>1
    <3> QED BY <3>2, <2>1 DEF RouteInv, RegionRule
  <2>4. t.target # NoState => t.target \in Below(a)
    BY <2>1, <2>2, <2>3, RegionMoves
  <2>5. pc'[a] = IF t.target = NoState THEN "acting" ELSE "exiting"
    BY <1>3, <1>6 DEF Selected
  <2>6. \A r \in Region : Rests(r)
    BY <1>2, <1>3, <2>1, <2>4, <2>5, KeepFacts DEF Rests, BetweenEvents
  <2>7. pc'[Loop] = pc[Loop] /\ step'[Loop] = step[Loop]
    BY <1>3, <1>6, KeepFacts
  <2>8. LoopInv'
    BY <1>2, <2>7, LoopRests
  <2> QED BY <1>2, <1>4, <2>6, <2>8, RestingKept DEF PathInv
<1> QED BY <1>5, <1>6

\* The loop's second look at rt.current, which a region may have written since.
LEMMA PathReads ==
  ASSUME KeepInv, LoopReads
  PROVE  PathInv'
<1> USE DEF KeepInv
<1>1. /\ pc[Loop] \in {"selected", "entered"}
      /\ UNCHANGED <<life, regions, current, place, active>>
      /\ pc' = [pc EXCEPT ![Loop] = IF @ = "selected" THEN "exiting" ELSE "check"]
      /\ step' = [step EXCEPT ![Loop].from = current]
  BY DEF LoopReads, control
<1>2. step'[Loop].to = step[Loop].to /\ step'[Loop].from = current
  BY <1>1, KeepFacts DEF Step
<1>3. pc'[Loop] \in {"exiting", "check"} /\ (pc'[Loop] = "exiting" => pc[Loop] = "selected")
  BY <1>1, KeepFacts
<1>4. \A r \in Region : Rests(r)
  BY <1>1, KeepFacts DEF Rests
<1>5. LoopInv'
  BY <1>1, <1>2, <1>3, CurrentInside DEF PathInv, LoopInv
<1>6. BeforeInv'
  BY <1>1 DEF PathInv, BeforeInv
<1> QED BY <1>1, <1>4, <1>5, <1>6, RestingKept DEF PathInv

\* Exiting: a region's own states, or the parallel state with everything.
LEMMA PathExit ==
  ASSUME KeepInv, NEW a \in Actor, ExitStates(a)
  PROVE  PathInv'
<1> USE DEF KeepInv
<1> DEFINE from == step[a].from
           to == step[a].to
           l == ComputeLCA(from, to)
<1>1. /\ pc[a] = "exiting" /\ pc' = [pc EXCEPT ![a] = "acting"]
      /\ active' = active \ (Ancestors(from) \ Ancestors(l))
      /\ UNCHANGED <<life, regions, current, place, step>>
  BY DEF ExitStates, ExitedStates, control
<1>2. pc'[a] = "acting" /\ \A b \in Actor \ {a} : pc'[b] = pc[b]
  BY <1>1, KeepFacts
<1>3. from \in State /\ to \in State /\ to # NoState
  BY <1>1, TreeAssumption DEF TypeInv, StepOK
<1>4. ~ (life = "new" \/ (life = "starting" /\ regions = {}))
  BY <1>1 DEF PlaceInv
<1>5. BeforeInv'
  BY <1>1, <1>4 DEF BeforeInv
<1>6. CASE a = Loop
  <2>1. Par \notin Ancestors(to)
    BY <1>1, <1>3, <1>6 DEF PathInv, LoopInv
  <2>2. Par \notin Ancestors(l)
    BY <1>3, <2>1, LCAAboveBoth
  <2>3. Par \notin active'
    BY <1>1, <1>6, <2>2 DEF PathInv, LoopInv
  <2>4. OwnInv'
    BY <1>1, <1>2, <1>6, KeepFacts DEF PathInv, OwnInv
  <2>5. LoopInv'
    BY <1>1, <1>2, <1>6, <2>1, <2>3 DEF LoopInv
  <2> QED BY <1>5, <2>3, <2>4, <2>5 DEF PathInv, OuterInv, HoldsInv
<1>7. CASE a # Loop
  <2>1. a \in Region /\ from = place[a] /\ from \in Below(a) /\ to \in Below(a)
    BY <1>1, <1>3, <1>7 DEF Actor, PathInv, OwnInv
  <2>2. /\ Ancestors(from) \ Ancestors(l) \subseteq Below(a)
        /\ Ancestors(l) \subseteq Ancestors(from)
    BY <2>1, MoveWithin
  <2> HIDE DEF l
  <2>3. OwnInv'
    BY <1>1, <1>2, <2>1, KeepFacts DEF PathInv, OwnInv
  <2>4. Par \in active => active \cap Below(a) = Ancestors(from) \cap Below(a)
    BY <1>1, <2>1 DEF PathInv, HoldsInv, Holds
  <2>5. Par \in active => active' \cap Below(a) = Ancestors(l) \cap Below(a)
    BY <1>1, <2>2, <2>4
  <2>6. Par \in active => Holds(a)'
    BY <1>1, <1>2, <1>3, <2>5 DEF Holds, l
  <2>7. OuterInv' /\ HoldsInv' /\ (Par \in active' <=> Par \in active)
    BY <1>1, <1>2, <2>1, <2>2, <2>6, KeepFacts, OneRegion
  <2>8. pc'[Loop] = pc[Loop]
    BY <1>2, <1>7, KeepFacts
  <2>9. LoopInv'
    BY <1>1, <2>7, <2>8 DEF PathInv, LoopInv
  <2> QED BY <1>5, <2>3, <2>7, <2>9 DEF PathInv
<1> QED BY <1>6, <1>7

\* Entering: a region's own states, or states outside the parallel state that
\* has been exited.
LEMMA PathEnter ==
  ASSUME KeepInv, NEW a \in Actor, EnterStates(a)
  PROVE  PathInv'
<1> USE DEF KeepInv
<1> DEFINE from == step[a].from
           to == step[a].to
           l == ComputeLCA(from, to)
<1>1. /\ pc[a] = "acting" /\ to # NoState /\ current' = to
      /\ pc' = [pc EXCEPT ![a] = IF a = Loop THEN "entered"
                                 ELSE IF to \in Final THEN "check" ELSE "idle"]
      /\ active' = active \cup (Ancestors(to) \ Ancestors(l))
      /\ place' = IF a = Loop THEN place ELSE [place EXCEPT ![a] = to]
      /\ step' = [step EXCEPT ![a] = NoStep]
      /\ UNCHANGED <<life, regions>>
  BY DEF EnterStates, Acted, PlaceAfter, control
<1>2. /\ pc'[a] = (IF a = Loop THEN "entered" ELSE IF to \in Final THEN "check" ELSE "idle")
      /\ \A b \in Actor \ {a} : pc'[b] = pc[b] /\ step'[b] = step[b]
  BY <1>1, KeepFacts
<1>3. ~ (life = "new" \/ (life = "starting" /\ regions = {}))
  BY <1>1 DEF PlaceInv
<1>4. BeforeInv'
  BY <1>1, <1>3 DEF BeforeInv
<1>5. CASE a = Loop
  <2>1. Par \notin Ancestors(to) /\ Par \notin active
    BY <1>1, <1>5 DEF PathInv, LoopInv
  <2>2. Par \notin active'
    BY <1>1, <2>1
  <2>3. OwnInv'
    BY <1>1, <1>2, <1>5, KeepFacts DEF PathInv, OwnInv
  <2>4. LoopInv'
    BY <1>2, <1>5, <2>2 DEF LoopInv
  <2> QED BY <1>4, <2>2, <2>3, <2>4 DEF PathInv, OuterInv, HoldsInv
<1>6. CASE a # Loop
  <2>1. a \in Region /\ from = place[a] /\ from \in Below(a) /\ to \in Below(a)
    BY <1>1, <1>6 DEF Actor, PathInv, OwnInv
  <2>2. /\ Ancestors(to) \ Ancestors(l) \subseteq Below(a)
        /\ Ancestors(l) \subseteq Ancestors(to)
    BY <2>1, MoveWithin
  <2> HIDE DEF l
  <2>3. place'[a] = to /\ \A q \in Region \ {a} : place'[q] = place[q]
    BY <1>1, <1>6, <2>1, KeepFacts
  <2>4. OwnInv'
    BY <1>2, <2>1, <2>3, KeepFacts DEF PathInv, OwnInv
  <2>5. Par \in active => active \cap Below(a) = Ancestors(l) \cap Below(a)
    BY <1>1, <2>1 DEF PathInv, HoldsInv, Holds, l
  <2>6. Par \in active => active' \cap Below(a) = Ancestors(to) \cap Below(a)
    BY <1>1, <2>2, <2>5
  <2>7. Par \in active => Holds(a)'
    BY <1>2, <2>3, <2>6 DEF Holds
  <2>8. OuterInv' /\ HoldsInv' /\ (Par \in active' <=> Par \in active)
    BY <1>1, <1>2, <2>1, <2>2, <2>3, <2>7, KeepFacts, OneRegion
  <2>9. pc'[Loop] = pc[Loop] /\ step'[Loop] = step[Loop]
    BY <1>2, <1>6, KeepFacts
  <2>10. \E r \in Region : current' = place'[r]
    BY <1>1, <2>1, <2>3
  <2>11. LoopInv'
    BY <2>8, <2>9, <2>10 DEF PathInv, LoopInv
  <2> QED BY <1>4, <2>4, <2>8, <2>11 DEF PathInv
<1> QED BY <1>5, <1>6

\* The beginning and the end of a region.
LEMMA PathEnds ==
  ASSUME KeepInv, NEW r \in Region, RegionEnters(r) \/ Leave(r)
  PROVE  PathInv'
<1> USE DEF KeepInv
<1> DEFINE own == Ancestors(place[r]) \cap Below(r)
<1>1. {s \in Ancestors(place[r]) : r \in Ancestors(s)} = own
  BY AncestorsInState DEF Below
<1>2. place[r] \in State /\ r \in Ancestors(place[r])
  BY DEF PathInv, OwnInv, Below
<1>3. /\ pc' = [pc EXCEPT ![r] = pc'[r]]
      /\ UNCHANGED <<life, regions, current, place, step>>
      /\ \/ /\ pc[r] = "entering" /\ pc'[r] \in {"check", "idle"} /\ active' = active \cup own
         \/ /\ pc[r] = "idle" /\ pc'[r] = "ended" /\ active' = active \ own
  <2>1. CASE RegionEnters(r)
    BY <1>1, <2>1, KeepFacts DEF RegionEnters, control
  <2>2. CASE Leave(r)
    <3>1. ExitPath(r) = own
      BY <1>1, <1>2 DEF ExitPath
    <3> QED BY <2>2, <3>1, KeepFacts DEF Leave, control
  <2> QED BY <2>1, <2>2
<1> HIDE DEF own
<1>4. own \subseteq Below(r) /\ own = Ancestors(place[r]) \cap Below(r)
  BY DEF own
<1>5. \A b \in Actor \ {r} : pc'[b] = pc[b]
  BY <1>3, KeepFacts
<1>6. ~ (life = "new" \/ (life = "starting" /\ regions = {}))
  BY <1>3, KeepFacts DEF PlaceInv
<1>7. BeforeInv'
  BY <1>3, <1>6 DEF BeforeInv
<1>8. OwnInv'
  BY <1>3, <1>5, KeepFacts DEF PathInv, OwnInv
<1>9. Par \in active => Holds(r)'
  <2> SUFFICES ASSUME Par \in active PROVE Holds(r)'
    OBVIOUS
  <2>1. Holds(r)
    BY DEF PathInv, HoldsInv
  <2>2. CASE pc[r] = "entering"
    <3>1. active \cap Below(r) = {}
      BY <2>1, <2>2 DEF Holds
    <3> QED BY <1>3, <1>4, <2>2, <3>1 DEF Holds
  <2>3. CASE pc[r] = "idle"
    <3>1. active \cap Below(r) = own
      BY <1>4, <2>1, <2>3 DEF Holds
    <3> QED BY <1>3, <1>4, <2>3, <3>1 DEF Holds
  <2> QED BY <1>3, <2>2, <2>3
<1>10. OuterInv' /\ HoldsInv' /\ (Par \in active' <=> Par \in active)
  <2>1. active \ Below(r) = active' \ Below(r)
    BY <1>3, <1>4
  <2>2. \A q \in Region \ {r} : pc'[q] = pc[q] /\ step'[q] = step[q] /\ place'[q] = place[q]
    BY <1>3, <1>5, KeepFacts
  <2> QED BY <1>9, <2>1, <2>2, OneRegion
<1>11. pc'[Loop] = pc[Loop]
  BY <1>5, KeepFacts
<1>12. LoopInv'
  BY <1>3, <1>10, <1>11 DEF PathInv, LoopInv
<1> QED BY <1>7, <1>8, <1>10, <1>12 DEF PathInv

\* Start and Stop.
LEMMA PathStarting ==
  ASSUME KeepInv, Start \/ Spawn \/ StopReturns
  PROVE  PathInv'
<1> USE DEF KeepInv
<1>1. CASE Start
  <2>1. UNCHANGED <<regions, current, place, pc, step>> /\ life' = "starting" /\ life = "new"
        /\ active' = Ancestors(Par) \ {Par}
    BY <1>1 DEF Start
  <2>2. BeforeInv'
    BY <2>1 DEF PathInv, BeforeInv
  <2> QED BY <2>1, <2>2 DEF PathInv, OwnInv, LoopInv, OuterInv, HoldsInv
<1>2. CASE Spawn
  <2>1. /\ life' = "starting" /\ regions' = Region /\ active' = active \cup {Par}
        /\ UNCHANGED <<current, place, step>>
        /\ pc'[Loop] = "off" /\ \A r \in Region : pc'[r] = "spawned"
        /\ active = Ancestors(Par) \ {Par} /\ current = Par
    BY <1>2, KeepFacts DEF Spawn, PathInv, BeforeInv
  <2>2. active' = Ancestors(Par)
    BY <2>1, KeepFacts, AncestorSelf
  <2>3. BeforeInv'
    BY <2>1, KeepFacts DEF BeforeInv
  <2>4. OuterInv' /\ HoldsInv'
    BY <2>1, <2>2, NotBelow DEF OuterInv, HoldsInv, Holds
  <2>5. OwnInv'
    BY <2>1 DEF PathInv, OwnInv
  <2>6. LoopInv'
    BY <2>1 DEF PathInv, LoopInv
  <2> QED BY <2>3, <2>4, <2>5, <2>6 DEF PathInv
<1>3. CASE StopReturns
  <2>1. /\ life \in {"running", "failed"} /\ active' = active \ ({Par} \cap {current})
        /\ UNCHANGED <<life, regions, current, place, pc, step>>
    BY <1>3 DEF StopReturns
  <2>2. active' = active \/ Par \notin active'
    BY <2>1
  <2>3. OuterInv' /\ HoldsInv' /\ LoopInv'
    BY <2>1, <2>2 DEF PathInv, OuterInv, HoldsInv, Holds, LoopInv
  <2> QED BY <2>1, <2>3 DEF PathInv, OwnInv, BeforeInv
<1> QED BY <1>1, <1>2, <1>3

\* The other steps enter and exit nothing.
LEMMA PathResting ==
  ASSUME KeepInv,
         \/ StartReturns \/ StartGivesUp \/ CleanUp \/ Cancel \/ LoopEnds \/ UNCHANGED vars
         \/ \E r \in Region : RegionStarts(r) \/ Claim(r) \/ BeginReading(r)
         \/ \E r \in Region, c \in Region :
              ReadFinal(r, c) \/ ReadLast(r, c) \/ ReadUnfinished(r, c)
         \/ \E c \in Client, e \in Event : ClientSends(c, e)
         \/ \E p \in State : DoneBegins(p)
         \/ \E o \in Sender : SenderStep(o)
         \/ \E a \in Actor : IgnoreEvent(a) \/ ActionSends(a) \/ EndInternal(a) \/ Announce(a)
  PROVE  PathInv'
<1> USE DEF KeepInv
<1> DEFINE Quiet == /\ UNCHANGED <<active, current, place>>
                    /\ \A r \in Region : Rests(r)
                    /\ \/ /\ pc'[Loop] = pc[Loop]
                          /\ step'[Loop].to = step[Loop].to
                          /\ step'[Loop].from = step[Loop].from
                       \/ pc'[Loop] \notin {"selected", "exiting", "acting"}
                    /\ \/ UNCHANGED <<life, regions>>
                       \/ life' \notin {"new", "starting"}
<1> HIDE DEF Quiet
<1>1. SUFFICES Quiet
  <2>1. ASSUME Quiet PROVE PathInv'
    <3>1. OwnInv' /\ OuterInv' /\ HoldsInv'
      BY <2>1, RestingKept DEF Quiet
    <3>2. LoopInv'
      BY <2>1, LoopRests DEF Quiet
    <3>3. BeforeInv'
      BY <2>1 DEF Quiet, PathInv, BeforeInv
    <3> QED BY <3>1, <3>2, <3>3 DEF PathInv
  <2> QED BY <2>1
<1> USE DEF Quiet
<1>2. CASE StartReturns \/ StartGivesUp \/ CleanUp \/ Cancel \/ LoopEnds \/ UNCHANGED vars
  BY <1>2, KeepFacts DEF StartReturns, StartGivesUp, CleanUp, Cancel, LoopEnds, vars, control,
     Rests
<1>3. ASSUME NEW r \in Region, RegionStarts(r) \/ Claim(r) \/ BeginReading(r) PROVE Quiet
  BY <1>3, KeepFacts DEF RegionStarts, Claim, BeginReading, control, Rests, BetweenEvents
<1>4. ASSUME NEW r \in Region, NEW c \in Region,
             ReadFinal(r, c) \/ ReadLast(r, c) \/ ReadUnfinished(r, c)
      PROVE  Quiet
  BY <1>4, KeepFacts DEF ReadFinal, ReadLast, ReadUnfinished, control, Rests, BetweenEvents
<1>5. CASE \/ \E c \in Client, e \in Event : ClientSends(c, e)
           \/ \E p \in State : DoneBegins(p)
           \/ \E o \in Sender : SenderStep(o)
  BY <1>5 DEF ClientSends, DoneBegins, SenderStep, Deliver, Skip, GiveUp, control, Rests
<1>6. ASSUME NEW a \in Actor, IgnoreEvent(a) PROVE Quiet
  BY <1>6 DEF IgnoreEvent, control, Rests
<1>7. ASSUME NEW a \in Actor, EndInternal(a) PROVE Quiet
  <2>1. /\ pc[a] = "acting" /\ step[a].to = NoState
        /\ pc' = [pc EXCEPT ![a] = IF a = Loop THEN "entered" ELSE "idle"]
        /\ step' = [step EXCEPT ![a] = NoStep]
        /\ UNCHANGED <<active, current, place, life, regions>>
    BY <1>7 DEF EndInternal, Acted, control
  <2> QED BY <2>1, KeepFacts DEF Rests, BetweenEvents
<1>8. ASSUME NEW a \in Actor, Announce(a) PROVE Quiet
  <2>1. /\ pc[a] = "check" /\ pc' = [pc EXCEPT ![a] = IF a = Loop THEN "idle" ELSE "claim"]
        /\ step' = [step EXCEPT ![a] = NoStep]
        /\ UNCHANGED <<active, current, place, life, regions>>
    BY <1>8 DEF Announce, control
  <2> QED BY <2>1, KeepFacts DEF Rests, BetweenEvents
<1>9. ASSUME NEW a \in Actor, ActionSends(a) PROVE Quiet
  <2>1. /\ UNCHANGED <<active, current, place, pc, life, regions>>
        /\ \A b \in Actor : step'[b].to = step[b].to /\ step'[b].from = step[b].from
    BY <1>9, KeepFacts DEF ActionSends, control, Step
  <2> QED BY <2>1, KeepFacts DEF Rests
<1> QED BY <1>2, <1>3, <1>4, <1>5, <1>6, <1>7, <1>8, <1>9

\* Every step keeps the paths apart.
LEMMA PathNext == RegionLocal /\ KeepInv /\ [Next]_vars => PathInv'
<1> SUFFICES ASSUME RegionLocal, KeepInv, [Next]_vars PROVE PathInv'
  OBVIOUS
<1>1. ASSUME NEW a \in Actor,
             \/ TakeEvent(a) \/ IgnoreEvent(a) \/ ExitStates(a)
             \/ ActionSends(a) \/ EnterStates(a) \/ EndInternal(a)
      PROVE  PathInv'
  BY <1>1, PathTake, PathExit, PathEnter, PathResting
<1>2. CASE \E r \in Region : RegionStarts(r) \/ RegionEnters(r) \/ Leave(r)
  BY <1>2, PathEnds, PathResting
<1>3. CASE Start \/ Starting \/ Cancel \/ StopReturns \/ LoopEnds
  BY <1>3, PathStarting, PathResting DEF Starting
<1>4. CASE \/ \E c \in Client, e \in Event : ClientSends(c, e)
           \/ \E p \in State : DoneBegins(p)
           \/ \E o \in Sender : SenderStep(o)
  BY <1>4, PathResting
<1>5. CASE \/ \E a \in Actor : Announce(a)
           \/ \E r \in Region : Claim(r) \/ BeginReading(r)
           \/ \E r \in Region, c \in Region :
                ReadFinal(r, c) \/ ReadLast(r, c) \/ ReadUnfinished(r, c)
  BY <1>5, PathResting
<1>6. CASE UNCHANGED vars
  BY <1>6, PathResting
<1> QED BY <1>1, <1>2, <1>3, <1>4, <1>5, <1>6, PathReads, NextKinds

-----------------------------------------------------------------------------
(***************************************************************************)
(* The theorems.                                                           *)
(***************************************************************************)

\* The paths stay apart on a chart with independent regions.
LEMMA KeepInvCorrect == Spec => [](RegionLocal => KeepInv)
<1> DEFINE I == TypeInv /\ PlaceInv /\ LockInv /\ InsideInv /\ RouteInv
           K == RegionLocal => PathInv
<1>1. Init => I /\ K
  BY TypeInit, DoneInit, OnceInit, RouteInit, PathInit
<1>2. I /\ [Next]_vars => I'
  BY TypeNext, PlaceNext, LockNext, InsideNext, RouteNext DEF DoneInv
<1>3. RegionLocal' => RegionLocal
  BY DEF RegionLocal, RegionOf
<1>4. I /\ K /\ [Next]_vars => K'
  BY <1>3, PathNext DEF KeepInv
<1>5. I /\ K => (RegionLocal => KeepInv)
  BY DEF KeepInv
<1> HIDE DEF I, K
<1>6. I /\ K /\ [Next]_vars => (I /\ K)'
  BY <1>2, <1>4
<1>7. Spec => [](I /\ K)
  BY <1>1, <1>6, PTL DEF Spec
<1> QED BY <1>5, <1>7, PTL

\* Each region holds exactly the path to its own state, whatever the other
\* regions, the loop and rt.current do; one that has ended holds nothing.
THEOREM RegionConfigurationCorrect == Spec => []RegionConfiguration
<1>1. (RegionLocal => KeepInv) => RegionConfiguration
  BY DEF KeepInv, PathInv, HoldsInv, Holds, BetweenEvents, RegionConfiguration
<1> QED BY <1>1, KeepInvCorrect, PTL

\* IsInState reports the states that are entered and not exited, although
\* rt.current is overwritten by whichever region moved last.
THEOREM IsInStateExactCorrect == Spec => []IsInStateExact
<1>1. (RegionLocal => KeepInv) => IsInStateExact
  <2> SUFFICES ASSUME KeepInv, Par \in active, regions = Region,
                      \A r \in Region : BetweenEvents(r), NEW s \in State
               PROVE  IsInState(s) <=> s \in active
    BY DEF IsInStateExact
  <2>1. \A r \in Region : active \cap Below(r) = Ancestors(place[r]) \cap Below(r)
    BY DEF KeepInv, PathInv, HoldsInv, Holds, BetweenEvents
  <2>2. active \ UNION {Below(r) : r \in Region} = Ancestors(Par)
    BY DEF KeepInv, PathInv, OuterInv
  <2>3. ASSUME NEW r \in Region
        PROVE  /\ Ancestors(place[r]) \subseteq Below(r) \cup Ancestors(Par)
               /\ Ancestors(Par) \subseteq Ancestors(place[r])
    <3>1. place[r] \in State /\ r \in Ancestors(place[r])
      BY DEF KeepInv, PathInv, OwnInv, Below
    <3>2. Par \in Ancestors(r)
      BY RegionFacts, AncestorsUnfold, AncestorSelf
    <3>3. Par \in Ancestors(place[r])
      BY <3>1, <3>2, AncestorsTransitive
    <3> QED BY <3>1, <3>3, RegionPath, AncestorsTransitive
  <2>4. Ancestors(Par) \subseteq active /\ \A r \in Region : Ancestors(place[r]) \subseteq active
    BY <2>1, <2>2, <2>3
  <2>5. IsInState(s) => s \in active
    BY <2>4 DEF IsInState, KeepInv, PathInv, LoopInv
  <2>6. ASSUME s \in active PROVE IsInState(s)
    <3>1. CASE s \in Ancestors(Par)
      BY <2>3, <3>1, RegionsAssumption DEF IsInState
    <3>2. CASE \E r \in Region : s \in Below(r)
      BY <2>1, <2>6, <3>2 DEF IsInState
    <3> QED BY <2>2, <2>6, <3>1, <3>2
  <2> QED BY <2>5, <2>6
<1> QED BY <1>1, KeepInvCorrect, PTL

-----------------------------------------------------------------------------
(***************************************************************************)
(* Nobody waits in a circle.                                               *)
(***************************************************************************)

\* Unless the locks have been taken in one of the two circular orders, every
\* wait without a deadline - for doneEventsMu, for a region's r.mu, behind
\* Start's cleanup - is a wait for a goroutine that can go on, or for one that
\* waits for such a goroutine.
THEOREM EveryWaitEnds == Spec => []WaitsEnd
<1>1. DoneInv => WaitsEnd
  <2> SUFFICES ASSUME DoneInv, ~LockCycle, ~CleanupCycle, NEW a \in Actor, Waits(a)
               PROVE  \E b \in WaitsFor(a) : GoesOn(b) \/ \E c \in WaitsFor(b) : GoesOn(c)
    BY DEF WaitsEnd
  <2>0. /\ Region \subseteq Actor /\ doneMu \in Region \cup {Nobody}
        /\ awaited \in Region \cup {Nobody} /\ regions \in {{}, Region}
        /\ \A r \in Region : pc[r] \in {"claimed", "reading"} <=> doneMu = r
    BY DEF DoneInv, LockInv, TypeInv, TypeOK, Actor
  <2>1. ASSUME NEW b \in Actor, AwaitsRegion(b)
        PROVE  \E c \in WaitsFor(b) : GoesOn(c)
    <3>1. awaited \in regions /\ pc[awaited] = "acting" /\ awaited \in Actor
      BY <2>0, <2>1 DEF AwaitsRegion, HoldsMu, LockCycle
    <3>2. ~Waits(awaited)
      BY <3>1 DEF Waits, AwaitsDoneMu, AwaitsRegion, CleanupCycle
    <3>3. awaited \in WaitsFor(b) /\ GoesOn(awaited)
      BY <2>1, <3>1, <3>2 DEF WaitsFor, GoesOn
    <3> QED BY <3>3
  <2>2. ASSUME NEW r \in Region, pc[r] \in {"claimed", "reading"}
        PROVE  GoesOn(r) \/ \E c \in WaitsFor(r) : GoesOn(c)
    <3>1. CASE AwaitsRegion(r)
      BY <2>0, <2>1, <3>1
    <3>2. CASE ~AwaitsRegion(r)
      BY <2>2, <3>2 DEF GoesOn, Waits, AwaitsDoneMu, AwaitsRegionMu
    <3> QED BY <3>1, <3>2
  <2>3. CASE AwaitsDoneMu(a)
    <3>1. doneMu \in Region /\ pc[doneMu] \in {"claimed", "reading"}
      BY <2>0, <2>3 DEF AwaitsDoneMu
    <3>2. doneMu \in WaitsFor(a)
      BY <2>0, <2>3, <3>1 DEF WaitsFor
    <3> QED BY <2>2, <3>1, <3>2
  <2>4. CASE AwaitsRegion(a)
    BY <2>1, <2>4
  <2>5. CASE AwaitsRegionMu(a)
    <3>1. PICK r \in Region : pc[r] = "reading"
      BY <2>5 DEF AwaitsRegionMu
    <3>2. r \in WaitsFor(a)
      BY <2>0, <2>5, <3>1 DEF WaitsFor
    <3> QED BY <2>2, <3>1, <3>2
  <2> QED BY <2>3, <2>4, <2>5 DEF Waits
<1> QED BY <1>1, DoneInvCorrect, PTL

\* The action of a goroutine sends to the root queue only when a region whose
\* Start has failed runs it, and that region's context has ended.
QueueInv ==
  /\ \A a \in Actor : Loop \in flight[a].left => a \in Region /\ life = "failed"
  /\ life = "failed" => regions = {}

\* Where only the goroutine of a region can be, and where only the loop.
RegionOnly == {"spawned", "entering", "claim", "claimed", "reading"}

LoopOnly == {"selected", "entered"}

\* Who keeps doneEventsMu to read the regions has one to read.
ReaderInv ==
  /\ \A r \in Region : /\ pc[r] = "claimed" => unread # {}
                       /\ pc[r] = "reading" => awaited \in unread
                       /\ pc[r] \notin LoopOnly
  /\ pc[Loop] \notin RegionOnly

WaitInv == DoneInv /\ RouteInv /\ QueueInv /\ ReaderInv

\* Initially nobody sends or reads.
LEMMA WaitInit == Init => QueueInv /\ ReaderInv
BY RegionFacts, RegionsAssumption DEF Init, QueueInv, ReaderInv, RegionOnly, LoopOnly, Nothing,
   Actor, Sender

\* Whoever starts to send chooses the regions, unless there are none.
LEMMA QueueNext == WaitInv /\ [Next]_vars => QueueInv'
<1> SUFFICES ASSUME WaitInv, [Next]_vars PROVE QueueInv'
  OBVIOUS
<1>0. /\ pc \in [Actor -> PC] /\ Loop \in Actor /\ Region \subseteq Actor /\ Actor \subseteq Sender
      /\ regions \in {{}, Region} /\ Loop \notin Region
      /\ flight \in [Sender -> [event : EventID \cup {NoEvent}, left : SUBSET Actor]]
  BY RegionFacts, RegionsAssumption DEF WaitInv, DoneInv, TypeInv, TypeOK, Actor, Sender
<1>r. /\ \A dest \in Routes : Loop \in dest => regions = {}
      /\ \A a \in Actor : pc[a] # "off" /\ regions = {} => life = "failed"
      /\ life = "failed" => pc[Loop] = "off"
  BY <1>0 DEF Route, Routes, WaitInv, DoneInv, PlaceInv, RouteInv, LifeRule, TypeInv, TypeOK
<1>1. ASSUME NEW a \in Actor, ActionSends(a) PROVE QueueInv'
  <2>1. PICK dest \in Routes : flight' = [flight EXCEPT ![a] = Sending(step[a].raise, dest)]
    BY <1>1 DEF ActionSends
  <2>2. pc[a] = "acting" /\ UNCHANGED <<life, regions>>
    BY <1>1 DEF ActionSends, control
  <2>3. Loop \in Sending(step[a].raise, dest).left => a \in Region /\ life = "failed"
    BY <1>0, <1>r, <2>2 DEF Sending, Actor
  <2>4. \A b \in Actor : flight'[b] = IF b = a THEN Sending(step[a].raise, dest) ELSE flight[b]
    BY <1>0, <2>1
  <2> QED BY <2>2, <2>3, <2>4 DEF WaitInv, QueueInv
<1>4. ASSUME UNCHANGED <<life, regions>>, \A b \in Actor : flight'[b].left \subseteq flight[b].left
      PROVE  QueueInv'
  BY <1>4 DEF WaitInv, QueueInv
<1>5. ASSUME NEW c \in Client, NEW e \in Event, ClientSends(c, e) PROVE QueueInv'
  <2>1. c \notin Actor /\ c \in Sender
    BY RegionsAssumption DEF Sender
  <2>2. \A b \in Actor : flight'[b] = flight[b]
    BY <1>0, <1>5, <2>1 DEF ClientSends
  <2> QED BY <1>4, <1>5, <2>2 DEF ClientSends, control
<1>6. ASSUME NEW p \in State, DoneBegins(p) PROVE QueueInv'
  <2>1. DoneEvent[p] \notin Actor
    BY RegionsAssumption
  <2>2. \A b \in Actor : flight'[b] = flight[b]
    BY <1>0, <1>6, <2>1 DEF DoneBegins
  <2> QED BY <1>4, <1>6, <2>2 DEF DoneBegins, control
<1>7. ASSUME NEW o \in Sender, SenderStep(o) PROVE QueueInv'
  <2>1. UNCHANGED <<life, regions>>
    BY <1>7 DEF SenderStep, GiveUp, Deliver, Skip, control
  <2>2. \/ flight' = [flight EXCEPT ![o].left = {}]
        \/ \E d \in Actor : flight' = [flight EXCEPT ![o].left = @ \ {d}]
    BY <1>7 DEF SenderStep, GiveUp, Deliver, Skip
  <2>3. \A b \in Actor : flight'[b].left \subseteq flight[b].left
    BY <1>0, <2>2
  <2> QED BY <1>4, <2>1, <2>3
<1>8. CASE Starting \/ Start
  <2>1. UNCHANGED flight /\ life # "failed" /\ (life' = "failed" => regions' = {})
    BY <1>8 DEF Starting, Start, Spawn, StartReturns, StartGivesUp, CleanUp
  <2> QED BY <2>1 DEF WaitInv, QueueInv
<1>9. ASSUME UNCHANGED <<life, regions, flight>> PROVE QueueInv'
  BY <1>9 DEF WaitInv, QueueInv
<1>10. ASSUME \/ Cancel \/ StopReturns \/ LoopEnds \/ LoopReads
              \/ \E r \in Region : RegionStarts(r) \/ RegionEnters(r) \/ Leave(r) \/ Claim(r)
                                     \/ BeginReading(r)
              \/ \E a \in Actor : TakeEvent(a) \/ ExitStates(a) \/ IgnoreEvent(a)
                                    \/ EnterStates(a) \/ EndInternal(a) \/ Announce(a)
              \/ \E r \in Region, c \in Region :
                   ReadFinal(r, c) \/ ReadLast(r, c) \/ ReadUnfinished(r, c)
       PROVE  QueueInv'
  BY <1>9, <1>10 DEF Cancel, StopReturns, LoopEnds, LoopReads, RegionStarts, RegionEnters, Leave,
     Claim, BeginReading, TakeEvent, ExitStates, IgnoreEvent, EnterStates, EndInternal, Announce,
     ReadFinal, ReadLast, ReadUnfinished, control
<1>11. CASE UNCHANGED vars
  BY <1>9, <1>11 DEF vars, control
<1> QED BY <1>1, <1>5, <1>6, <1>7, <1>8, <1>10, <1>11, NextKinds

\* The reader always has a region to read, and is the only one.
LEMMA ReaderNext == WaitInv /\ [Next]_vars => ReaderInv'
<1> SUFFICES ASSUME WaitInv, [Next]_vars PROVE ReaderInv'
  OBVIOUS
<1>0. /\ pc \in [Actor -> PC] /\ Loop \in Actor /\ Region \subseteq Actor
      /\ Loop \notin Region /\ Region # {}
      /\ \A r \in Region : pc[r] \in {"claimed", "reading"} <=> doneMu = r
      /\ Nobody \notin Region
  BY RegionFacts, RegionsAssumption DEF WaitInv, DoneInv, LockInv, TypeInv, TypeOK, Actor
<1>1. ASSUME UNCHANGED <<unread, awaited>>, pc'[Loop] \notin RegionOnly,
             \A r \in Region : /\ pc'[r] \in {"claimed", "reading"} => pc'[r] = pc[r]
                               /\ pc'[r] \notin LoopOnly
      PROVE  ReaderInv'
  BY <1>1 DEF WaitInv, ReaderInv
<1>2. ASSUME NEW a \in Actor,
             \/ TakeEvent(a) \/ IgnoreEvent(a) \/ ExitStates(a) \/ ActionSends(a)
             \/ EnterStates(a) \/ EndInternal(a) \/ (a = Loop /\ LoopReads)
      PROVE  ReaderInv'
  <2>1. /\ UNCHANGED <<unread, awaited>> /\ pc' = [pc EXCEPT ![a] = pc'[a]]
        /\ (pc'[a] = pc[a] \/ pc'[a] \notin RegionOnly)
        /\ a # Loop => (pc'[a] = pc[a] \/ pc'[a] \notin LoopOnly)
    BY <1>0, <1>2 DEF TakeEvent, Selected, IgnoreEvent, ExitStates, ActionSends, EnterStates,
       EndInternal, LoopReads, locks, RegionOnly, LoopOnly
  <2> QED BY <1>0, <1>1, <2>1 DEF WaitInv, ReaderInv, RegionOnly
<1>3. ASSUME NEW a \in Actor, Announce(a) PROVE ReaderInv'
  <2>1. /\ UNCHANGED <<unread, awaited>>
        /\ pc' = [pc EXCEPT ![a] = IF a = Loop THEN "idle" ELSE "claim"]
    BY <1>3 DEF Announce, locks
  <2> QED BY <1>0, <1>1, <2>1 DEF WaitInv, ReaderInv, RegionOnly, LoopOnly
<1>4. ASSUME NEW r \in Region, Claim(r) PROVE ReaderInv'
  <2>1. CASE pc' = [pc EXCEPT ![r] = "idle"] /\ UNCHANGED locks
    BY <1>0, <1>1, <2>1 DEF WaitInv, ReaderInv, RegionOnly, LoopOnly, locks
  <2>2. CASE pc' = [pc EXCEPT ![r] = "claimed"] /\ unread' = Region
    <3>1. pc[r] = "claim" /\ doneMu = Nobody
      BY <1>4 DEF Claim
    <3>2. \A q \in Region : pc'[q] # "reading"
      BY <1>0, <2>2, <3>1
    <3> QED BY <1>0, <2>2, <3>2 DEF WaitInv, ReaderInv, RegionOnly, LoopOnly
  <2> QED BY <1>4, <2>1, <2>2 DEF Claim
<1>12. ASSUME NEW r \in Region, BeginReading(r) PROVE ReaderInv'
  <2>1. /\ pc[r] = "claimed" /\ pc' = [pc EXCEPT ![r] = "reading"]
        /\ UNCHANGED unread /\ awaited' \in unread
    BY <1>12 DEF BeginReading
  <2> QED BY <1>0, <2>1 DEF WaitInv, ReaderInv, RegionOnly, LoopOnly
<1>5. ASSUME NEW r \in Region, NEW c \in Region, ReadFinal(r, c) PROVE ReaderInv'
  <2>1. pc[r] = "reading" /\ awaited' \in unread' /\ UNCHANGED pc
    BY <1>5 DEF ReadFinal
  <2> QED BY <2>1 DEF WaitInv, ReaderInv
<1>6. ASSUME NEW r \in Region, NEW c \in Region, ReadLast(r, c) \/ ReadUnfinished(r, c)
      PROVE  ReaderInv'
  <2>1. pc[r] = "reading" /\ pc' = [pc EXCEPT ![r] = "idle"]
    BY <1>6 DEF ReadLast, ReadUnfinished
  <2>2. \A q \in Region : pc'[q] \notin {"claimed", "reading"}
    BY <1>0, <2>1
  <2> QED BY <1>0, <2>1, <2>2 DEF WaitInv, ReaderInv, LoopOnly
<1>7. ASSUME NEW r \in Region, RegionStarts(r) \/ RegionEnters(r) \/ Leave(r) PROVE ReaderInv'
  <2>1. /\ UNCHANGED <<unread, awaited>> /\ pc' = [pc EXCEPT ![r] = pc'[r]]
        /\ pc'[r] \notin {"claimed", "reading"} \cup LoopOnly
    BY <1>0, <1>7 DEF RegionStarts, RegionEnters, Leave, locks, LoopOnly
  <2> QED BY <1>0, <1>1, <2>1 DEF WaitInv, ReaderInv, RegionOnly
<1>8. CASE Starting \/ LoopEnds
  <2>1. /\ UNCHANGED <<unread, awaited>> /\ pc'[Loop] \notin RegionOnly
        /\ \A r \in Region : /\ pc'[r] \in {"claimed", "reading"} => pc'[r] = pc[r]
                             /\ pc'[r] \notin LoopOnly
    BY <1>0, <1>8 DEF Starting, Spawn, StartReturns, StartGivesUp, CleanUp, LoopEnds, locks,
       WaitInv, ReaderInv, RegionOnly, LoopOnly
  <2> QED BY <1>1, <2>1
<1>9. ASSUME UNCHANGED <<unread, awaited, pc>> PROVE ReaderInv'
  BY <1>9 DEF WaitInv, ReaderInv
<1>10. ASSUME \/ Start \/ Cancel \/ StopReturns
              \/ \E c \in Client, e \in Event : ClientSends(c, e)
              \/ \E p \in State : DoneBegins(p)
              \/ \E o \in Sender : SenderStep(o)
       PROVE  ReaderInv'
  BY <1>9, <1>10 DEF Start, Cancel, StopReturns, ClientSends, DoneBegins, SenderStep, GiveUp,
     Deliver, Skip, locks
<1>11. CASE UNCHANGED vars
  BY <1>9, <1>11 DEF vars, locks
<1> QED BY <1>0, <1>2, <1>3, <1>4, <1>5, <1>6, <1>7, <1>8, <1>10, <1>11, <1>12, NextKinds

\* Who can go on: the conditions under which the steps of Goroutines can be
\* taken, which the provers cannot derive from ENABLED.
StartCan ==
  \/ life = "starting"
  \/ /\ life = "cleaning" /\ \A r \in Region : pc[r] # "reading"
     /\ \A o \in Sender : flight[o].left \cap Region = {}

RegionCan(r) ==
  \/ pc[r] \in {"spawned", "entering"}
  \/ pc[r] = "claim" /\ doneMu = Nobody
  \/ pc[r] = "claimed" /\ life # "cleaning" /\ unread # {}
  \/ pc[r] = "reading" /\ awaited \in unread /\ (awaited \in regions => ~HoldsMu(awaited))

SenderCan(o) ==
  \E d \in flight[o].left : cancelled \/ o \in Region \ regions \/ d \in Region \/ o \notin Actor

ActorCan(a) ==
  \/ pc[a] = "idle" /\ cancelled
  \/ pc[a] = "exiting" /\ (doneMu = Nobody \/ ExitedStates(step[a].from, step[a].to) = {})
  \/ pc[a] = "acting" /\ step[a].raise # NoEvent /\ life # "cleaning"
  \/ pc[a] = "acting" /\ step[a].raise = NoEvent /\ flight[a].left = {}
  \/ pc[a] = "check" /\ doneMu = Nobody

SomeoneCan ==
  \/ StartCan
  \/ pc[Loop] \in LoopOnly
  \/ \E r \in Region : RegionCan(r)
  \/ \E o \in Sender : SenderCan(o)
  \/ \E p \in State :
       dones[p] > 0 /\ flight[DoneEvent[p]].left = {} /\ (p = Par \/ life # "cleaning")
  \/ \E a \in Actor : ActorCan(a)

\* While a call of Start or SendEvent, a done event, a transition or, after a
\* cancellation, the end of a goroutine is outstanding, the condition of some
\* goroutine's next step holds, unless the locks have been taken in one of the
\* two circular orders.
THEOREM UnfinishedCanGoOn == Spec => [](Unfinished /\ ~LockCycle /\ ~CleanupCycle => SomeoneCan)
<1>1. Init => WaitInv
  BY TypeInit, DoneInit, RouteInit, WaitInit DEF WaitInv, DoneInv
<1>2. WaitInv /\ [Next]_vars => WaitInv'
  BY TypeNext, PlaceNext, LockNext, RouteNext, QueueNext, ReaderNext DEF WaitInv, DoneInv
<1>3. WaitInv => (Unfinished /\ ~LockCycle /\ ~CleanupCycle => SomeoneCan)
  <2> SUFFICES ASSUME WaitInv, Unfinished, ~LockCycle, ~CleanupCycle PROVE SomeoneCan
    OBVIOUS
  <2>0. /\ unread \subseteq Region /\ Actor = Region \cup {Loop} /\ Actor \subseteq Sender
        /\ pc \in [Actor -> PC] /\ doneMu \in Region \cup {Nobody} /\ Nobody \notin Region
        /\ flight \in [Sender -> [event : EventID \cup {NoEvent}, left : SUBSET Actor]]
        /\ \A r \in Region : pc[r] \in {"claimed", "reading"} <=> doneMu = r
    BY RegionFacts DEF WaitInv, DoneInv, LockInv, TypeInv, TypeOK, Actor, Sender
  <2>1. ASSUME NEW o \in Sender, flight[o].left # {} PROVE SomeoneCan
    <3>1. PICK d \in flight[o].left : TRUE
      BY <2>1
    <3>2. d \in Region \/ d = Loop
      BY <2>0
    <3>3. CASE d \in Region \/ o \notin Actor
      BY <3>3 DEF SomeoneCan, SenderCan
    <3>4. CASE d = Loop /\ o \in Actor
      <4>1. o \in Region \ regions
        BY <3>4 DEF WaitInv, QueueInv
      <4> QED BY <4>1 DEF SomeoneCan, SenderCan
    <3> QED BY <3>2, <3>3, <3>4
  <2>2. ASSUME NEW r \in Region, pc[r] = "reading" PROVE SomeoneCan
    <3>1. awaited \in unread /\ awaited \in Region
      BY <2>0, <2>2 DEF WaitInv, ReaderInv
    <3>2. CASE awaited \in regions => ~HoldsMu(awaited)
      BY <2>2, <3>1, <3>2 DEF SomeoneCan, RegionCan
    <3>3. CASE awaited \in regions /\ HoldsMu(awaited)
      <4>1. pc[awaited] = "acting"
        BY <3>3 DEF LockCycle, HoldsMu
      <4>2. step[awaited].raise = NoEvent \/ life # "cleaning"
        BY <2>2, <3>3, <4>1 DEF CleanupCycle, AwaitsRegionMu
      <4>3. awaited \in Actor /\ awaited \in Sender
        BY <2>0, <3>1
      <4> QED BY <2>1, <4>1, <4>2, <4>3 DEF SomeoneCan, ActorCan
    <3> QED BY <3>2, <3>3
  <2>3. ASSUME life \in {"starting", "cleaning"} PROVE SomeoneCan
    BY <2>1, <2>2, <2>3 DEF SomeoneCan, StartCan
  <2>4. ASSUME doneMu # Nobody PROVE SomeoneCan
    <3>1. doneMu \in Region /\ pc[doneMu] \in {"claimed", "reading"}
      BY <2>0, <2>4
    <3>2. CASE pc[doneMu] = "claimed"
      <4>1. unread # {}
        BY <3>1, <3>2 DEF WaitInv, ReaderInv
      <4> QED BY <2>3, <3>1, <3>2, <4>1 DEF SomeoneCan, RegionCan
    <3> QED BY <2>2, <3>1, <3>2
  <2>5. ASSUME NEW a \in Actor, pc[a] = "acting" PROVE SomeoneCan
    BY <2>0, <2>1, <2>3, <2>5 DEF SomeoneCan, ActorCan
  <2>6. ASSUME NEW a \in Actor, pc[a] \in {"exiting", "check"} PROVE SomeoneCan
    BY <2>4, <2>6 DEF SomeoneCan, ActorCan
  <2>7. ASSUME NEW r \in Region, pc[r] \in RegionOnly PROVE SomeoneCan
    <3>1. CASE pc[r] \in {"claimed", "reading"}
      BY <2>0, <2>4, <3>1
    <3>2. CASE pc[r] = "claim"
      BY <2>4, <3>2 DEF SomeoneCan, RegionCan
    <3> QED BY <2>7, <3>1, <3>2 DEF SomeoneCan, RegionCan, RegionOnly
  <2>8. ASSUME NEW a \in Actor, pc[a] \notin {"off", "idle", "ended"} PROVE SomeoneCan
    <3>1. a = Loop => pc[a] \notin RegionOnly
      BY DEF WaitInv, ReaderInv
    <3>2. a # Loop => a \in Region /\ pc[a] \notin LoopOnly
      BY <2>0 DEF WaitInv, ReaderInv
    <3>3. pc[a] \in LoopOnly => SomeoneCan
      BY <3>2 DEF SomeoneCan
    <3>4. pc[a] \in RegionOnly => SomeoneCan
      BY <2>7, <3>1, <3>2
    <3>5. pc[a] \in {"exiting", "check", "acting"} \cup RegionOnly \cup LoopOnly
      <4>1. pc[a] \in PC
        BY <2>0
      <4> QED BY <2>8, <4>1 DEF PC, RegionOnly, LoopOnly
    <3> QED BY <2>5, <2>6, <3>3, <3>4, <3>5
  <2>9. ASSUME NEW a \in Actor, cancelled, pc[a] = "idle" PROVE SomeoneCan
    BY <2>9 DEF SomeoneCan, ActorCan
  <2>10. ASSUME NEW p \in State, dones[p] > 0 PROVE SomeoneCan
    <3>1. DoneEvent[p] \in Sender
      BY DEF Sender
    <3> QED BY <2>1, <2>3, <2>10, <3>1 DEF SomeoneCan
  <2> QED BY <2>1, <2>3, <2>8, <2>9, <2>10 DEF Unfinished
<1> QED BY <1>1, <1>2, <1>3, PTL DEF Spec

-----------------------------------------------------------------------------
(***************************************************************************)
(* The goroutines implement the parallel state of module ParallelState.    *)
(***************************************************************************)

\* The regions have not been spawned.
Before == life = "new" \/ (life = "starting" /\ regions = {})

\* A state of the region's path takes a transition to `to', and no state
\* inside it has one that it must take.
Allowed(r, to) ==
  \E s \in Ancestors(place[r]) : \E e \in EventID : \E i \in Promise!Possible(s, e) :
    /\ r \in Ancestors(s) /\ Transitions[s][i].target = to
    /\ \A d \in Ancestors(place[r]) : s \in Ancestors(d) \ {d} => Promise!Sure(d, e) = {}

TakenInv == \A r \in Region : pc[r] = "exiting" => Allowed(r, step[r].to)

\* The done event of the parallel state is on its way to the loop, or the loop
\* has taken a transition.
Told ==
  \/ dones[Par] # 0 \/ pc[Loop] \in {"selected", "exiting"}
  \/ \E o \in Sender : flight[o].left # {} /\ flight[o].event = DoneEvent[Par]
  \/ \E i \in DOMAIN mailbox[Loop] : mailbox[Loop][i] = DoneEvent[Par]

\* The parallel state is left only after its completion was announced, and is
\* entered in its initial states.
StayInv ==
  /\ Before => doneCount = 0 /\ \A r \in Region : place[r] = FindDeepestInitial(r)
  /\ (Before \/ Par \in active) /\ Told => doneCount > 0

\* Initially.
LEMMA StayInit == Init => TakenInv /\ StayInv
BY RegionFacts DEF Init, TakenInv, StayInv, Told, Before, Nothing, Actor

\* A step after which the done event is no more on its way than before.
LEMMA ToldKept ==
  ASSUME dones'[Par] # 0 => Told, pc'[Loop] \in {"selected", "exiting"} => Told,
         \A o \in Sender : flight'[o].left # {} /\ flight'[o].event = DoneEvent[Par] => Told,
         \A i \in DOMAIN mailbox'[Loop] : mailbox'[Loop][i] = DoneEvent[Par] => Told
  PROVE  Told' => Told
BY DEF Told

\* While the parallel state is active the loop takes a transition with a
\* target only for its done event.
LEMMA LoopTakesDone ==
  ASSUME RegionLocal, KeepInv, Par \in active, TakeEvent(Loop), pc'[Loop] = "selected"
  PROVE  Told
<1> USE DEF KeepInv
<1>1. PICK ok \in SUBSET Guard :
        \E t \in PickTransitionHierarchical(current, Head(mailbox[Loop]), ok) :
          pc' = [pc EXCEPT ![Loop] = Selected(Loop, t.target)]
  BY DEF TakeEvent, Position
<1>2. PICK t \in PickTransitionHierarchical(current, Head(mailbox[Loop]), ok) :
          pc' = [pc EXCEPT ![Loop] = Selected(Loop, t.target)]
  BY <1>1
<1> DEFINE e == Head(mailbox[Loop])
<1>3. t.target # NoState
  BY <1>2, KeepFacts DEF Selected
<1>4. pc[Loop] = "idle" /\ mailbox[Loop] # <<>>
  BY DEF TakeEvent
<1>5. 1 \in DOMAIN mailbox[Loop] /\ e = mailbox[Loop][1]
  BY <1>4, KeepFacts
<1>6. e \in RootEvent /\ e \in EventID
  <2>1. mailbox[Loop][1] \in EventID
    BY <1>5, KeepFacts
  <2> QED BY <2>1, <1>5, LoopHears
<1>7. current \in State /\ t \in PickTransitionHierarchical(current, e, ok)
  BY KeepFacts
<1> HIDE DEF e
<1>8. PICK h \in Ancestors(current), i \in Nat :
        /\ i \in DOMAIN Transitions[h] /\ h \in State /\ t = Transitions[h][i]
        /\ t.event = e \/ t.event = AnyEvent
  <2>1. \A h \in State : DOMAIN Transitions[h] \subseteq Nat
    BY EventAssumption
  <2> QED BY <1>6, <1>7, <2>1, SelectedByHandler
<1>9. RegionOf(h) = {}
  BY <1>6, <1>8 DEF RegionLocal, RootEvent
<1>10. h \in Ancestors(Par)
  <2>1. CASE current = Par
    BY <1>8, <2>1
  <2>2. CASE \E r \in Region : current \in Below(r)
    <3>1. PICK r \in Region : current \in Below(r)
      BY <2>2
    <3>2. r \in Ancestors(current) /\ current \in State
      BY <3>1 DEF Below
    <3>3. h \in Below(r) \/ h \in Ancestors(Par)
      BY <1>8, <3>2, RegionPath
    <3> QED BY <1>9, <3>3 DEF RegionOf, Below
  <2> QED BY <2>1, <2>2 DEF PathInv, LoopInv, OwnInv
<1>11. t.event = DoneEvent[Par]
  BY <1>3, <1>8, <1>10 DEF RegionLocal
<1>12. e = DoneEvent[Par]
  BY <1>8, <1>11, EventAssumption, RegionFacts DEF EventID
<1> QED BY <1>5, <1>12 DEF Told

\* A region takes what its path offers.
LEMMA RegionTakes ==
  ASSUME RegionLocal, KeepInv, NEW r \in Region, TakeEvent(r), pc'[r] = "exiting"
  PROVE  Allowed(r, step'[r].to)
<1> USE DEF KeepInv
<1> DEFINE e == Head(mailbox[r])
<1>1. PICK ok \in SUBSET Guard :
        \E t \in PickTransitionHierarchical(place[r], e, ok) :
          /\ step' = [step EXCEPT ![r] = [from |-> place[r], to |-> t.target, raise |-> t.raise]]
          /\ pc' = [pc EXCEPT ![r] = Selected(r, t.target)]
  BY KeepFacts DEF TakeEvent, Position
<1>2. PICK t \in PickTransitionHierarchical(place[r], e, ok) :
          /\ step' = [step EXCEPT ![r] = [from |-> place[r], to |-> t.target, raise |-> t.raise]]
          /\ pc' = [pc EXCEPT ![r] = Selected(r, t.target)]
  BY <1>1
<1>3. t.target # NoState /\ step'[r].to = t.target
  BY <1>2, KeepFacts DEF Selected
<1>4. e \in EventID \ {DoneEvent[Par]}
  <2>1. mailbox[r] \in Seq(EventID) /\ mailbox[r] # <<>>
    BY KeepFacts DEF TakeEvent
  <2>2. 1 \in DOMAIN mailbox[r] /\ e = mailbox[r][1] /\ e \in EventID
    BY <2>1
  <2> QED BY <2>2 DEF RouteInv, RegionRule
<1> HIDE DEF e
<1>5. place[r] \in State /\ r \in Ancestors(place[r])
  BY DEF PathInv, OwnInv, Below
<1>6. PICK s \in Ancestors(place[r]) :
        /\ \A d \in Ancestors(place[r]) : s \in Ancestors(d) \ {d} => Promise!Sure(d, e) = {}
        /\ \E i \in Promise!Possible(s, e) : t = Transitions[s][i]
  BY <1>2, <1>5, PickedIsPromised
<1>7. PICK i \in Promise!Possible(s, e) : t = Transitions[s][i]
  BY <1>6
<1>8. s \in State /\ i \in DOMAIN Transitions[s] /\ (t.event = e \/ t.event = AnyEvent)
  BY <1>7, AncestorsInState DEF Promise!Possible, Promise!Answers
<1>9. s \notin Ancestors(Par)
  <2>1. s \in Ancestors(Par) => t.target = NoState \/ t.event = DoneEvent[Par]
    BY <1>7, <1>8 DEF RegionLocal
  <2>2. t.event # DoneEvent[Par]
    BY <1>4, <1>8, EventAssumption, RegionFacts DEF EventID
  <2> QED BY <1>3, <2>1, <2>2
<1>10. r \in Ancestors(s)
  BY <1>5, <1>9, RegionPath DEF Below
<1> QED BY <1>3, <1>4, <1>6, <1>7, <1>10 DEF Allowed

\* Who sends a client's event does not send the done event.
LEMMA SentKept ==
  ASSUME flight \in [Sender -> [event : EventID \cup {NoEvent}, left : SUBSET Actor]],
         NEW o \in Sender, NEW e \in Event \cup {NoEvent}, NEW dest,
         flight' = [flight EXCEPT ![o] = Sending(e, dest)]
  PROVE  \A q \in Sender : flight'[q].left # {} /\ flight'[q].event = DoneEvent[Par] => Told
<1>1. \A q \in Sender : flight'[q] = IF q = o THEN Sending(e, dest) ELSE flight[q]
  OBVIOUS
<1>2. Sending(e, dest).event = e /\ e # DoneEvent[Par]
  BY EventAssumption, RegionFacts DEF Sending, EventID
<1> QED BY <1>1, <1>2 DEF Told

\* What every step but the last reading does to the stay in the parallel state.
Stays ==
  /\ Before' => Before /\ UNCHANGED place
  /\ Par \in active' => Before \/ Par \in active
  /\ UNCHANGED doneCount \/ (Par \notin active' /\ ~Before')
  /\ Told' /\ (Before \/ Par \in active) => Told

\* Such a step keeps what StayInv says.
LEMMA StaysKept == StayInv /\ Stays => StayInv'
BY DEF StayInv, Stays

\* The steps of a transition.
LEMMA TransitionStays ==
  ASSUME RegionLocal, KeepInv, NEW a \in Actor,
         \/ TakeEvent(a) \/ IgnoreEvent(a) \/ ExitStates(a)
         \/ ActionSends(a) \/ EnterStates(a) \/ EndInternal(a)
  PROVE  Stays
<1> USE DEF KeepInv
<1>0. /\ flight \in [Sender -> [event : EventID \cup {NoEvent}, left : SUBSET Actor]]
      /\ a \in Sender
  BY DEF TypeInv, TypeOK, Sender
<1>1. pc[a] # "off" /\ UNCHANGED <<life, regions>>
  BY DEF TakeEvent, IgnoreEvent, ExitStates, ActionSends, EnterStates, EndInternal, Acted, control
<1>2. ~Before /\ ~Before'
  BY <1>1 DEF PlaceInv, Before
<1>3. ASSUME UNCHANGED <<active, doneCount>>, Par \in active /\ Told' => Told PROVE Stays
  BY <1>2, <1>3 DEF Stays
<1>4. CASE TakeEvent(a)
  <2>1. /\ UNCHANGED <<active, doneCount, dones, flight>>
        /\ mailbox[a] # <<>> /\ mailbox' = [mailbox EXCEPT ![a] = Tail(@)]
    BY <1>4 DEF TakeEvent, announced
  <2> SUFFICES ASSUME Par \in active PROVE Told' => Told
    BY <1>3, <2>1
  <2>2. pc'[Loop] \in {"selected", "exiting"} => Told
    <3>1. CASE a = Loop
      <4>1. pc'[Loop] # "exiting"
        BY <1>4, <3>1, KeepFacts DEF TakeEvent, Selected
      <4> QED BY <1>4, <3>1, <4>1, LoopTakesDone
    <3>2. CASE a # Loop
      <4>1. pc'[Loop] = pc[Loop]
        BY <1>4, <3>2, KeepFacts DEF TakeEvent
      <4> QED BY <4>1 DEF Told
    <3> QED BY <3>1, <3>2
  <2>3. \A i \in DOMAIN mailbox'[Loop] : mailbox'[Loop][i] = DoneEvent[Par] => Told
    BY <2>1, KeepFacts, TailKept DEF Told
  <2> QED BY <2>1, <2>2, <2>3, ToldKept DEF Told
<1>5. CASE IgnoreEvent(a)
  <2>1. /\ UNCHANGED <<active, doneCount, dones, pc, flight>>
        /\ mailbox[a] # <<>> /\ mailbox' = [mailbox EXCEPT ![a] = Tail(@)]
    BY <1>5 DEF IgnoreEvent, announced
  <2>2. \A i \in DOMAIN mailbox'[Loop] : mailbox'[Loop][i] = DoneEvent[Par] => Told
    BY <2>1, KeepFacts, TailKept DEF Told
  <2>3. Told' => Told
    BY <2>1, <2>2, ToldKept DEF Told
  <2> QED BY <1>3, <2>1, <2>3
<1>6. CASE ExitStates(a)
  <2>1. /\ UNCHANGED <<dones, mailbox, flight>>
        /\ pc' = [pc EXCEPT ![a] = "acting"]
        /\ active' = active \ ExitedStates(step[a].from, step[a].to)
        /\ doneCount' = IF Par \in ExitedStates(step[a].from, step[a].to) THEN 0 ELSE doneCount
    BY <1>6 DEF ExitStates
  <2>2. pc'[Loop] \in {"selected", "exiting"} => pc[Loop] \in {"selected", "exiting"}
    BY <2>1, KeepFacts
  <2>3. Told' => Told
    BY <2>1, <2>2, ToldKept DEF Told
  <2> QED BY <1>2, <2>1, <2>3 DEF Stays
<1>9. CASE ActionSends(a)
  <2>1. UNCHANGED <<active, doneCount, dones, mailbox, pc>>
    BY <1>9 DEF ActionSends, announced
  <2>2. PICK dest \in Routes : flight' = [flight EXCEPT ![a] = Sending(step[a].raise, dest)]
    BY <1>9 DEF ActionSends
  <2>3. step[a].raise \in Event \cup {NoEvent}
    BY KeepFacts DEF Step
  <2>4. \A o \in Sender : flight'[o].left # {} /\ flight'[o].event = DoneEvent[Par] => Told
    BY <1>0, <2>2, <2>3, SentKept
  <2>5. Told' => Told
    BY <2>1, <2>4, ToldKept DEF Told
  <2> QED BY <1>3, <2>1, <2>5
<1>7. CASE EnterStates(a)
  <2>1. /\ UNCHANGED <<doneCount, dones, mailbox, flight>>
        /\ pc[a] = "acting" /\ step[a].to # NoState
        /\ pc' = [pc EXCEPT ![a] = pc'[a]] /\ pc'[a] \notin {"selected", "exiting"}
        /\ active' = active \cup (Ancestors(step[a].to)
                                     \ Ancestors(ComputeLCA(step[a].from, step[a].to)))
    BY <1>7, KeepFacts DEF EnterStates, Acted, announced
  <2>2. Par \in active' => Par \in active
    BY <2>1, ParNotEntered
  <2>3. pc'[Loop] \in {"selected", "exiting"} => pc[Loop] \in {"selected", "exiting"}
    BY <2>1, KeepFacts
  <2>4. Told' => Told
    BY <2>1, <2>3, ToldKept DEF Told
  <2> QED BY <1>2, <2>1, <2>2, <2>4 DEF Stays
<1>8. CASE EndInternal(a)
  <2>1. /\ UNCHANGED <<active, doneCount, dones, mailbox, flight>>
        /\ pc' = [pc EXCEPT ![a] = pc'[a]] /\ pc'[a] \notin {"selected", "exiting"}
    BY <1>8, KeepFacts DEF EndInternal, Acted, announced
  <2>2. pc'[Loop] \in {"selected", "exiting"} => pc[Loop] \in {"selected", "exiting"}
    BY <2>1, KeepFacts
  <2>3. Told' => Told
    BY <2>1, <2>2, ToldKept DEF Told
  <2> QED BY <1>3, <2>1, <2>3
<1> QED BY <1>4, <1>5, <1>6, <1>7, <1>8, <1>9

\* The loop's second look at rt.current.
LEMMA ReadsStays ==
  ASSUME KeepInv, LoopReads
  PROVE  Stays
<1> USE DEF KeepInv
<1>1. /\ UNCHANGED <<life, regions, active, place, doneCount, dones, mailbox, flight>>
      /\ pc'[Loop] \in {"selected", "exiting"} => pc[Loop] \in {"selected", "exiting"}
  BY KeepFacts DEF LoopReads, control, announced
<1>2. Told' => Told
  BY <1>1, ToldKept DEF Told
<1> QED BY <1>1, <1>2 DEF Stays, Before

\* Who sends, and who delivers.
LEMMA SendingStays ==
  ASSUME KeepInv,
         \/ \E c \in Client, e \in Event : ClientSends(c, e)
         \/ \E p \in State : DoneBegins(p)
         \/ \E o \in Sender : SenderStep(o)
  PROVE  Stays
<1> USE DEF KeepInv
<1>0. flight \in [Sender -> [event : EventID \cup {NoEvent}, left : SUBSET Actor]]
  BY DEF TypeInv, TypeOK
<1>1. UNCHANGED <<life, regions, active, place, pc, doneCount>>
  BY DEF ClientSends, DoneBegins, SenderStep, Deliver, Skip, GiveUp, control, announced
<1>2. SUFFICES Told' => Told
  BY <1>1 DEF Stays, Before
<1>3. ASSUME NEW c \in Client, NEW e \in Event, ClientSends(c, e) PROVE Told' => Told
  <2>1. UNCHANGED <<dones, mailbox>> /\ c \in Sender
    BY <1>3 DEF ClientSends, announced, Sender
  <2>2. PICK dest : flight' = [flight EXCEPT ![c] = Sending(e, dest)]
    BY <1>3 DEF ClientSends
  <2>3. \A o \in Sender : flight'[o].left # {} /\ flight'[o].event = DoneEvent[Par] => Told
    BY <1>0, <2>1, <2>2, SentKept
  <2> QED BY <1>1, <2>1, <2>3, ToldKept DEF Told
<1>4. ASSUME NEW p \in State, DoneBegins(p) PROVE Told' => Told
  <2>1. PICK dest : /\ dones[p] > 0 /\ dones' = [dones EXCEPT ![p] = @ - 1]
                    /\ UNCHANGED mailbox
                    /\ flight' = [flight EXCEPT ![DoneEvent[p]] = Sending(DoneEvent[p], dest)]
    BY <1>4 DEF DoneBegins
  <2>2. dones \in [State -> Nat] /\ DoneEvent[p] \in Sender
    BY DEF TypeInv, TypeOK, Sender
  <2>3. dones'[Par] # 0 => dones[Par] # 0
    BY <2>1, <2>2, KeepFacts
  <2>4. p = Par => Told
    BY <2>1 DEF Told
  <2>5. \A o \in Sender : flight'[o].left # {} /\ flight'[o].event = DoneEvent[Par] => Told
    <3>1. \A o \in Sender : o # DoneEvent[p] => flight'[o] = flight[o]
      BY <1>0, <2>1, <2>2
    <3>2. flight'[DoneEvent[p]].event = DoneEvent[p]
      BY <1>0, <2>1, <2>2 DEF Sending
    <3>3. p # Par => DoneEvent[p] # DoneEvent[Par]
      BY EventAssumption, KeepFacts
    <3> QED BY <2>4, <3>1, <3>2, <3>3 DEF Told
  <2> QED BY <1>1, <2>1, <2>3, <2>5, ToldKept DEF Told
<1>5. ASSUME NEW o \in Sender, NEW d \in Actor, Deliver(o, d) PROVE Told' => Told
  <2>1. /\ d \in flight[o].left /\ UNCHANGED dones
        /\ mailbox' = [mailbox EXCEPT ![d] = Append(@, flight[o].event)]
        /\ flight' = [flight EXCEPT ![o].left = @ \ {d}]
    BY <1>5 DEF Deliver, announced
  <2>2. \A q \in Sender : flight'[q].event = flight[q].event /\ flight'[q].left \subseteq flight[q].left
    BY <1>0, <2>1
  <2>3. \A i \in DOMAIN mailbox'[Loop] : mailbox'[Loop][i] = DoneEvent[Par] => Told
    <3>1. CASE d # Loop
      <4>1. mailbox'[Loop] = mailbox[Loop]
        BY <2>1, <3>1, KeepFacts
      <4> QED BY <4>1 DEF Told
    <3>2. CASE d = Loop
      <4>1. mailbox[Loop] \in Seq(EventID) /\ mailbox'[Loop] = Append(mailbox[Loop], flight[o].event)
        BY <2>1, <3>2, KeepFacts
      <4>2. flight[o].event \in EventID
        BY <2>1 DEF TypeInv, FlightOK
      <4>3. \A i \in DOMAIN mailbox'[Loop] :
              \/ i \in DOMAIN mailbox[Loop] /\ mailbox'[Loop][i] = mailbox[Loop][i]
              \/ mailbox'[Loop][i] = flight[o].event
        BY <4>1, <4>2
      <4>4. flight[o].event = DoneEvent[Par] => Told
        BY <2>1 DEF Told
      <4> QED BY <4>3, <4>4 DEF Told
    <3> QED BY <3>1, <3>2
  <2> QED BY <1>1, <2>1, <2>2, <2>3, ToldKept DEF Told
<1>6. ASSUME NEW o \in Sender, GiveUp(o) \/ \E d \in Actor : Skip(o, d) PROVE Told' => Told
  <2>1. UNCHANGED <<dones, mailbox>>
    BY <1>6 DEF GiveUp, Skip, announced
  <2>2. \/ flight' = [flight EXCEPT ![o].left = {}]
        \/ \E d \in Actor : flight' = [flight EXCEPT ![o].left = @ \ {d}]
    BY <1>6 DEF GiveUp, Skip
  <2>3. \A q \in Sender : flight'[q].event = flight[q].event /\ flight'[q].left \subseteq flight[q].left
    BY <1>0, <2>2
  <2> QED BY <1>1, <2>1, <2>3, ToldKept DEF Told
<1> QED BY <1>3, <1>4, <1>5, <1>6 DEF SenderStep

\* Start, Stop, and the beginning and the end of a region.
LEMMA StartingStays ==
  ASSUME KeepInv, StayInv,
         \/ Start \/ Starting \/ Cancel \/ StopReturns \/ LoopEnds
         \/ \E r \in Region : RegionStarts(r) \/ RegionEnters(r) \/ Leave(r)
  PROVE  Stays
<1> USE DEF KeepInv
<1>1. /\ UNCHANGED <<place, doneCount, dones, flight, mailbox>>
      /\ pc'[Loop] \in {"selected", "exiting"} => pc[Loop] \in {"selected", "exiting"}
  BY KeepFacts DEF Start, Starting, Spawn, StartReturns, StartGivesUp, CleanUp, Cancel, StopReturns,
     LoopEnds, RegionStarts, RegionEnters, Leave, announced
<1>2. Told' => Told
  BY <1>1, ToldKept DEF Told
<1>3. Before' => Before
  BY KeepFacts DEF Start, Starting, Spawn, StartReturns, StartGivesUp, CleanUp, Cancel, StopReturns,
     LoopEnds, RegionStarts, RegionEnters, Leave, control, Before
<1>4. Par \in active' => Before \/ Par \in active
  <2>1. ASSUME NEW r \in Region, RegionEnters(r) PROVE Par \in active' => Par \in active
    BY <2>1, KeepFacts, TreeAssumption, RegionFacts DEF RegionEnters
  <2>2. Spawn => Before
    BY DEF Spawn, Before
  <2>3. CASE Start \/ StartReturns \/ StartGivesUp \/ CleanUp \/ Cancel \/ StopReturns \/ LoopEnds
             \/ \E r \in Region : RegionStarts(r) \/ Leave(r)
    BY <2>3 DEF Start, StartReturns, StartGivesUp, CleanUp, Cancel, StopReturns, LoopEnds,
       RegionStarts, Leave
  <2> QED BY <2>1, <2>2, <2>3 DEF Starting
<1> QED BY <1>1, <1>2, <1>3, <1>4 DEF Stays

\* The steps of generateDoneEvent but the last reading.
LEMMA DoneStays ==
  ASSUME KeepInv,
         \/ \E a \in Actor : Announce(a)
         \/ \E r \in Region : Claim(r) \/ BeginReading(r)
         \/ \E r \in Region, c \in Region : ReadFinal(r, c) \/ ReadUnfinished(r, c)
  PROVE  Stays
<1> USE DEF KeepInv
<1>1. /\ UNCHANGED <<life, regions, active, place, doneCount, flight, mailbox>>
      /\ pc'[Loop] \in {"selected", "exiting"} => pc[Loop] \in {"selected", "exiting"}
  BY KeepFacts DEF Announce, Claim, BeginReading, ReadFinal, ReadUnfinished, control, announced
<1>2. dones'[Par] = dones[Par]
  <2>1. ASSUME NEW a \in Actor, Announce(a) PROVE dones'[Par] = dones[Par]
    BY <2>1, KeepFacts, CompletedNotPar DEF Announce
  <2> QED BY <2>1 DEF Claim, BeginReading, ReadFinal, ReadUnfinished, announced
<1>3. Told' => Told
  BY <1>1, <1>2, ToldKept DEF Told
<1> QED BY <1>1, <1>3 DEF Stays, Before

\* The last reading announces the completion.
LEMMA LastStays ==
  ASSUME KeepInv, StayInv, NEW r \in Region, NEW c \in Region, ReadLast(r, c)
  PROVE  StayInv'
<1> USE DEF KeepInv
<1>1. doneCount' = doneCount + 1 /\ doneCount \in Nat /\ pc[r] = "reading"
      /\ UNCHANGED <<life, regions>>
  BY DEF ReadLast, control, TypeInv, TypeOK
<1>2. ~Before'
  BY <1>1, KeepFacts DEF PlaceInv, Before
<1> QED BY <1>1, <1>2 DEF StayInv

\* Every step keeps the stay.
LEMMA StayNext == RegionLocal /\ KeepInv /\ StayInv /\ [Next]_vars => StayInv'
<1> SUFFICES ASSUME RegionLocal, KeepInv, StayInv, [Next]_vars PROVE StayInv'
  OBVIOUS
<1>1. ASSUME \/ Start \/ Starting \/ Cancel \/ StopReturns \/ LoopEnds
             \/ \E r \in Region : RegionStarts(r) \/ RegionEnters(r) \/ Leave(r)
      PROVE  StayInv'
  BY <1>1, StartingStays, StaysKept
<1>2. ASSUME \/ \E c \in Client, e \in Event : ClientSends(c, e)
             \/ \E p \in State : DoneBegins(p)
             \/ \E o \in Sender : SenderStep(o)
      PROVE  StayInv'
  BY <1>2, SendingStays, StaysKept
<1>3. ASSUME NEW a \in Actor, \/ TakeEvent(a) \/ IgnoreEvent(a) \/ ExitStates(a)
                              \/ ActionSends(a) \/ EnterStates(a) \/ EndInternal(a)
      PROVE  StayInv'
  BY <1>3, TransitionStays, StaysKept
<1>4. ASSUME \/ \E a \in Actor : Announce(a)
             \/ \E r \in Region : Claim(r) \/ BeginReading(r)
             \/ \E r \in Region, c \in Region : ReadFinal(r, c) \/ ReadUnfinished(r, c)
      PROVE  StayInv'
  BY <1>4, DoneStays, StaysKept
<1>5. ASSUME NEW r \in Region, NEW c \in Region, ReadLast(r, c) PROVE StayInv'
  BY <1>5, LastStays
<1>6. CASE LoopReads
  BY <1>6, ReadsStays, StaysKept
<1>7. CASE UNCHANGED vars
  BY <1>7 DEF vars, control, announced, StayInv, Before, Told
<1> QED BY <1>1, <1>2, <1>3, <1>4, <1>5, <1>6, <1>7, NextKinds

\* Every step keeps what the regions have taken.
LEMMA TakenNext == RegionLocal /\ KeepInv /\ TakenInv /\ [Next]_vars => TakenInv'
<1> SUFFICES ASSUME RegionLocal, KeepInv, TakenInv, [Next]_vars,
                    NEW r \in Region, pc'[r] = "exiting"
             PROVE  Allowed(r, step[r].to)'
  BY DEF TakenInv
<1>1. ASSUME pc[r] = "exiting", step'[r].to = step[r].to, place'[r] = place[r]
      PROVE  Allowed(r, step[r].to)'
  BY <1>1 DEF TakenInv, Allowed
<1>2. ASSUME NEW a \in Actor, TakeEvent(a) PROVE Allowed(r, step[r].to)'
  <2>1. UNCHANGED place
    BY <1>2 DEF TakeEvent
  <2>2. CASE a = r
    BY <1>2, <2>1, <2>2, RegionTakes DEF Allowed
  <2>3. CASE a # r
    <3>1. pc'[r] = pc[r] /\ step'[r] = step[r]
      BY <1>2, <2>3, KeepFacts DEF TakeEvent
    <3> QED BY <1>1, <2>1, <3>1
  <2> QED BY <2>2, <2>3
<1>3. ASSUME NEW a \in Actor,
             \/ IgnoreEvent(a) \/ ExitStates(a) \/ ActionSends(a)
             \/ EnterStates(a) \/ EndInternal(a) \/ (a = Loop /\ LoopReads)
      PROVE  Allowed(r, step[r].to)'
  <2>1. CASE a = r
    BY <1>3, <1>1, <2>1, KeepFacts
       DEF IgnoreEvent, ExitStates, ActionSends, EnterStates, EndInternal
  <2>2. CASE a # r
    <3>1. pc'[r] = pc[r] /\ step'[r] = step[r] /\ place'[r] = place[r]
      BY <1>3, <2>2, KeepFacts DEF IgnoreEvent, ExitStates, ActionSends, EnterStates, EndInternal,
         LoopReads, PlaceAfter
    <3> QED BY <1>1, <3>1
  <2> QED BY <2>1, <2>2
<1>4. ASSUME \/ Start \/ Starting \/ Cancel \/ StopReturns \/ LoopEnds
             \/ \E q \in Region : RegionStarts(q) \/ RegionEnters(q) \/ Leave(q)
      PROVE  Allowed(r, step[r].to)'
  BY <1>1, <1>4, KeepFacts DEF Start, Starting, Spawn, StartReturns, StartGivesUp, CleanUp,
     Cancel, StopReturns, LoopEnds, RegionStarts, RegionEnters, Leave
<1>5. ASSUME \/ \E c \in Client, e \in Event : ClientSends(c, e)
             \/ \E p \in State : DoneBegins(p)
             \/ \E o \in Sender : SenderStep(o)
      PROVE  Allowed(r, step[r].to)'
  BY <1>1, <1>5 DEF ClientSends, DoneBegins, SenderStep, Deliver, Skip, GiveUp
<1>6. ASSUME \/ \E a \in Actor : Announce(a)
             \/ \E q \in Region : Claim(q) \/ BeginReading(q)
             \/ \E q \in Region, c \in Region :
                  ReadFinal(q, c) \/ ReadLast(q, c) \/ ReadUnfinished(q, c)
      PROVE  Allowed(r, step[r].to)'
  BY <1>1, <1>6, KeepFacts DEF Announce, Claim, BeginReading, ReadFinal, ReadLast, ReadUnfinished
<1>7. CASE UNCHANGED vars
  BY <1>1, <1>7 DEF vars
<1> QED BY <1>2, <1>3, <1>4, <1>5, <1>6, <1>7, KeepFacts, NextKinds

-----------------------------------------------------------------------------
\* What every step must be.
Maps == Promised!Next \/ UNCHANGED <<Leaves, IsDone, IsEnding>>

\* A step that moves no region and leaves the parallel state as it is.
LEMMA Unseen ==
  ASSUME \A r \in Region : pc'[r] = "ended" <=> pc[r] = "ended",
         \A r \in Region : Moved(r)' = Moved(r),
         Par \in active' <=> Par \in active,
         UNCHANGED doneCount, IsEnding' <=> IsEnding
  PROVE  Maps
<1>1. \A r \in Region : IsOpen(r)' <=> IsOpen(r)
  BY DEF IsOpen
<1>2. Leaves' = Leaves
  BY <1>1 DEF Leaves
<1>3. IsDone' = IsDone /\ IsEnding' = IsEnding
  BY DEF IsDone, IsEnding
<1> QED BY <1>2, <1>3 DEF Maps

\* A step outside the parallel state.
LEMMA Outside ==
  ASSUME Par \notin active, Par \notin active', IsEnding' <=> IsEnding
  PROVE  Maps
<1>1. Leaves' = Leaves
  BY DEF Leaves, IsOpen
<1>2. IsDone' = IsDone /\ IsEnding' = IsEnding
  BY DEF IsDone, IsEnding
<1> QED BY <1>1, <1>2 DEF Maps

\* An open region is at a state.
LEMMA OpenAtState ==
  ASSUME KeepInv, Par \in active, NEW r \in Region, pc[r] \in {"idle", "exiting", "reading"}
  PROVE  /\ IsOpen(r) /\ Leaves[r] = place[r] /\ r \in Promised!Open
         /\ place[r] \in State /\ r \in Ancestors(place[r])
<1>1. IsOpen(r) /\ Moved(r) = place[r]
  BY DEF IsOpen, Moved
<1>2. Leaves[r] = place[r]
  BY <1>1 DEF Leaves
<1>3. place[r] \in State /\ r \in Ancestors(place[r])
  BY DEF KeepInv, PathInv, OwnInv, Below
<1> QED BY <1>1, <1>2, <1>3, TreeAssumption DEF Promised!Open

\* The abstract parallel state selects among the same transitions.
LEMMA PromisesTheSame ==
  ASSUME NEW s, NEW e
  PROVE  Promised!Sure(s, e) = Promise!Sure(s, e) /\ Promised!Possible(s, e) = Promise!Possible(s, e)
BY DEF Promised!Sure, Promised!Possible, Promised!Answers, Promised!TriedBefore,
   Promise!Sure, Promise!Possible, Promise!Answers, Promise!TriedBefore

\* A region that has exited has fired a transition of its innermost willing
\* state.
LEMMA RegionFires ==
  ASSUME KeepInv, TakenInv, Par \in active, NEW r \in Region, ExitStates(r)
  PROVE  Maps
<1> USE DEF KeepInv
<1> DEFINE to == step[r].to
           gone == ExitedStates(step[r].from, to)
<1>1. /\ pc[r] = "exiting" /\ pc' = [pc EXCEPT ![r] = "acting"]
      /\ active' = active \ gone /\ doneCount' = IF Par \in gone THEN 0 ELSE doneCount
      /\ UNCHANGED <<life, cancelled, place, step>>
  BY DEF ExitStates, control
<1>2. to \in State /\ to # NoState
  BY <1>1, KeepFacts, TreeAssumption DEF TypeInv, StepOK
<1>3. place[r] \in Below(r) /\ to \in Below(r) /\ step[r].from = place[r]
  BY <1>1, <1>2 DEF PathInv, OwnInv
<1>4. gone \subseteq Below(r)
  BY <1>3, MoveWithin DEF ExitedStates
<1>5. Par \notin gone
  BY <1>4, NotBelow, RegionFacts, AncestorSelf
<1> HIDE DEF gone
<1>6. FindDeepestInitial(to) = to
  <2>1. Children(to) = {}
    BY <1>1, <1>2, KeepFacts DEF PlaceInv, GoodTarget
  <2>2. to \notin Parallel
    BY <2>1, RegionsAssumption DEF Region
  <2> QED BY <1>2, <2>1, <2>2, AtomicIffNoInitial, DeepestInitialAtomic
<1>7. PICK s \in Ancestors(place[r]), e \in EventID :
        \E i \in Promise!Possible(s, e) :
          /\ r \in Ancestors(s) /\ Transitions[s][i].target = to
          /\ \A d \in Ancestors(place[r]) : s \in Ancestors(d) \ {d} => Promise!Sure(d, e) = {}
  BY <1>1 DEF TakenInv, Allowed
<1>8. PICK i \in Promise!Possible(s, e) :
          /\ r \in Ancestors(s) /\ Transitions[s][i].target = to
          /\ \A d \in Ancestors(place[r]) : s \in Ancestors(d) \ {d} => Promise!Sure(d, e) = {}
  BY <1>7
<1>9. r \in Promised!Open /\ Leaves[r] = place[r]
  BY <1>1, OpenAtState
<1>10. s \in Promised!Path(r) /\ Promised!Path(r) \subseteq Ancestors(place[r])
  BY <1>8, <1>9 DEF Promised!Path
<1>11. Promised!Responsible(r, s, e)
  BY <1>8, <1>10, PromisesTheSame DEF Promised!Responsible
<1>12. Leaves' = [Leaves EXCEPT ![r] = FindDeepestInitial(to)]
  <2>1. \A q \in Region \ {r} : pc'[q] = pc[q]
    BY <1>1, KeepFacts
  <2>2. pc'[r] = "acting" /\ Par \in active'
    BY <1>1, <1>5, KeepFacts
  <2>3. \A q \in Region \ {r} : (IsOpen(q)' <=> IsOpen(q)) /\ Moved(q)' = Moved(q)
    BY <1>1, <2>1, <2>2 DEF IsOpen, Moved
  <2>4. IsOpen(r)' /\ Moved(r)' = to
    BY <1>1, <1>2, <2>2 DEF IsOpen, Moved
  <2> HIDE DEF to
  <2> QED BY <1>6, <2>3, <2>4 DEF Leaves
<1>13. IsDone' = IsDone /\ IsEnding' = IsEnding
  BY <1>1, <1>5 DEF IsDone, IsEnding
<1>14. i \in Promised!Possible(s, e)
  BY PromisesTheSame
<1>15. Promised!Fire(r)
  BY <1>2, <1>8, <1>10, <1>11, <1>12, <1>13, <1>14 DEF Promised!Fire
<1> QED BY <1>9, <1>15 DEF Maps, Promised!Next

\* The steps of a transition.
LEMMA TransitionMaps ==
  ASSUME KeepInv, KeepInv', TakenInv, StayInv, NEW a \in Actor,
         \/ TakeEvent(a) \/ IgnoreEvent(a) \/ ExitStates(a)
         \/ ActionSends(a) \/ EnterStates(a) \/ EndInternal(a)
  PROVE  Maps
<1>1. IsEnding' <=> IsEnding
  BY DEF TakeEvent, IgnoreEvent, ExitStates, ActionSends, EnterStates, EndInternal, control,
     IsEnding
<1>2. CASE TakeEvent(a)
  <2>1. PICK t : /\ step' = [step EXCEPT ![a] = [from |-> Position(a), to |-> t.target,
                                                 raise |-> t.raise]]
                 /\ pc' = [pc EXCEPT ![a] = Selected(a, t.target)]
    BY <1>2 DEF TakeEvent
  <2>2. pc[a] = "idle" /\ UNCHANGED <<active, place, doneCount>>
    BY <1>2 DEF TakeEvent, announced
  <2>3. \A r \in Region : Moved(r)' = Moved(r)
    BY <2>1, <2>2, KeepFacts DEF Moved, Selected
  <2>4. \A r \in Region : pc'[r] = "ended" <=> pc[r] = "ended"
    BY <2>1, <2>2, KeepFacts DEF Selected
  <2> QED BY <1>1, <2>2, <2>3, <2>4, Unseen
<1>3. CASE IgnoreEvent(a)
  BY <1>1, <1>3, Unseen DEF IgnoreEvent, announced, Moved
<1>4. CASE ExitStates(a)
  <2>1. active' \subseteq active
    BY <1>4 DEF ExitStates
  <2>2. CASE Par \notin active
    BY <1>1, <2>1, <2>2, Outside
  <2>3. CASE Par \in active /\ a # Loop
    BY <1>4, <2>3, RegionFires DEF Actor
  <2>4. CASE Par \in active /\ a = Loop
    <3>1. pc[Loop] = "exiting" /\ pc'[Loop] = "acting" /\ step'[Loop] = step[Loop]
      BY <1>4, <2>4, KeepFacts DEF ExitStates
    <3>2. step[Loop].to # NoState
      BY <3>1, KeepFacts, TreeAssumption DEF KeepInv, TypeInv, StepOK
    <3>3. Par \notin active'
      BY <3>1, <3>2 DEF KeepInv, PathInv, LoopInv
    <3>4. Leaves' = Promised!Closed
      BY <3>3 DEF Leaves, IsOpen, Promised!Closed
    <3>5. IsDone /\ IsDone' = FALSE
      BY <2>4, <3>1, <3>3 DEF StayInv, Told, IsDone
    <3>6. Promised!Leave
      BY <1>1, <3>4, <3>5 DEF Promised!Leave, IsEnding
    <3> QED BY <3>6 DEF Maps, Promised!Next
  <2> QED BY <2>2, <2>3, <2>4
<1>5. CASE EnterStates(a)
  <2>1. /\ pc[a] = "acting" /\ step[a].to # NoState
        /\ pc' = [pc EXCEPT ![a] = IF a = Loop THEN "entered"
                                   ELSE IF step[a].to \in Final THEN "check" ELSE "idle"]
        /\ step' = [step EXCEPT ![a] = NoStep]
        /\ place' = PlaceAfter(a, step[a].to)
        /\ active' = active \cup (Ancestors(step[a].to)
                                     \ Ancestors(ComputeLCA(step[a].from, step[a].to)))
        /\ UNCHANGED doneCount
    BY <1>5 DEF EnterStates, Acted, announced
  <2>2. Par \in active' <=> Par \in active
    BY <2>1, ParNotEntered DEF KeepInv
  <2>3. \A r \in Region : pc'[r] = "ended" <=> pc[r] = "ended"
    BY <2>1, KeepFacts
  <2>4. \A r \in Region : Moved(r)' = Moved(r)
    <3>1. ASSUME NEW r \in Region, r # a PROVE Moved(r)' = Moved(r)
      BY <2>1, <3>1, KeepFacts DEF PlaceAfter, Moved
    <3>2. ASSUME a \in Region PROVE Moved(a)' = Moved(a)
      <4>1. pc'[a] # "acting" /\ place'[a] = step[a].to
        BY <2>1, <3>2, KeepFacts DEF PlaceAfter
      <4> QED BY <2>1, <4>1 DEF Moved
    <3> QED BY <3>1, <3>2
  <2> QED BY <1>1, <2>1, <2>2, <2>3, <2>4, Unseen
<1>6. CASE EndInternal(a)
  <2>1. /\ pc[a] = "acting" /\ step[a].to = NoState
        /\ pc' = [pc EXCEPT ![a] = IF a = Loop THEN "entered" ELSE "idle"]
        /\ step' = [step EXCEPT ![a] = NoStep]
        /\ UNCHANGED <<active, place, doneCount>>
    BY <1>6 DEF EndInternal, Acted, announced
  <2>2. \A r \in Region : Moved(r)' = Moved(r)
    BY <2>1, KeepFacts DEF Moved
  <2>3. \A r \in Region : pc'[r] = "ended" <=> pc[r] = "ended"
    BY <2>1, KeepFacts
  <2> QED BY <1>1, <2>1, <2>2, <2>3, Unseen
<1>7. CASE ActionSends(a)
  <2>1. /\ UNCHANGED <<active, place, pc, doneCount>>
        /\ \A b \in Actor : step'[b].to = step[b].to
    BY <1>7, KeepFacts DEF ActionSends, announced, Step
  <2>2. \A r \in Region : Moved(r)' = Moved(r)
    BY <2>1, KeepFacts DEF Moved
  <2> QED BY <1>1, <2>1, <2>2, Unseen
<1> QED BY <1>2, <1>3, <1>4, <1>5, <1>6, <1>7

\* When the last region has been read all open regions are in final states.
LEMMA LastMaps ==
  ASSUME KeepInv, LockInv, NEW r \in Region, NEW c \in Region, ReadLast(r, c)
  PROVE  Maps
<1>1. /\ pc[r] = "reading" /\ unread = {c} /\ ~HoldsMu(c) /\ place[c] \in Final
      /\ doneCount' = doneCount + 1 /\ pc' = [pc EXCEPT ![r] = "idle"]
      /\ UNCHANGED <<life, cancelled, active, place, step>>
  BY DEF ReadLast, control
<1>2. IsEnding' = IsEnding
  BY <1>1 DEF IsEnding
<1>3. CASE Par \notin active
  BY <1>1, <1>2, <1>3, Outside DEF IsEnding
<1>4. CASE Par \in active
  <2>1. doneMu # Nobody /\ Par \notin donePending
    BY <1>1, RegionFacts DEF LockInv
  <2>2. doneCount = 0 /\ doneCount' = 1
    BY <1>1, <2>1 DEF LockInv
  <2>3. ~IsDone /\ IsDone'
    BY <1>1, <1>4, <2>2 DEF IsDone
  <2>4. \A q \in Region : place[q] \in Final /\ Moved(q) = place[q]
    BY <1>1, <2>1 DEF LockInv, HoldsMu, Moved
  <2>5. \A q \in Promised!Open : Leaves[q] \in Final
    BY <2>4, TreeAssumption DEF Promised!Open, Leaves
  <2>6. Promised!Open # {}
    BY <1>1, <1>4, OpenAtState
  <2>7. Leaves' = Leaves
    <3>1. \A q \in Region : (pc'[q] = "ended" <=> pc[q] = "ended") /\ Moved(q)' = Moved(q)
      BY <1>1, KeepFacts DEF Moved
    <3>2. \A q \in Region : IsOpen(q)' <=> IsOpen(q)
      BY <1>1, <3>1 DEF IsOpen
    <3> QED BY <3>1, <3>2 DEF Leaves
  <2>8. IsDone' = TRUE
    BY <2>3 DEF IsDone
  <2>9. Promised!Complete
    BY <1>2, <2>3, <2>5, <2>6, <2>7, <2>8 DEF Promised!Complete
  <2> QED BY <2>9 DEF Maps, Promised!Next
<1> QED BY <1>3, <1>4

\* The regions are entered together.
LEMMA SpawnMaps ==
  ASSUME KeepInv, StayInv, Spawn
  PROVE  Maps
<1> USE DEF KeepInv
<1>1. /\ life = "starting" /\ regions = {} /\ active' = active \cup {Par}
      /\ pc' = [a \in Actor |-> IF a = Loop THEN "off" ELSE "spawned"]
      /\ UNCHANGED <<life, cancelled, place, doneCount>>
  BY DEF Spawn, announced
<1>2. active = Ancestors(Par) \ {Par}
  BY <1>1 DEF PathInv, BeforeInv
<1>3. doneCount = 0 /\ \A r \in Region : place[r] = FindDeepestInitial(r)
  BY <1>1 DEF StayInv, Before
<1>4. Par \notin active /\ Par \in active'
  BY <1>1, <1>2
<1>5. Leaves = Promised!Closed
  BY <1>4 DEF Leaves, IsOpen, Promised!Closed
<1>6. \A r \in Region : pc'[r] = "spawned"
  BY <1>1, KeepFacts
<1>7. \A r \in Region : IsOpen(r)' /\ Moved(r)' = FindDeepestInitial(r)
  BY <1>1, <1>3, <1>4, <1>6 DEF IsOpen, Moved
<1>8. Leaves' = [r \in Region |-> FindDeepestInitial(r)]
  BY <1>7 DEF Leaves
<1>9. ~IsDone /\ IsDone' = IsDone /\ IsEnding' = IsEnding
  BY <1>1, <1>3, <1>4 DEF IsDone, IsEnding
<1>10. Promised!Enter
  BY <1>5, <1>8, <1>9 DEF Promised!Enter
<1> QED BY <1>10 DEF Maps, Promised!Next

\* A step that only begins the end.
LEMMA EndMaps ==
  ASSUME UNCHANGED <<pc, step, place, active, doneCount>>, IsEnding'
  PROVE  Maps
<1>1. Leaves' = Leaves /\ IsDone' = IsDone
  BY DEF Leaves, IsOpen, Moved, IsDone
<1>2. IsEnding' = TRUE
  BY DEF IsEnding
<1>3. Promised!End
  BY <1>1, <1>2 DEF Promised!End
<1> QED BY <1>3 DEF Maps, Promised!Next

\* A region is closed only at the end of the runtime.
LEMMA LeaveMaps ==
  ASSUME KeepInv, NEW r \in Region, Leave(r)
  PROVE  Maps
<1> USE DEF KeepInv
<1>1. /\ pc[r] = "idle" /\ (cancelled \/ r \notin regions)
      /\ pc' = [pc EXCEPT ![r] = "ended"] /\ active' = active \ ExitPath(r)
      /\ UNCHANGED <<life, regions, cancelled, place, step, doneCount>>
  BY DEF Leave, control, announced
<1>2. IsEnding' = IsEnding
  BY <1>1 DEF IsEnding
<1>3. CASE Par \notin active
  BY <1>1, <1>2, <1>3, Outside
<1>4. CASE Par \in active
  <2>1. IsOpen(r) /\ Leaves[r] = place[r] /\ r \in Promised!Open /\ r \in Ancestors(place[r])
    BY <1>1, <1>4, OpenAtState
  <2>2. ExitPath(r) \subseteq Below(r)
    <3>1. Ancestors(place[r]) \subseteq State
      BY KeepFacts, AncestorsInState
    <3> QED BY <2>1, <3>1 DEF ExitPath, Below
  <2>3. Par \in active'
    BY <1>1, <1>4, <2>2, NotBelow, RegionFacts, AncestorSelf
  <2>4. IsEnding
    <3>1. CASE cancelled
      BY <3>1 DEF IsEnding
    <3>2. CASE r \notin regions
      <4>1. regions = {}
        BY <3>2, KeepFacts
      <4>2. ~Before
        BY <1>1, KeepFacts DEF PlaceInv, Before
      <4>3. life \in {"new", "starting", "failed"}
        BY <4>1 DEF TypeInv, TypeOK, RouteInv, LifeRule
      <4> QED BY <4>1, <4>2, <4>3 DEF Before, IsEnding
    <3> QED BY <1>1, <3>1, <3>2
  <2>5. \A q \in Region : (IsOpen(q)' <=> IsOpen(q) /\ q # r) /\ (q # r => Moved(q)' = Moved(q))
    <3>1. \A q \in Region : pc'[q] = IF q = r THEN "ended" ELSE pc[q]
      BY <1>1, KeepFacts
    <3> QED BY <1>1, <1>4, <2>3, <3>1 DEF IsOpen, Moved
  <2>6. Leaves' = [Leaves EXCEPT ![r] = NoState]
    BY <2>5 DEF Leaves
  <2>7. IsDone' = IsDone
    BY <1>1, <1>4, <2>3 DEF IsDone
  <2>8. Promised!Close(r)
    BY <1>2, <2>4, <2>6, <2>7 DEF Promised!Close
  <2> QED BY <2>1, <2>8 DEF Maps, Promised!Next
<1> QED BY <1>3, <1>4

\* Start, Stop, and the beginning and the end of a region.
LEMMA StartingMaps ==
  ASSUME KeepInv, StayInv,
         \/ Start \/ Starting \/ Cancel \/ StopReturns \/ LoopEnds
         \/ \E r \in Region : RegionStarts(r) \/ RegionEnters(r) \/ Leave(r)
  PROVE  Maps
<1> USE DEF KeepInv
<1>1. CASE Start
  <2>1. Par \notin active /\ Par \notin active'
    BY <1>1 DEF Start, PathInv, BeforeInv
  <2>2. IsEnding' <=> IsEnding
    BY <1>1 DEF Start, IsEnding
  <2> QED BY <2>1, <2>2, Outside
<1>2. CASE StartReturns
  <2>1. \A r \in Region : pc'[r] = pc[r]
    BY <1>2, KeepFacts DEF StartReturns
  <2>2. UNCHANGED <<step, place, active, doneCount>> /\ (IsEnding' <=> IsEnding)
    BY <1>2 DEF StartReturns, announced, IsEnding
  <2> QED BY <2>1, <2>2, Unseen DEF Moved
<1>3. CASE CleanUp \/ Cancel
  BY <1>3, EndMaps DEF CleanUp, Cancel, announced, IsEnding
<1>7. CASE StartGivesUp
  <2>1. UNCHANGED <<pc, step, place, active, doneCount>> /\ (IsEnding' <=> IsEnding)
    BY <1>7 DEF StartGivesUp, announced, IsEnding
  <2> QED BY <2>1, Unseen DEF Moved
<1>4. CASE StopReturns
  <2>1. /\ UNCHANGED <<life, cancelled, pc, step, place, doneCount>> /\ cancelled
        /\ active' = active \ ({Par} \cap {current})
    BY <1>4 DEF StopReturns, announced
  <2>2. IsEnding' = IsEnding /\ IsEnding
    BY <2>1 DEF IsEnding
  <2>3. CASE Par \in active'
    <3>1. Par \in active
      BY <2>1, <2>3
    <3> QED BY <2>1, <2>2, <2>3, <3>1, Unseen DEF Moved
  <2>4. CASE Par \notin active'
    <3>1. Leaves' = Promised!Closed
      BY <2>4 DEF Leaves, IsOpen, Promised!Closed
    <3>2. IsDone' = FALSE
      BY <2>4 DEF IsDone
    <3>3. Promised!Stop
      BY <2>2, <3>1, <3>2 DEF Promised!Stop
    <3> QED BY <3>3 DEF Maps, Promised!Next
  <2> QED BY <2>3, <2>4
<1>5. CASE LoopEnds
  <2>1. \A r \in Region : pc'[r] = pc[r]
    BY <1>5, KeepFacts DEF LoopEnds
  <2>2. UNCHANGED <<step, place, active, doneCount>> /\ (IsEnding' <=> IsEnding)
    BY <1>5 DEF LoopEnds, announced, control, IsEnding
  <2> QED BY <2>1, <2>2, Unseen DEF Moved
<1>6. ASSUME NEW r \in Region, RegionStarts(r) \/ RegionEnters(r) PROVE Maps
  <2>1. /\ pc[r] \in {"spawned", "entering"} /\ UNCHANGED <<life, cancelled, step, place, doneCount>>
        /\ pc' = [pc EXCEPT ![r] = pc'[r]] /\ pc'[r] \in {"entering", "check", "idle"}
    BY <1>6, KeepFacts DEF RegionStarts, RegionEnters, control, announced
  <2>2. Par \in active' <=> Par \in active
    BY <1>6, KeepFacts, TreeAssumption, RegionFacts DEF RegionStarts, RegionEnters
  <2>3. \A q \in Region : pc'[q] = "ended" <=> pc[q] = "ended"
    BY <2>1, KeepFacts
  <2>4. \A q \in Region : Moved(q)' = Moved(q)
    BY <2>1, KeepFacts DEF Moved
  <2>5. IsEnding' <=> IsEnding
    BY <2>1 DEF IsEnding
  <2> QED BY <2>1, <2>2, <2>3, <2>4, <2>5, Unseen
<1> QED BY <1>1, <1>2, <1>3, <1>4, <1>5, <1>6, <1>7, SpawnMaps, LeaveMaps DEF Starting

\* Sending, the loop's reading and the search for a completion move no region.
LEMMA QuietMaps ==
  ASSUME KeepInv,
         \/ LoopReads
         \/ \E c \in Client, e \in Event : ClientSends(c, e)
         \/ \E p \in State : DoneBegins(p)
         \/ \E o \in Sender : SenderStep(o)
         \/ \E a \in Actor : Announce(a)
         \/ \E r \in Region : Claim(r) \/ BeginReading(r)
         \/ \E r \in Region, c \in Region : ReadFinal(r, c) \/ ReadUnfinished(r, c)
  PROVE  Maps
<1>1. UNCHANGED <<life, cancelled, active, place, doneCount>>
  BY DEF LoopReads, ClientSends, DoneBegins, SenderStep, Deliver, Skip, GiveUp, Announce, Claim,
     BeginReading, ReadFinal, ReadUnfinished, control, announced
<1>2. \/ UNCHANGED pc
      \/ \E a \in Actor : /\ a = Loop \/ pc[a] \in {"check", "claim", "claimed", "reading"}
                          /\ pc' = [pc EXCEPT ![a] = pc'[a]]
                          /\ a = Loop \/ pc'[a] \in {"idle", "claim", "claimed", "reading"}
  BY KeepFacts DEF LoopReads, ClientSends, DoneBegins, SenderStep, Deliver, Skip, GiveUp, Announce,
     Claim, BeginReading, ReadFinal, ReadUnfinished
<1>3. \A r \in Region : /\ pc'[r] = "ended" <=> pc[r] = "ended"
                        /\ pc'[r] = "acting" <=> pc[r] = "acting"
  BY <1>2, KeepFacts
<1>6. \A r \in Region : pc[r] = "acting" => step'[r] = step[r]
  BY KeepFacts DEF LoopReads, ClientSends, DoneBegins, SenderStep, Deliver, Skip, GiveUp, Announce,
     Claim, BeginReading, ReadFinal, ReadUnfinished
<1>4. \A r \in Region : Moved(r)' = Moved(r)
  BY <1>1, <1>3, <1>6 DEF Moved
<1>5. IsEnding' <=> IsEnding
  BY <1>1 DEF IsEnding
<1> QED BY <1>1, <1>3, <1>4, <1>5, Unseen

\* Every step is one of the parallel state's.
LEMMA NextMaps ==
  ASSUME KeepInv, KeepInv', LockInv, TakenInv, StayInv, [Next]_vars
  PROVE  Maps
<1>1. CASE UNCHANGED vars
  BY <1>1 DEF vars, control, announced, Maps, Leaves, IsOpen, Moved, IsDone, IsEnding
<1>2. CASE Next
  BY <1>2, NextKinds, StartingMaps, TransitionMaps, LastMaps, QuietMaps
<1> QED BY <1>1, <1>2

\* On a chart with independent regions the goroutines, their channels, locks
\* and broken-off waits are one parallel state: a step moves one region by a
\* transition of its innermost willing state, announces a completion that is
\* true, leaves all regions after that, or ends with the runtime.
THEOREM RefinesParallelStateCorrect ==
  ASSUME RegionLocal
  PROVE  Spec => RefinesParallelState
<1> DEFINE I == KeepInv /\ LockInv /\ TakenInv /\ StayInv
<1>1. Init => I
  BY TypeInit, DoneInit, OnceInit, RouteInit, PathInit, StayInit DEF KeepInv
<1>2. I /\ [Next]_vars => I'
  BY TypeNext, PlaceNext, LockNext, InsideNext, RouteNext, PathNext, StayNext, TakenNext
     DEF DoneInv, KeepInv
<1>3. Init => Promised!Init
  BY DEF Init, Promised!Init, Promised!Closed, Leaves, IsOpen, IsDone, IsEnding
<1>4. I /\ I' /\ [Next]_vars => [Promised!Next]_(Promised!vars)
  BY NextMaps DEF Maps, Promised!vars
<1> HIDE DEF I
<1> QED BY <1>1, <1>2, <1>3, <1>4, PTL DEF Spec, RefinesParallelState, Promised!Spec

=============================================================================
