---------------------------- MODULE ChartProofs ----------------------------
(***************************************************************************)
(* Facts about the ancestor walk, the least common ancestor and the        *)
(* descent to an initial leaf, for every chart that satisfies Chart's      *)
(* assumptions. Ancestors is a least fixed point, so an inductive fact     *)
(* "every ancestor is in U" is proved by showing that U is closed.         *)
(***************************************************************************)
EXTENDS Chart, TLAPS, WellFoundedInduction

USE DEF IsTree, InitialsLead

\* Whatever set with s in it the Parent pointers do not leave holds the
\* ancestors of s.
LEMMA AncestorsLeast ==
  ASSUME NEW s \in State, NEW U \in SUBSET State, s \in U, ClosedUnderParent(U)
  PROVE  Ancestors(s) \subseteq U
BY DEF Ancestors, Lineage, Above

\* The walk only visits states of the chart.
LEMMA AncestorsInState == \A s : Ancestors(s) \subseteq State
BY DEF Ancestors

\* Started at a nil pointer the walk visits nothing.
LEMMA AncestorsNoState == Ancestors(NoState) = {}
BY TreeAssumption DEF Ancestors, Lineage, Above

\* The cached lineage holds what the walk visits.
LEMMA AncestorsAbove == \A s \in State : Ancestors(s) = Above(s)
BY DEF Ancestors, Lineage, Above

\* The walk begins at the state itself.
LEMMA AncestorSelf == \A s \in State : s \in Ancestors(s)
BY AncestorsAbove DEF Above

\* The walk does not leave out the parent of a state it visits.
LEMMA AncestorsClosed == \A s \in State : ClosedUnderParent(Ancestors(s))
BY AncestorsAbove, TreeAssumption DEF Above, ClosedUnderParent

\* The ancestors of an ancestor are ancestors.
LEMMA AncestorsTransitive ==
  ASSUME NEW s \in State, NEW a \in Ancestors(s)
  PROVE  Ancestors(a) \subseteq Ancestors(s)
BY AncestorsLeast, AncestorsInState, AncestorsClosed

\* The walk visits s and then what it visits from the parent of s.
LEMMA AncestorsUnfold ==
  ASSUME NEW s \in State
  PROVE  Ancestors(s) = {s} \cup Ancestors(Parent[s])
<1>1. CASE Parent[s] = NoState
  <2>1. ClosedUnderParent({s})
    BY <1>1 DEF ClosedUnderParent
  <2>2. Ancestors(s) \subseteq {s}
    BY <2>1, AncestorsLeast
  <2> QED BY <1>1, <2>2, AncestorSelf, AncestorsNoState
<1>2. CASE Parent[s] # NoState
  <2>1. Parent[s] \in State
    BY <1>2, TreeAssumption
  <2> DEFINE U == {s} \cup Ancestors(Parent[s])
  <2>2. U \in SUBSET State /\ s \in U
    BY AncestorsInState
  <2>3. ClosedUnderParent(U)
    BY <2>1, AncestorSelf, AncestorsClosed DEF ClosedUnderParent
  <2>4. Ancestors(s) \subseteq U
    BY <2>2, <2>3, AncestorsLeast
  <2>5. Parent[s] \in Ancestors(s)
    BY <1>2, AncestorSelf, AncestorsClosed DEF ClosedUnderParent
  <2>6. Ancestors(Parent[s]) \subseteq Ancestors(s)
    BY <2>5, AncestorsTransitive
  <2> QED BY <2>4, <2>6, AncestorSelf
<1> QED BY <1>1, <1>2

\* Two states above each other are one.
LEMMA AncestorsAntisymmetric ==
  ASSUME NEW s \in State, NEW a \in Ancestors(s), s \in Ancestors(a)
  PROVE  a = s
<1>1. SUFFICES ASSUME a # s PROVE FALSE
  OBVIOUS
<1>2. a \in Ancestors(Parent[s])
  BY <1>1, AncestorsUnfold
<1>3. Parent[s] \in State
  BY <1>2, AncestorsNoState, TreeAssumption
<1>4. s \in Ancestors(Parent[s])
  BY <1>2, <1>3, AncestorsTransitive
<1> QED BY <1>3, <1>4, TreeAssumption

\* On one root path every set of states has a member that lies deepest.
LEMMA InnermostExists ==
  ASSUME NEW s \in State, NEW C \in SUBSET Ancestors(s), C # {}
  PROVE  /\ Innermost(C) \in C
         /\ C \subseteq Ancestors(Innermost(C))
<1> DEFINE U == {u \in State : C \subseteq Ancestors(u)}
<1>1. SUFFICES ASSUME \A a \in C : a \notin U
               PROVE  FALSE
  BY AncestorsInState DEF Innermost
<1>2. ClosedUnderParent(U)
  <2> SUFFICES ASSUME NEW u \in U, Parent[u] # NoState
               PROVE  Parent[u] \in U
    BY DEF ClosedUnderParent
  <2>1. u \notin C
    BY <1>1
  <2>2. C \subseteq Ancestors(Parent[u])
    BY <2>1, AncestorsUnfold
  <2> QED BY <2>2, TreeAssumption
<1>3. Ancestors(s) \subseteq U
  BY <1>2, AncestorsLeast
<1> QED BY <1>1, <1>3

\* computeLCA returns a state above both ends, or nil above the root.
LEMMA LCAAboveBoth ==
  ASSUME NEW from \in State, NEW to \in State
  PROVE  /\ ComputeLCA(from, to) \in State \cup {NoState}
         /\ Ancestors(ComputeLCA(from, to)) \subseteq Ancestors(from)
         /\ Ancestors(ComputeLCA(from, to)) \subseteq Ancestors(to)
<1>1. CASE from = to
  <2>1. ComputeLCA(from, to) = Parent[from]
    BY <1>1 DEF ComputeLCA
  <2> QED BY <1>1, <2>1, AncestorsUnfold, TreeAssumption
<1>2. CASE from # to
  <2> DEFINE C == Ancestors(from) \cap Ancestors(to)
  <2>1. ComputeLCA(from, to) = Innermost(C)
    BY <1>2 DEF ComputeLCA
  <2>2. C # {}
    BY TreeAssumption
  <2>3. Innermost(C) \in C
    BY <2>2, InnermostExists
  <2> QED BY <2>1, <2>3, AncestorsTransitive, AncestorsInState
<1> QED BY <1>1, <1>2

\* computeLCA of two different states is their least common ancestor: above it
\* are all their common ancestors and nothing else. So a transition between
\* them exits and enters no state that has both below it.
THEOREM LeastCommonAncestor ==
  ASSUME NEW from \in State, NEW to \in State \ {from}
  PROVE  /\ ComputeLCA(from, to) \in Ancestors(from) \cap Ancestors(to)
         /\ Ancestors(ComputeLCA(from, to)) = Ancestors(from) \cap Ancestors(to)
<1> DEFINE C == Ancestors(from) \cap Ancestors(to)
<1>1. ComputeLCA(from, to) = Innermost(C)
  BY DEF ComputeLCA
<1>2. C # {} /\ C \in SUBSET Ancestors(from)
  BY TreeAssumption
<1>3. Innermost(C) \in C /\ C \subseteq Ancestors(Innermost(C))
  BY <1>2, InnermostExists
<1>4. Ancestors(Innermost(C)) \subseteq C
  BY <1>3, AncestorsTransitive
<1> QED BY <1>1, <1>3, <1>4

-----------------------------------------------------------------------------
\* Every set closed under initial children holds the leaf descended to.
LEMMA DeepestInitialLeast ==
  ASSUME NEW s \in State, NEW U \in SUBSET State, s \in U, ClosedUnderInitial(U)
  PROVE  /\ FindDeepestInitial(s) \in U
         /\ FindDeepestInitial(s) \in State
         /\ InitialChild(FindDeepestInitial(s)) = NoState
<1>1. PICK d \in State : <<s, d>> \in InitialLineage /\ InitialChild(d) = NoState
  BY InitialAssumption
<1>2. /\ FindDeepestInitial(s) \in State
      /\ <<s, FindDeepestInitial(s)>> \in InitialLineage
      /\ InitialChild(FindDeepestInitial(s)) = NoState
  BY <1>1 DEF FindDeepestInitial
<1> QED BY <1>2 DEF InitialLineage, InitialBelow

\* The leaf lies below the state the descent starts at.
LEMMA DeepestInitialBelow ==
  ASSUME NEW s \in State
  PROVE  /\ FindDeepestInitial(s) \in State
         /\ s \in Ancestors(FindDeepestInitial(s))
         /\ InitialChild(FindDeepestInitial(s)) = NoState
<1> DEFINE U == {u \in State : s \in Ancestors(u)}
<1>1. s \in U
  BY AncestorSelf
<1>2. ClosedUnderInitial(U)
  <2> SUFFICES ASSUME NEW u \in U, InitialChild(u) # NoState
               PROVE  InitialChild(u) \in U
    BY DEF ClosedUnderInitial
  <2>1. InitialChild(u) \in State /\ Parent[InitialChild(u)] = u
    BY InitialAssumption DEF InitialChild
  <2> QED BY <2>1, AncestorsUnfold
<1> QED BY <1>1, <1>2, DeepestInitialLeast

\* It is no pseudo-state unless the descent starts at one.
LEMMA DeepestInitialNoHistory ==
  ASSUME NEW s \in State \ HistoryState
  PROVE  FindDeepestInitial(s) \notin HistoryState
<1> DEFINE U == State \ HistoryState
<1>1. ClosedUnderInitial(U)
  BY InitialAssumption DEF ClosedUnderInitial, InitialChild
<1> QED BY <1>1, DeepestInitialLeast

\* A state without an initial child is its own leaf.
LEMMA DeepestInitialAtomic ==
  ASSUME NEW s \in State, Initial[s] = NoState
  PROVE  FindDeepestInitial(s) = s
<1>1. ClosedUnderInitial({s})
  BY DEF ClosedUnderInitial, InitialChild
<1> QED BY <1>1, DeepestInitialLeast

\* A state with a child is no pseudo-state, and conversely a state is atomic
\* when it has no initial child.
LEMMA AtomicIffNoInitial ==
  ASSUME NEW s \in State \ Parallel
  PROVE  Children(s) = {} <=> Initial[s] = NoState
BY InitialAssumption DEF Children

\* A non-empty set of natural numbers has a least element.
LEMMA LeastIndex ==
  ASSUME NEW M \in SUBSET Nat, M # {}
  PROVE  \E i \in M : \A j \in M : i <= j
<1> DEFINE R == {p \in Nat \X Nat : p[1] < p[2]}
<1>1. IsWellFoundedOn(R, Nat)
  BY NatLessThanWellFounded DEF OpToRel
<1> HIDE DEF R
<1>2. PICK i \in M : \A j \in M : ~ (<<j, i>> \in R)
  BY <1>1, WFMin
<1>3. \A j \in M : i <= j
  <2> SUFFICES ASSUME NEW j \in M PROVE ~ (j < i)
    OBVIOUS
  <2>1. j < i => <<j, i>> \in R
    BY DEF R
  <2> QED BY <1>2, <2>1
<1> QED BY <1>3

\* No transition is selected only if no state on the path has a match.
LEMMA NothingPicked ==
  ASSUME NEW s \in State, NEW e, NEW ok, PickTransitionHierarchical(s, e, ok) = {}
  PROVE  \A a \in Ancestors(s) : Matches(a, e, ok) = {}
<1> SUFFICES ASSUME Handlers(s, e, ok) # {} PROVE FALSE
  BY DEF Handlers
<1> DEFINE a == Innermost(Handlers(s, e, ok))
<1>1. a \in Handlers(s, e, ok) /\ Handlers(s, e, ok) \subseteq Ancestors(a)
  BY InnermostExists DEF Handlers
<1>2. a \in State /\ Matches(a, e, ok) # {}
  BY <1>1, AncestorsInState DEF Handlers
<1>3. Matches(a, e, ok) \subseteq Nat
  BY <1>2, EventAssumption DEF Matches, ExactMatches, WildcardMatches
<1>4. PickTransition(a, e, ok) # {}
  BY <1>2, <1>3, LeastIndex DEF PickTransition
<1> QED BY <1>1, <1>4 DEF PickTransitionHierarchical

\* A selected transition is one of the chart's, and one selected for NO_EVENT
\* is eventless: ANY_EVENT never answers to it.
LEMMA PickedTransition ==
  ASSUME NEW s \in State, NEW e, NEW ok,
         NEW t \in PickTransitionHierarchical(s, e, ok)
  PROVE  /\ t \in Transition
         /\ \E a \in State : \E i \in DOMAIN Transitions[a] :
              t = Transitions[a][i] /\ (e = NoEvent => t.event = NoEvent)
<1>1. PICK a \in Ancestors(s) : t \in PickTransition(a, e, ok)
  BY DEF PickTransitionHierarchical, Handlers
<1>2. PICK i \in Matches(a, e, ok) : t = Transitions[a][i]
  BY <1>1 DEF PickTransition
<1>3. a \in State /\ Transitions[a] \in Seq(Transition)
  BY AncestorsInState, EventAssumption
<1>4. i \in DOMAIN Transitions[a]
  BY <1>2 DEF Matches, ExactMatches, WildcardMatches
<1>5. e = NoEvent => t.event = NoEvent
  BY <1>2 DEF Matches, ExactMatches, WildcardMatches
<1>6. t \in Transition
  BY <1>2, <1>3, <1>4
<1> QED BY <1>2, <1>3, <1>4, <1>5, <1>6

-----------------------------------------------------------------------------
(***************************************************************************)
(* The abstract selection of a transition.                                 *)
(***************************************************************************)
Promise == INSTANCE Selection

\* pickTransition only passes over a transition whose guard fails.
LEMMA PickedIsPossible ==
  ASSUME NEW s \in State, NEW e, NEW ok, NEW t \in PickTransition(s, e, ok)
  PROVE  \E i \in Promise!Possible(s, e) : t = Transitions[s][i]
<1>1. PICK i \in Matches(s, e, ok) :
        t = Transitions[s][i] /\ \A j \in Matches(s, e, ok) : i <= j
  BY DEF PickTransition
<1>2. i \in DOMAIN Transitions[s] /\ Promise!Answers(Transitions[s][i], e)
  BY <1>1 DEF Matches, ExactMatches, WildcardMatches, Promise!Answers
<1>3. DOMAIN Transitions[s] \subseteq Nat
  BY EventAssumption
<1>4. ASSUME NEW j \in Promise!Sure(s, e), Promise!TriedBefore(s, e, j, i)
      PROVE  FALSE
  <2>1. j \in DOMAIN Transitions[s] /\ Passes(Transitions[s][j], ok)
    BY <1>4 DEF Promise!Sure, Passes
  <2>2. CASE Transitions[s][j].event = e
    <3>1. j \in ExactMatches(s, e, ok)
      BY <2>1, <2>2 DEF ExactMatches
    <3>2. Matches(s, e, ok) = ExactMatches(s, e, ok)
      BY <3>1 DEF Matches
    <3>3. i <= j /\ Transitions[s][i].event = e
      BY <1>1, <3>1, <3>2 DEF ExactMatches
    <3> QED BY <1>2, <1>3, <1>4, <2>1, <2>2, <3>3 DEF Promise!TriedBefore
  <2>3. CASE Transitions[s][j].event # e
    <3>1. Transitions[s][i].event # e /\ j < i
      BY <1>4, <2>3 DEF Promise!TriedBefore
    <3>2. Matches(s, e, ok) = WildcardMatches(s, e, ok)
      BY <1>1, <3>1 DEF Matches, ExactMatches
    <3>3. j \in WildcardMatches(s, e, ok)
      BY <1>4, <2>1, <2>3 DEF WildcardMatches, Promise!Sure, Promise!Answers
    <3> QED BY <1>1, <1>2, <1>3, <2>1, <3>1, <3>2, <3>3
  <2> QED BY <2>2, <2>3
<1> QED BY <1>1, <1>2, <1>4 DEF Promise!Possible

\* No state further in is sure to handle the event.
LEMMA PickedIsPromised ==
  ASSUME NEW s \in State, NEW e, NEW ok, NEW t \in PickTransitionHierarchical(s, e, ok)
  PROVE  \E a \in Ancestors(s) :
           /\ \A d \in Ancestors(s) : a \in Ancestors(d) \ {d} => Promise!Sure(d, e) = {}
           /\ \E i \in Promise!Possible(a, e) : t = Transitions[a][i]
<1>1. PICK a \in Handlers(s, e, ok) :
        Handlers(s, e, ok) \subseteq Ancestors(a) /\ t \in PickTransition(a, e, ok)
  BY DEF PickTransitionHierarchical
<1>2. a \in Ancestors(s) /\ a \in State
  BY <1>1, AncestorsInState DEF Handlers
<1>3. ASSUME NEW d \in Ancestors(s), a \in Ancestors(d) \ {d}, NEW j \in Promise!Sure(d, e)
      PROVE  FALSE
  <2>1. /\ j \in DOMAIN Transitions[d] /\ Passes(Transitions[d][j], ok)
        /\ Promise!Answers(Transitions[d][j], e)
    BY DEF Promise!Sure, Passes
  <2>2. j \in ExactMatches(d, e, ok) \/ j \in WildcardMatches(d, e, ok)
    BY <2>1 DEF Promise!Answers, ExactMatches, WildcardMatches
  <2>3. Matches(d, e, ok) # {}
    BY <2>2 DEF Matches
  <2>4. d \in Ancestors(a) /\ d \in State
    BY <1>1, <2>3, AncestorsInState DEF Handlers
  <2> QED BY <1>3, <2>4, AncestorsAntisymmetric
<1> QED BY <1>1, <1>2, <1>3, PickedIsPossible

=============================================================================
