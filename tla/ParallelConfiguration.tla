----------------------- MODULE ParallelConfiguration -----------------------
(***************************************************************************)
(* What a statechart with a parallel state promises, whatever runs it: the *)
(* configuration is a path from the root to a leaf and, when that leaf is  *)
(* the parallel state, one path within each of its regions. A transition   *)
(* outside the regions replaces it all, one inside a region only the path  *)
(* of that region. Batches, ticks and macrosteps are not seen here.        *)
(*                                                                         *)
(* The chart and its walks are parameters, so that an implementation lends *)
(* its own.                                                                *)
(***************************************************************************)
EXTENDS Integers, Selection

CONSTANTS
  State, NoState, Root, Parent, EventID,
  Regions,  \* the children of the parallel state
  Ancestors(_), FindDeepestInitial(_)

VARIABLE configuration  \* the active states, none before the start

RegionOf(s) == Regions \cap Ancestors(s)

\* A leaf, with all the regions in their initial leaves if it is the parallel
\* state.
Complete(leaf) ==
  Ancestors(leaf) \cup
    UNION {Ancestors(FindDeepestInitial(r)) : r \in {q \in Regions : Parent[q] = leaf}}

Init == configuration = {}

Enter ==
  /\ configuration = {}
  /\ configuration' = Complete(FindDeepestInitial(Root))

\* Outside the regions inner states come before outer ones.
Responsible(s, e) ==
  \A d \in configuration : s \in Ancestors(d) \ {d} /\ RegionOf(d) = {} => Sure(d, e) = {}

FireOutside(s, e) ==
  \E i \in Possible(s, e) :
    LET to == Transitions[s][i].target
    IN  /\ RegionOf(s) = {} /\ Responsible(s, e)
        /\ to # NoState
        /\ configuration' = Complete(FindDeepestInitial(to))

\* Inside a region only the leaf is asked, in declaration order: an exact match
\* has no precedence over a wildcard.
Leaf(s) == \A d \in configuration : s \in Ancestors(d) => d = s

FirstPossible(s, e) ==
  {i \in DOMAIN Transitions[s] :
     Answers(Transitions[s][i], e) /\ \A j \in Sure(s, e) : i <= j}

\* The other regions stay where they are.
FireInside(s, e) ==
  \E i \in FirstPossible(s, e) : \E r \in RegionOf(s) :
    LET to == Transitions[s][i].target
    IN  /\ Leaf(s)
        /\ to # NoState
        /\ configuration' = {x \in configuration : r \notin Ancestors(x)}
                              \cup Ancestors(FindDeepestInitial(to))

\* The regions end together, and what is outside them stays.
Stop == configuration' = {x \in configuration : RegionOf(x) = {}}

Next ==
  \/ Enter \/ Stop
  \/ \E s \in configuration : \E e \in EventID \cup {NoEvent} :
       FireOutside(s, e) \/ FireInside(s, e)

Spec == Init /\ [][Next]_configuration

=============================================================================
