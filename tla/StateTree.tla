----------------------------- MODULE StateTree -----------------------------
(***************************************************************************)
(* The state tree of a Machine and the walks along its pointers: the       *)
(* ancestors of a state, the least common ancestor of two, the descent to  *)
(* an initial leaf. A StateID is an abstract value.                        *)
(***************************************************************************)
EXTENDS Integers, Sequences, FiniteSets

CONSTANTS
  State,     \* the states NewMachine put in Machine.states
  NoState,   \* StateID 0: no parent, no initial child, internal target
  Root,      \* the root passed to NewMachine
  Parent,    \* State.Parent, set by buildLUT
  Initial,   \* State.Initial
  Parallel   \* the states with IsParallel

Children(s) == {c \in State : Parent[c] = s}

-----------------------------------------------------------------------------
(***************************************************************************)
(* <<s, a>> is in Lineage when a is s, its parent, ... or the root: a is   *)
(* in every set with s in it that the Parent pointers do not leave. These  *)
(* are the states `for current != nil { ...; current = current.Parent }`   *)
(* visits. Started at a nil pointer (NoState) the loop visits nothing.     *)
(***************************************************************************)
ClosedUnderParent(U) == \A x \in U : Parent[x] # NoState => Parent[x] \in U

Above(s) ==
  {a \in State : \A U \in SUBSET State : s \in U /\ ClosedUnderParent(U) => a \in U}

Lineage == UNION {{<<s, a>> : a \in Above(s)} : s \in State}

Ancestors(s) == {a \in State : <<s, a>> \in Lineage}

\* The states findDeepestInitial and enterInitialChildren visit below s.
InitialChild(s) == IF s \in Parallel THEN NoState ELSE Initial[s]

ClosedUnderInitial(U) ==
  \A x \in U : InitialChild(x) # NoState => InitialChild(x) \in U

InitialBelow(s) ==
  {d \in State : \A U \in SUBSET State : s \in U /\ ClosedUnderInitial(U) => d \in U}

InitialLineage == UNION {{<<s, d>> : d \in InitialBelow(s)} : s \in State}

FindDeepestInitial(s) ==
  CHOOSE d \in State : <<s, d>> \in InitialLineage /\ InitialChild(d) = NoState

\* The member of a set of states on one root path that lies deepest.
Innermost(C) == CHOOSE a \in C : C \subseteq Ancestors(a)

ComputeLCA(from, to) ==
  IF from = to THEN Parent[from]
               ELSE Innermost(Ancestors(from) \cap Ancestors(to))

-----------------------------------------------------------------------------
(***************************************************************************)
(* What NewMachine and MachineBuilder.validate establish.                  *)
(***************************************************************************)

\* One root, parents within the chart, no cycle.
IsTree ==
  /\ NoState \notin State
  /\ Root \in State
  /\ Parent \in [State -> State \cup {NoState}]
  /\ \A s \in State : Parent[s] = NoState <=> s = Root
  /\ \A s \in State : Root \in Ancestors(s)
  /\ \A s \in State : Parent[s] # NoState => s \notin Ancestors(Parent[s])

\* A compound state has an initial child, which is its child, and every
\* descent ends.
InitialsLead ==
  /\ Parallel \subseteq State
  /\ Initial \in [State -> State \cup {NoState}]
  /\ \A s \in State : Initial[s] # NoState => Parent[Initial[s]] = s
  /\ \A s \in State \ Parallel : Children(s) # {} => Initial[s] # NoState
  /\ \A s \in State : \E d \in State :
       <<s, d>> \in InitialLineage /\ InitialChild(d) = NoState

=============================================================================
