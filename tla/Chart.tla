------------------------------- MODULE Chart -------------------------------
(***************************************************************************)
(* The static structure of a statechart, as the runtimes share it: the     *)
(* state tree, pseudo-states, events and transitions, and the selection of *)
(* a transition. An EventID, a guard and an action are abstract values.    *)
(***************************************************************************)
EXTENDS StateTree

CONSTANTS
  Final,           \* the states with IsFinal or Final
  ShallowHistory,  \* history pseudo-states that restore the direct child
  DeepHistory,     \* history pseudo-states that restore the whole path
  HistoryDefault,  \* State.HistoryDefault
  Event,           \* the event ids clients send
  NoEvent,         \* NO_EVENT
  AnyEvent,        \* ANY_EVENT
  DoneEvent,       \* DoneEvent[s] is DoneEventID(s)
  Guard,           \* identities of the guard functions
  NoGuard,         \* Transition.Guard = nil
  Transitions      \* State.Transitions, in declaration order

HistoryState == ShallowHistory \cup DeepHistory

EventID == Event \cup {DoneEvent[s] : s \in State}

(***************************************************************************)
(* A transition: the event that triggers it, its target (NoState for an    *)
(* internal one), its guard, and the event its action sends to the runtime *)
(* it runs in (NoEvent when the action sends nothing).                     *)
(***************************************************************************)
Transition ==
  [event : EventID \cup {NoEvent, AnyEvent}, target : State \cup {NoState},
   guard : Guard \cup {NoGuard}, raise : Event \cup {NoEvent}]

-----------------------------------------------------------------------------
(***************************************************************************)
(* pickTransition: in one state the first exact match whose guard passes,  *)
(* else the first wildcard whose guard passes; ANY_EVENT never matches     *)
(* NO_EVENT. `ok' is the set of guards that return (true, nil) now.        *)
(***************************************************************************)
Passes(t, ok) == t.guard = NoGuard \/ t.guard \in ok

ExactMatches(s, e, ok) ==
  {i \in DOMAIN Transitions[s] :
     Transitions[s][i].event = e /\ Passes(Transitions[s][i], ok)}

WildcardMatches(s, e, ok) ==
  {i \in DOMAIN Transitions[s] :
     /\ e # NoEvent
     /\ Transitions[s][i].event = AnyEvent
     /\ Passes(Transitions[s][i], ok)}

Matches(s, e, ok) ==
  IF ExactMatches(s, e, ok) # {} THEN ExactMatches(s, e, ok)
                                 ELSE WildcardMatches(s, e, ok)

\* The transition s takes for e; no element when there is none.
PickTransition(s, e, ok) ==
  LET m == Matches(s, e, ok)
  IN  {Transitions[s][i] : i \in {k \in m : \A j \in m : k <= j}}

\* The states on the path from s to the root that can take the event.
Handlers(s, e, ok) == {a \in Ancestors(s) : Matches(a, e, ok) # {}}

\* Faulty variant: the outermost of them comes first.
PickOutermost(s, e, ok) ==
  LET handlers == Handlers(s, e, ok)
  IN  UNION {PickTransition(a, e, ok) :
               a \in {h \in handlers : \A g \in handlers : h \in Ancestors(g)}}

\* The transition of the innermost of them.
PickTransitionHierarchical(s, e, ok) ==
  LET handlers == Handlers(s, e, ok)
  IN  UNION {PickTransition(a, e, ok) : a \in {h \in handlers : handlers \subseteq Ancestors(h)}}

\* The states below p's completion: checkFinalState walks from the parent of
\* a final state upwards while the state it is at has a single child.
SingleChild(p) == \A c, d \in Children(p) : c = d

DoneParents(c) ==
  {p \in Ancestors(c) \ {c} :
     \A q \in Ancestors(c) \ {c} :
        p \in Ancestors(q) /\ p # q => q \notin Parallel /\ SingleChild(q)}

-----------------------------------------------------------------------------
(***************************************************************************)
(* What NewMachine and MachineBuilder.validate establish of a chart (the   *)
(* tree and its initial states: see Builder), and what a SCXML chart has   *)
(* besides: final states and pseudo-states are atomic.                     *)
(***************************************************************************)
ASSUME TreeAssumption == IsTree

ASSUME InitialAssumption ==
  /\ InitialsLead
  /\ \A s \in State : Initial[s] # NoState => Initial[s] \notin HistoryState

ASSUME PseudoStateAssumption ==
  /\ Final \subseteq State
  /\ \A s \in Final : Children(s) = {}
  /\ ShallowHistory \subseteq State
  /\ DeepHistory \subseteq State \ ShallowHistory
  /\ Root \notin HistoryState
  /\ \A h \in HistoryState : Children(h) = {}
  /\ HistoryDefault \in [HistoryState -> (State \ HistoryState) \cup {NoState}]

ASSUME EventAssumption ==
  /\ NoEvent # AnyEvent
  /\ NoEvent \notin EventID /\ AnyEvent \notin EventID
  /\ DOMAIN DoneEvent = State
  /\ \A s, t \in State : DoneEvent[s] = DoneEvent[t] => s = t
  /\ \A s \in State : DoneEvent[s] \notin Event
  /\ NoGuard \notin Guard
  /\ Transitions \in [State -> Seq(Transition)]

=============================================================================
