--------------------------- MODULE Configuration ---------------------------
(***************************************************************************)
(* What a statechart promises, whatever runs it: the configuration is a    *)
(* path from the root to an initial leaf, and one transition of one of its *)
(* states replaces it by another. Queues, micro- and macrosteps, locks and *)
(* the order of exit and entry actions are not seen here.                  *)
(*                                                                         *)
(* The chart and its walks are parameters, so that an implementation lends *)
(* its own.                                                                *)
(***************************************************************************)
EXTENDS Integers, Selection

CONSTANTS
  State, NoState, Root, Parent, Initial, HistoryState, DeepHistory, HistoryDefault, EventID,
  Children(_), Ancestors(_), FindDeepestInitial(_)

VARIABLES
  configuration,  \* the active states, none before the start
  memory          \* memory[p]: what was active in p when p was last left

vars == <<configuration, memory>>

Init == configuration = {} /\ memory = [p \in State |-> {}]

Enter ==
  /\ configuration = {}
  /\ configuration' = Ancestors(FindDeepestInitial(Root))
  /\ UNCHANGED memory

-----------------------------------------------------------------------------
(***************************************************************************)
(* Which transition: inner states come before outer ones.                  *)
(***************************************************************************)
Responsible(s, e) ==
  \A d \in configuration : s \in Ancestors(d) \ {d} => Sure(d, e) = {}

-----------------------------------------------------------------------------
(***************************************************************************)
(* Where it leads.                                                         *)
(***************************************************************************)
FirstTime(h) ==
  IF HistoryDefault[h] # NoState THEN {HistoryDefault[h]} ELSE {Initial[Parent[h]]}

\* Shallow history: the child that was active when the parent was last left.
\* From inside its parent any child may come.
ShallowTargets(h) ==
  LET p == Parent[h]
  IN  CASE p \in configuration -> (Children(p) \ HistoryState) \cup FirstTime(h)
        [] p \notin configuration /\ Children(p) \cap memory[p] # {} -> Children(p) \cap memory[p]
        [] OTHER -> FirstTime(h)

\* Deep history: some state within the parent.
DeepTargets(h) ==
  FirstTime(h) \cup {s \in State \ HistoryState : Parent[h] \in Ancestors(s) \ {s}}

Leads(target) ==
  CASE target = NoState -> {}
    [] target \in DeepHistory -> DeepTargets(target)
    [] target \in HistoryState \ DeepHistory -> ShallowTargets(target)
    [] OTHER -> {target}

\* All active states that do not hold the target; a leaf that goes to itself
\* is left, too.
Left(to) ==
  {s \in configuration : s \notin Ancestors(to) \/ (s = to /\ configuration = Ancestors(to))}

Fire(s, e) ==
  /\ Responsible(s, e)
  /\ \E i \in Possible(s, e) : \E to \in Leads(Transitions[s][i].target) :
       /\ configuration' = Ancestors(FindDeepestInitial(to))
       /\ memory' = [p \in State |->
                       IF p \in Left(to) THEN {d \in configuration : p \in Ancestors(d)}
                                         ELSE memory[p]]

Next == Enter \/ \E s \in configuration : \E e \in EventID \cup {NoEvent} : Fire(s, e)

Spec == Init /\ [][Next]_vars

=============================================================================
