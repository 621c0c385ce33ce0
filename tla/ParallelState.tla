--------------------------- MODULE ParallelState ---------------------------
(***************************************************************************)
(* What a parallel state promises of its regions, whatever runs them. They *)
(* are entered together; each then moves by itself, one transition at a    *)
(* time; when all are in final states the completion is announced, and     *)
(* only then may the parallel state be left, all regions at once. Only the *)
(* end of the runtime closes a region before that. Goroutines, channels,   *)
(* locks and the halves of a transition are not seen here.                 *)
(*                                                                         *)
(* The chart and its walks are parameters, so that an implementation lends *)
(* its own.                                                                *)
(***************************************************************************)
EXTENDS Integers, Selection

CONSTANTS
  State, NoState, EventID, Final,
  Region,  \* the children of the parallel state
  Ancestors(_), FindDeepestInitial(_)

VARIABLES
  leaf,    \* where each region is, NoState while it is closed
  done,    \* the completion of this stay has been announced
  ending   \* the runtime is being stopped, or has failed to start

vars == <<leaf, done, ending>>

Closed == [r \in Region |-> NoState]

Open == {r \in Region : leaf[r] # NoState}

Init == leaf = Closed /\ done = FALSE /\ ending = FALSE

\* All regions are entered, each in its initial leaf.
Enter ==
  /\ leaf = Closed /\ ~done
  /\ leaf' = [r \in Region |-> FindDeepestInitial(r)]
  /\ UNCHANGED <<done, ending>>

Path(r) == {s \in Ancestors(leaf[r]) : r \in Ancestors(s)}

\* Inner states of a region come before outer ones.
Responsible(r, s, e) == \A d \in Path(r) : s \in Ancestors(d) \ {d} => Sure(d, e) = {}

\* A state of the region takes a transition; the other regions stay.
Fire(r) ==
  \E s \in Path(r) : \E e \in EventID : \E i \in Possible(s, e) :
    /\ Responsible(r, s, e)
    /\ Transitions[s][i].target # NoState
    /\ leaf' = [leaf EXCEPT ![r] = FindDeepestInitial(Transitions[s][i].target)]
    /\ UNCHANGED <<done, ending>>

\* All that are open are in final states, at this moment.
Complete ==
  /\ Open # {} /\ ~done
  /\ \A r \in Open : leaf[r] \in Final
  /\ done' = TRUE
  /\ UNCHANGED <<leaf, ending>>

Leave ==
  /\ done
  /\ leaf' = Closed /\ done' = FALSE
  /\ UNCHANGED ending

-----------------------------------------------------------------------------
(***************************************************************************)
(* The end of the runtime.                                                 *)
(***************************************************************************)
End == ending' = TRUE /\ UNCHANGED <<leaf, done>>

Close(r) ==
  /\ ending
  /\ leaf' = [leaf EXCEPT ![r] = NoState]
  /\ UNCHANGED <<done, ending>>

Stop ==
  /\ ending
  /\ leaf' = Closed /\ done' = FALSE
  /\ UNCHANGED ending

Next ==
  \/ Enter \/ Complete \/ Leave \/ End \/ Stop
  \/ \E r \in Open : Fire(r) \/ Close(r)

Spec == Init /\ [][Next]_vars

=============================================================================
