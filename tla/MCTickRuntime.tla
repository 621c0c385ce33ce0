---------------------------- MODULE MCTickRuntime ----------------------------
(***************************************************************************)
(* A chart for the tick-based runtime: a parallel state reached by an      *)
(* eventless transition and left by an event or by a guarded eventless     *)
(* transition, two regions that raise events for each other, and states    *)
(* outside it whose actions send events to their own runtime.              *)
(*                                                                         *)
(*   root -> idle                                                          *)
(*         | busy -> load | store                                          *)
(*         | gate                                                          *)
(*         | both (parallel) -> left -> l1 | l2                            *)
(*                            | right -> r1 | r2                           *)
(***************************************************************************)
EXTENDS TickRuntime

MCState == {"root", "idle", "busy", "load", "store", "gate", "both",
            "left", "l1", "l2", "right", "r1", "r2"}
MCNoState == "0"

MCParent ==
  [s \in MCState |->
     CASE s = "root" -> "0"
       [] s \in {"load", "store"} -> "busy"
       [] s \in {"left", "right"} -> "both"
       [] s \in {"l1", "l2"} -> "left"
       [] s \in {"r1", "r2"} -> "right"
       [] OTHER -> "root"]

MCInitial ==
  [s \in MCState |->
     CASE s = "root" -> "idle"
       [] s = "busy" -> "load"
       [] s = "left" -> "l1"
       [] s = "right" -> "r1"
       [] OTHER -> "0"]

MCBefore == [r \in {"left", "right"} |-> IF r = "right" THEN {"left"} ELSE {}]
MCHistoryDefault == [h \in {} |-> "0"]
MCDoneEvent == [s \in MCState |-> "done." \o s]

On(e, target) == [event |-> e, target |-> target, guard |-> "nil", raise |-> "NO_EVENT"]
Guarded(t, g) == [t EXCEPT !.guard = g]
Raising(t, e) == [t EXCEPT !.raise = e]

MCTransitions ==
  [s \in MCState |->
     CASE s = "idle" -> << Raising(On("go", "busy"), "back"), Guarded(On("NO_EVENT", "0"), "ok") >>
       [] s = "busy" -> << On("go", "gate") >>
       [] s = "load" -> << Raising(On("back", "store"), "go") >>
       [] s = "gate" -> << Raising(On("NO_EVENT", "both"), "go") >>
       [] s = "both" -> << On("back", "idle") >>
       [] s = "l1" -> << Raising(On("go", "l2"), "go") >>
       [] s = "l2" -> << On("NO_EVENT", "left") >>
       [] s = "r1" -> << On("ANY_EVENT", "r2"), On("go", "right") >>
       [] s = "r2" -> << Guarded(On("NO_EVENT", "r1"), "ok") >>
       [] OTHER -> << >>]

\* The parallel state as the initial state.
InitialBoth == [MCInitial EXCEPT !["root"] = "both"]

\* The part of the chart outside the parallel state, in which the eventless
\* transition of `gate' leads back to idle.
OutsideState == {"root", "idle", "busy", "load", "store", "gate"}
OutsideParent == [s \in OutsideState |-> MCParent[s]]
OutsideInitial == [s \in OutsideState |-> MCInitial[s]]
OutsideDoneEvent == [s \in OutsideState |-> MCDoneEvent[s]]
OutsideBefore == [r \in {} |-> {}]
OutsideTransitions ==
  [s \in OutsideState |-> IF s = "gate" THEN << On("NO_EVENT", "idle") >> ELSE MCTransitions[s]]
=============================================================================
