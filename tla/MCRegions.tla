----------------------------- MODULE MCRegions -----------------------------
(***************************************************************************)
(* Two regions that reach a final state on `go'; A starts again when its   *)
(* own done event arrives:                                                 *)
(*                                                                         *)
(*   root -> par (parallel) -> A -> a1 | af (final)                        *)
(*         |                 | B -> b1 | bf (final)                        *)
(*         | out                                                           *)
(***************************************************************************)
EXTENDS Regions

MCState == {"root", "par", "out", "A", "a1", "af", "B", "b1", "bf"}
MCNoState == "0"

MCParent ==
  [s \in MCState |->
     CASE s = "root" -> "0"
       [] s \in {"par", "out"} -> "root"
       [] s \in {"A", "B"} -> "par"
       [] s \in {"a1", "af"} -> "A"
       [] OTHER -> "B"]

MCInitial ==
  [s \in MCState |->
     CASE s = "root" -> "par"
       [] s = "A" -> "a1"
       [] s = "B" -> "b1"
       [] OTHER -> "0"]

MCHistoryDefault == [h \in {} |-> "0"]
MCDoneEvent == [s \in MCState |-> "done." \o s]

On(e, target) == [event |-> e, target |-> target, guard |-> "nil", raise |-> "NO_EVENT"]
Raising(t, e) == [t EXCEPT !.raise = e]

MCTransitions ==
  [s \in MCState |->
     CASE s = "par" -> << On("done.par", "out"), On("early", "0") >>
       [] s = "A" -> << On("done.A", "a1") >>
       [] s = "a1" -> << On("go", "af") >>
       [] s = "b1" -> << Raising(On("go", "bf"), "early") >>
       [] OTHER -> << >>]

=============================================================================
