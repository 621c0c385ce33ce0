---------------------------- MODULE MCRuntimeDone ----------------------------
(***************************************************************************)
(* A chart about completion: `job' with two final children and a way back  *)
(* out of each, `wrap' whose only descendant is final (its done event      *)
(* cascades to inner, wrap and root), actions that send events to their    *)
(* own runtime, and an internal eventless transition that can spin up to   *)
(* the microstep bound.                                                    *)
(*                                                                         *)
(*   root -> idle                                                          *)
(*         | job -> draft | closed (final) | void (final)                  *)
(*         | wrap -> inner -> ready (final)                                *)
(***************************************************************************)
EXTENDS Runtime

MCState == {"root", "idle", "job", "draft", "closed", "void", "wrap", "inner", "ready"}
MCNoState == "0"
MCRoot == "root"
MCFinal == {"closed", "void", "ready"}

MCParent ==
  [s \in MCState |->
     CASE s = "root" -> "0"
       [] s \in {"idle", "job", "wrap"} -> "root"
       [] s \in {"draft", "closed", "void"} -> "job"
       [] s = "inner" -> "wrap"
       [] OTHER -> "inner"]

MCInitial ==
  [s \in MCState |->
     CASE s = "root" -> "job"
       [] s = "job" -> "draft"
       [] s = "wrap" -> "inner"
       [] s = "inner" -> "ready"
       [] OTHER -> "0"]

MCHistoryDefault == [h \in {} |-> "0"]
MCEvent == {"go", "alt"}
MCDoneEvent == [s \in MCState |-> "done." \o s]

On(e, target) == [event |-> e, target |-> target, guard |-> "nil", raise |-> "NO_EVENT"]
Guarded(t, g) == [t EXCEPT !.guard = g]
Raising(t, e) == [t EXCEPT !.raise = e]

MCTransitions ==
  [s \in MCState |->
     CASE s = "idle" -> << On("go", "wrap"), Raising(On("alt", "0"), "go"),
                             Guarded(On("NO_EVENT", "0"), "spin") >>
       [] s = "job" -> << On("done.job", "idle"), On("ANY_EVENT", "job") >>
       [] s = "draft" -> << On("go", "closed"), Raising(On("alt", "void"), "go") >>
       [] s = "closed" -> << On("alt", "void"), On("go", "draft") >>
       [] s = "wrap" -> << On("done.wrap", "job") >>
       [] s = "inner" -> << Raising(On("done.inner", "0"), "alt") >>
       [] s = "ready" -> << On("alt", "idle") >>
       [] OTHER -> << >>]

=============================================================================
