-------------------------- MODULE MCRuntimeHistory --------------------------
(***************************************************************************)
(* A media player with a shallow and a deep history state in `on', nested  *)
(* two levels, and a guarded and an unguarded eventless transition:        *)
(*                                                                         *)
(*   root -> off | on -> play -> slow | fast                               *)
(*                     | pause                                             *)
(*                     | hs (shallow) | hd (deep)                          *)
(*         | boot | post                                                   *)
(***************************************************************************)
EXTENDS Runtime

MCState == {"root", "boot", "post", "off", "on", "play", "slow", "fast", "pause", "hs", "hd"}
MCNoState == "0"
MCRoot == "root"

MCParent ==
  [s \in MCState |->
     CASE s = "root" -> "0"
       [] s \in {"boot", "post", "off", "on"} -> "root"
       [] s \in {"play", "pause", "hs", "hd"} -> "on"
       [] OTHER -> "play"]

MCInitial ==
  [s \in MCState |->
     CASE s = "root" -> "boot"
       [] s = "on" -> "play"
       [] s = "play" -> "slow"
       [] OTHER -> "0"]

MCHistoryDefault == [h \in {"hs", "hd"} |-> IF h = "hd" THEN "pause" ELSE "0"]

MCEvent == {"power", "back", "speed", "hold"}
MCDoneEvent == [s \in MCState |-> "done." \o s]

On(e, target) == [event |-> e, target |-> target, guard |-> "nil", raise |-> "NO_EVENT"]
Guarded(t, g) == [t EXCEPT !.guard = g]

MCTransitions ==
  [s \in MCState |->
     CASE s = "boot" -> << On("NO_EVENT", "post") >>
       [] s = "post" -> << On("NO_EVENT", "off") >>
       [] s = "off" -> << On("power", "on"), On("back", "hs"), On("speed", "hd"),
                          On("hold", "fast") >>
       [] s = "on" -> << On("power", "off"), On("back", "hs") >>
       [] s = "slow" -> << On("speed", "fast"), On("power", "fast"),
                          Guarded(On("NO_EVENT", "fast"), "warm") >>
       [] s = "fast" -> << On("speed", "slow"), On("hold", "pause"),
                          Guarded(On("NO_EVENT", "slow"), "idle") >>
       [] s = "pause" -> << Guarded(On("hold", "play"), "warm"), On("ANY_EVENT", "0"),
                            Guarded(On("NO_EVENT", "off"), "idle") >>
       [] OTHER -> << >>]

\* The same chart, but boot moves on to the compound state `on'.
MCTransitionsCompound == [MCTransitions EXCEPT !["boot"] = << On("NO_EVENT", "on") >>]

\* The same chart, but `on' is entered by its own name or by deep history only,
\* and left from every state below it.
MCTransitionsDeep ==
  [MCTransitions EXCEPT !["off"] = << On("power", "on"), On("speed", "hd") >>,
                        !["on"] = << On("power", "off") >>,
                        !["slow"] = << On("speed", "fast") >>]
=============================================================================
