----------------------------- MODULE Selection -----------------------------
(***************************************************************************)
(* Which transitions a state may take for an event, when a guard may hold  *)
(* or not: exact matches come before wildcards, then the order of          *)
(* declaration counts.                                                     *)
(***************************************************************************)
EXTENDS Integers

CONSTANTS
  NoEvent, AnyEvent, NoGuard,
  Transitions  \* the transitions of each state, in declaration order

Answers(t, e) == t.event = e \/ (e # NoEvent /\ t.event = AnyEvent)

\* The transition j of s is tried before i.
TriedBefore(s, e, j, i) ==
  IF (Transitions[s][i].event = e) = (Transitions[s][j].event = e)
    THEN j < i
    ELSE Transitions[s][j].event = e

Sure(s, e) ==
  {j \in DOMAIN Transitions[s] :
     Answers(Transitions[s][j], e) /\ Transitions[s][j].guard = NoGuard}

Possible(s, e) ==
  {i \in DOMAIN Transitions[s] :
     Answers(Transitions[s][i], e) /\ ~ \E j \in Sure(s, e) : TriedBefore(s, e, j, i)}

=============================================================================
