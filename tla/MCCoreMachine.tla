--------------------------- MODULE MCCoreMachine ---------------------------
(***************************************************************************)
(* A tree a -> x -> p | q, a -> y next to an atomic state b; `go' has      *)
(* several handlers and reaches a compound target, `halt' an empty one and *)
(* one that names no state.                                                *)
(***************************************************************************)
EXTENDS CoreMachine

a == <<"a">>
x == <<"a", "x">>
p1 == <<"a", "x", "p">>
q1 == <<"a", "x", "q">>
y == <<"a", "y">>
b == <<"b">>

MCPath == {a, x, p1, q1, y, b}
MCPlace == MCPath \cup {<<>>, <<"a", "lost">>}
MCInitial == a
MCInitialChild ==
  [s \in MCPath |-> CASE s = a -> x [] s = x -> p1 [] OTHER -> <<>>]

On(e, target) == [event |-> e, target |-> target, guard |-> "nil", priority |-> 0]

MCTransitions ==
  [s \in MCPath |->
     CASE s = p1 -> << On("go", y) >>
       [] s = q1 -> << On("go", p1) >>
       [] s = y -> << [On("go", q1) EXCEPT !.priority = 1], On("halt", <<"a", "lost">>) >>
       [] s = a -> << [On("go", b) EXCEPT !.guard = "g"] >>
       [] s = b -> << On("go", a), On("halt", <<>>) >>
       [] OTHER -> << >>]

=============================================================================
