------------------------------ MODULE Builder ------------------------------
(***************************************************************************)
(* MachineBuilder and the construction of a Machine by Build and           *)
(* NewMachine: states declared by dotted names in any order, with          *)
(* references to names declared later.                                     *)
(*                                                                         *)
(* assignID gives every name one number and every number to one name, so a *)
(* state is known by its name here, a sequence of segments. The number 0   *)
(* belongs to the root, and 0 also says `no initial state' and `internal   *)
(* transition': those are the root's name, too.                            *)
(***************************************************************************)
EXTENDS Integers, Sequences, FiniteSets

CONSTANTS
  Name,      \* the names a program uses, and their prefixes
  RootName,  \* rootName
  MaxCalls   \* bound: calls of the builder's methods

Nowhere == <<>>

\* splitPath: the parent's name; states without a dot belong to the root.
ParentName(n) == IF Len(n) = 1 THEN RootName ELSE SubSeq(n, 1, Len(n) - 1)

ASSUME NameAssumption ==
  /\ Name \subseteq Seq(STRING) \ {<<>>}
  /\ RootName \in Name /\ Len(RootName) = 1
  /\ \A n \in Name : ParentName(n) \in Name
  /\ MaxCalls \in Nat

VARIABLES
  created,   \* the keys of b.states
  parent,    \* State.Parent, with the entry in the parent's Children
  initial,   \* State.Initial
  parallel,  \* the states with IsParallel
  targets,   \* the targets of State.Transitions
  result,    \* of Build: none yet, rejected, endless or accepted
  calls,     \* for the bound
  topDown    \* observed: every state was declared after the states above its parent

vars == <<created, parent, initial, parallel, targets, result, calls, topDown>>

TypeOK ==
  /\ created \subseteq Name /\ RootName \in created
  /\ parent \in [Name -> Name \cup {Nowhere}]
  /\ \A s \in Name : parent[s] # Nowhere => s \in created /\ parent[s] \in created
  /\ initial \in [Name -> Name]
  /\ parallel \subseteq created
  /\ targets \in [Name -> SUBSET Name]
  /\ result \in {"none", "rejected", "endless", "accepted"}
  /\ calls \in 0 .. MaxCalls
  /\ topDown \in BOOLEAN

\* NewMachineBuilder(rootName, initialStateName).
Init ==
  /\ created = {RootName}
  /\ parent = [n \in Name |-> Nowhere]
  /\ \E first \in Name : initial = [n \in Name |-> IF n = RootName THEN first ELSE RootName]
  /\ parallel = {}
  /\ targets = [n \in Name |-> {}]
  /\ result = "none" /\ calls = 0 /\ topDown = TRUE

-----------------------------------------------------------------------------
(***************************************************************************)
(* Declaring.                                                              *)
(***************************************************************************)
Call == result = "none" /\ calls < MaxCalls /\ calls' = calls + 1 /\ UNCHANGED result

Above(n) == {SubSeq(n, 1, k) : k \in 1 .. Len(n) - 1}

\* Faulty variant: an automatically created parent is linked to nothing.
LinkOfParentMissing(p) == Nowhere

\* What an automatically created parent is linked to.
LinkOfParent(p) == IF ParentName(p) \in created THEN ParentName(p) ELSE Nowhere

\* Faulty variant: the parent is linked but not put into b.states.
DeclareStateOnly(n) ==
  /\ Call
  /\ \E p \in {ParentName(n)} :
       /\ created' = created \cup {n}
       /\ parent' = [s \in Name |->
                       CASE s \in created -> parent[s]
                         [] s = p /\ s \notin created -> LinkOfParent(p)
                         [] s = n /\ s \notin created /\ s # p -> p
                         [] OTHER -> parent[s]]
       /\ topDown' = (topDown /\ Above(p) \subseteq created)
  /\ UNCHANGED <<initial, parallel, targets>>

\* State(n): a missing parent is created, without an initial state, and linked
\* to its own parent only if that exists; then the state itself.
DeclareState(n) ==
  /\ Call
  /\ \E p \in {ParentName(n)} :
       /\ created' = created \cup {p, n}
       /\ parent' = [s \in Name |->
                       CASE s \in created -> parent[s]
                         [] s = p /\ s \notin created -> LinkOfParent(p)
                         [] s = n /\ s \notin created /\ s # p -> p
                         [] OTHER -> parent[s]]
       /\ topDown' = (topDown /\ Above(p) \subseteq created)
  /\ UNCHANGED <<initial, parallel, targets>>

\* Compound(i) on a state declared before; i may be declared later, or never.
Compound(n, i) ==
  /\ Call /\ n \in created
  /\ initial' = [initial EXCEPT ![n] = i]
  /\ UNCHANGED <<created, parent, parallel, targets, topDown>>

DeclareParallel(n) ==
  /\ Call /\ n \in created
  /\ parallel' = parallel \cup {n}
  /\ UNCHANGED <<created, parent, initial, targets, topDown>>

\* On, and OnInternal when the target is the root's name.
On(n, target) ==
  /\ Call /\ n \in created
  /\ targets' = [targets EXCEPT ![n] = @ \cup {target}]
  /\ UNCHANGED <<created, parent, initial, parallel, topDown>>

-----------------------------------------------------------------------------
(***************************************************************************)
(* Building.                                                               *)
(***************************************************************************)
Children(s) == {c \in created : parent[c] = s}

\* validate; the root, number 0, is always known.
Validate ==
  \A s \in created :
    /\ targets[s] \subseteq created
    /\ Children(s) # {} /\ s \notin parallel => initial[s] # RootName
    /\ initial[s] \in created

\* The states buildLUT meets below the root: Machine.states.
ClosedUnderChildren(U) == \A u \in U : Children(u) \subseteq U

Machine ==
  {s \in created : \A U \in SUBSET created : RootName \in U /\ ClosedUnderChildren(U) => s \in U}

\* Faulty variant: a state without an initial state is its own.
InitialStepToSelf(s) == IF s \in Machine \ parallel THEN {initial[s], s} \ {RootName} ELSE {}

\* Where findDeepestInitial goes on to.
InitialStep(s) == IF s \in Machine \ parallel THEN {initial[s]} \ {RootName} ELSE {}

ClosedUnderInitial(U) == \A u \in U : InitialStep(u) \subseteq U

\* The states it visits, and where it ends; nowhere when it never does.
Descent(s) == {d \in Name : \A U \in SUBSET Name : s \in U /\ ClosedUnderInitial(U) => d \in U}

DeepestInitial(s) == {d \in Descent(s) : InitialStep(d) = {}}

Build ==
  /\ result = "none"
  /\ result' = CASE ~ Validate -> "rejected"
                 [] Validate /\ DeepestInitial(RootName) = {} -> "endless"
                 [] Validate /\ DeepestInitial(RootName) # {} ->
                      IF DeepestInitial(RootName) \subseteq Machine THEN "accepted" ELSE "rejected"
  /\ UNCHANGED <<created, parent, initial, parallel, targets, calls, topDown>>

\* The state tree NewMachine hands to the runtimes, where 0 is no initial state.
Tree == INSTANCE StateTree WITH
  State    <- Machine,
  NoState  <- Nowhere,
  Root     <- RootName,
  Parent   <- [s \in Machine |-> parent[s]],
  Initial  <- [s \in Machine |-> IF initial[s] = RootName THEN Nowhere ELSE initial[s]],
  Parallel <- parallel \cap Machine

-----------------------------------------------------------------------------
Next ==
  \/ Build
  \/ \E n \in Name : DeclareState(n) \/ DeclareParallel(n)
  \/ \E n \in created, m \in Name : Compound(n, m) \/ On(n, m)

Spec == Init /\ [][Next]_vars

-----------------------------------------------------------------------------
(***************************************************************************)
(* Properties.                                                             *)
(***************************************************************************)

\* The program names a child as the initial state of every compound state.
\* validate does not look at that.
ChildInitials == \A s \in created : initial[s] # RootName => ParentName(initial[s]) = s

\* Declared from the top down, whatever Build accepts is a chart as the
\* runtimes take it to be: no declared state is missing, the tree is the one the
\* names tell and satisfies what Chart assumes of every tree, and no transition
\* leads out of it.
AcceptedIsChart ==
  result = "accepted" /\ topDown /\ ChildInitials =>
    /\ Machine = created
    /\ \A s \in created \ {RootName} : parent[s] = ParentName(s)
    /\ Tree!IsTree
    /\ Tree!InitialsLead
    /\ \A s \in Machine : targets[s] \subseteq Machine

\* Out of order or not, Build returns when initial states are children.
BuildReturns == ChildInitials => result # "endless"

=============================================================================
