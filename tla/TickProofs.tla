----------------------------- MODULE TickProofs -----------------------------
(***************************************************************************)
(* Invariants of the tick-based runtime, for every chart and every bound   *)
(* that satisfy the assumptions of Chart and TickRuntime.                  *)
(***************************************************************************)
EXTENDS TickRuntime, ChartProofs, FiniteSetTheorems

USE DEF IsTree, InitialsLead, Paths

-----------------------------------------------------------------------------
(***************************************************************************)
(* Type correctness.                                                       *)
(***************************************************************************)

\* The parallel state's regions are entered and exited together.
RegionsTogether ==
  \/ \A r \in Regions : region[r] \in State
  \/ \A r \in Regions : region[r] = NoState

\* Within a round the bound is not reached yet, the regions an event is given
\* to exist, and there is no tick before Start or after the loop has exited.
RoundOK ==
  /\ at \in {"dispatch", "deliver", "quiet"} => round < MaxMicrosteps
  /\ at = "deliver" => \A r \in Regions : region[r] \in State
  /\ life \in {"new", "exited"} => at = "idle"

TypeInv == TypeOK /\ IsFiniteSet(batch) /\ RegionsTogether /\ RoundOK

\* An entry ends in a state of the chart.
LEMMA EntryGoalInState ==
  ASSUME NEW to \in State, current \in State
  PROVE  EntryGoal(to) \in State
<1>1. Entered(current, to) \subseteq State
  BY AncestorsInState DEF Entered
<1> QED BY <1>1, DeepestInitialBelow DEF EntryGoal

\* rt.current is a state after every transition: above an initial parallel
\* state there is a parent.
LEMMA CurrentAfterInState ==
  ASSUME NEW to \in State, current \in State, NEW eventless \in BOOLEAN
  PROVE  CurrentAfter(to, eventless) \in State
<1> DEFINE entered == Entered(current, to)
<1>1. EntryGoal(to) \in State
  BY EntryGoalInState
<1>2. ASSUME entered \cap Parallel = {}, EntersParallel(to)
      PROVE  Parent[EntryGoal(to)] \in State
  <2>1. EntryGoal(to) = FindDeepestInitial(to)
    BY <1>2 DEF EntryGoal
  <2>2. PICK p \in EntryPath(to) : p \in Parallel
    BY <1>2 DEF EntersParallel
  <2>3. p \in Ancestors(EntryGoal(to)) /\ p \notin Ancestors(to)
    BY <1>2, <2>2 DEF EntryPath, Entered
  <2>4. EntryGoal(to) # Root
    <3>1. SUFFICES ASSUME EntryGoal(to) = Root PROVE FALSE
      OBVIOUS
    <3>2. Root \in Ancestors(to)
      BY TreeAssumption
    <3>3. Ancestors(Root) \subseteq Ancestors(to)
      BY <3>2, AncestorsTransitive
    <3> QED BY <2>3, <3>1, <3>3
  <2> QED BY <1>1, <2>4, TreeAssumption
<1> QED BY <1>1, <1>2 DEF CurrentAfter

\* Neither a move of the embedded runtime nor one of a region breaks a type.
LEMMA MoveTypes ==
  ASSUME TypeInv, NEW to \in State, NEW eventless \in BOOLEAN, Move(to, eventless)
  PROVE  /\ current' \in State
         /\ region' \in [Regions -> State \cup {NoState}]
         /\ active' \subseteq State
         /\ RegionsTogether'
<1>1. current \in State /\ active \subseteq State /\ region \in [Regions -> State \cup {NoState}]
  BY DEF TypeInv, TypeOK
<1>2. current' \in State
  BY <1>1, CurrentAfterInState DEF Move
<1>3. \A r \in Regions : FindDeepestInitial(r) \in State
  BY DeepestInitialBelow DEF Regions
<1>4. EntryPath(to) \subseteq State /\ RegionEntries \subseteq State
  BY AncestorsInState DEF EntryPath, RegionEntries
<1>5. active' \subseteq State
  BY <1>1, <1>4 DEF Move
<1>6. region' = RegionsAfter(to)
  BY DEF Move
<1>7. CASE EntersParallel(to)
  <2>1. region' = [r \in Regions |-> FindDeepestInitial(r)]
    BY <1>6, <1>7 DEF RegionsAfter
  <2> QED BY <1>2, <1>3, <1>5, <2>1 DEF RegionsTogether
<1>8. CASE ~EntersParallel(to) /\ ExitsParallel(to)
  <2>1. region' = [r \in Regions |-> NoState]
    BY <1>6, <1>8 DEF RegionsAfter
  <2> QED BY <1>2, <1>5, <2>1 DEF RegionsTogether
<1>9. CASE ~EntersParallel(to) /\ ~ExitsParallel(to)
  <2>1. region' = [r \in Regions |-> region[r]]
    BY <1>6, <1>9 DEF RegionsAfter
  <2> QED BY <1>1, <1>2, <1>5, <2>1 DEF RegionsTogether, TypeInv
<1> QED BY <1>7, <1>8, <1>9

\* The same of a region's move.
LEMMA MoveRegionTypes ==
  ASSUME TypeInv, NEW r \in Regions, region[r] \in State,
         NEW to \in State, MoveRegion(r, to)
  PROVE  /\ current' \in State
         /\ region' \in [Regions -> State \cup {NoState}]
         /\ active' \subseteq State
         /\ \A q \in Regions : region'[q] \in State
<1>1. current \in State /\ active \subseteq State /\ region \in [Regions -> State \cup {NoState}]
  BY DEF TypeInv, TypeOK
<1>2. FindDeepestInitial(to) \in State
  BY DeepestInitialBelow
<1>3. Ancestors(FindDeepestInitial(to)) \subseteq State
  BY AncestorsInState
<1>4. region[r] # NoState
  BY TreeAssumption
<1>5. \A q \in Regions : region[q] \in State
  BY <1>4 DEF TypeInv, RegionsTogether
<1> QED BY <1>1, <1>2, <1>3, <1>5 DEF MoveRegion

QueueTypes ==
  /\ batch \subseteq EventWithMeta
  /\ Cardinality(batch) <= BatchCap
  /\ IsFiniteSet(batch)
  /\ internal \in Seq(Submission)
  /\ seq \in Nat

\* An event is added to the batch below its capacity only.
LEMMA EnqueueTypes ==
  ASSUME TypeInv, NEW e \in Event, NEW p \in Priority \cup {0},
         NEW ticket \in 0 .. MaxSends, Enqueue(e, p, ticket) \/ Rejected
  PROVE  /\ batch' \subseteq EventWithMeta
         /\ Cardinality(batch') <= BatchCap
         /\ IsFiniteSet(batch')
         /\ seq' \in Nat
<1>1. CASE Enqueue(e, p, ticket)
  <2> DEFINE m == [event |-> e, prio |-> p, seq |-> seq, ticket |-> ticket]
  <2>1. m \in EventWithMeta
    BY DEF EventWithMeta, TypeInv, TypeOK
  <2> HIDE DEF m
  <2>3. Cardinality(batch) \in Nat
    BY FS_CardinalityType DEF TypeInv
  <2>2. /\ IsFiniteSet(batch \cup {m})
        /\ Cardinality(batch \cup {m}) <= Cardinality(batch) + 1
    BY <2>3, FS_AddElement DEF TypeInv
  <2>4. batch' = batch \cup {m} /\ Cardinality(batch) < BatchCap /\ seq' = seq + 1
    BY <1>1 DEF Enqueue, m
  <2>5. Cardinality(batch') \in Nat
    BY <2>2, <2>4, FS_CardinalityType
  <2>6. seq \in Nat /\ batch \subseteq EventWithMeta /\ BatchCap \in Nat
    BY TickAssumption DEF TypeInv, TypeOK
  <2>7. Cardinality(batch') <= BatchCap
    BY <2>2, <2>3, <2>4, <2>5, <2>6
  <2>8. batch' \subseteq EventWithMeta /\ seq' \in Nat /\ IsFiniteSet(batch')
    BY <2>1, <2>2, <2>4, <2>6
  <2> QED BY <2>7, <2>8
<1>2. CASE Rejected
  BY <1>2 DEF Rejected, TypeInv, TypeOK
<1> QED BY <1>1, <1>2

\* Raising an event keeps the queues' types.
LEMMA RaiseTypes ==
  ASSUME TypeInv, NEW e \in Event \cup {NoEvent}, Raise(e)
  PROVE  QueueTypes'
<1>0. 0 \in 0 .. MaxSends /\ 0 \in Priority \cup {0}
  BY TickAssumption
<1>1. CASE e = NoEvent
  BY <1>1 DEF Raise, TypeInv, TypeOK, QueueTypes
<1>2. CASE e # NoEvent /\ InMacrostep
  <2>1. [event |-> e, ticket |-> 0] \in Submission
    BY <1>0, <1>2 DEF Submission
  <2>2. internal' = Append(internal, [event |-> e, ticket |-> 0]) /\ UNCHANGED <<batch, seq>>
    BY <1>2 DEF Raise
  <2>3. internal' \in Seq(Submission)
    BY <2>1, <2>2 DEF TypeInv, TypeOK
  <2> QED BY <2>2, <2>3 DEF TypeInv, TypeOK, QueueTypes
<1>3. CASE e # NoEvent /\ ~InMacrostep
  <2>1. Enqueue(e, 0, 0) \/ Rejected
    BY <1>3 DEF Raise
  <2>2. UNCHANGED internal
    BY <1>3 DEF Raise
  <2> QED BY <1>0, <1>3, <2>1, <2>2, EnqueueTypes DEF QueueTypes, TypeInv, TypeOK
<1> QED BY <1>1, <1>2, <1>3

MachineTypes ==
  /\ current \in State
  /\ region \in [Regions -> State \cup {NoState}]
  /\ active \subseteq State
  /\ RegionsTogether

\* Whatever transition of the chart is executed, the types hold after it.
LEMMA ExecuteTypes ==
  ASSUME TypeInv, NEW t \in Transition, NEW eventless \in BOOLEAN, Execute(t, eventless)
  PROVE  MachineTypes' /\ QueueTypes'
<1>1. t.target \in State \cup {NoState} /\ t.raise \in Event \cup {NoEvent}
  BY DEF Transition
<1>2. QueueTypes'
  BY <1>1, RaiseTypes DEF Execute
<1>3. CASE UNCHANGED machine
  BY <1>2, <1>3 DEF MachineTypes, machine, TypeInv, TypeOK, RegionsTogether
<1>4. CASE t.target # NoState /\ Move(t.target, eventless)
  BY <1>1, <1>2, <1>4, MoveTypes DEF MachineTypes
<1> QED BY <1>3, <1>4 DEF Execute

\* A region only takes transitions of the state it is in.
LEMMA RegionTransitionOfChart ==
  ASSUME NEW r \in Regions, region[r] \in State, NEW e, NEW ok,
         NEW t \in RegionTransition(r, e, ok)
  PROVE  t \in Transition
<1>1. Transitions[region[r]] \in Seq(Transition)
  BY EventAssumption
<1>2. PICK i \in DOMAIN Transitions[region[r]] : t = Transitions[region[r]][i]
  BY DEF RegionTransition, RegionMatches
<1> QED BY <1>1, <1>2

\* The same for a transition of a region.
LEMMA ExecuteInRegionTypes ==
  ASSUME TypeInv, NEW r \in Regions, \A q \in Regions : region[q] \in State,
         NEW t \in Transition, ExecuteInRegion(r, t)
  PROVE  MachineTypes' /\ QueueTypes' /\ \A q \in Regions : region'[q] \in State
<1>1. t.target \in State \cup {NoState} /\ t.raise \in Event \cup {NoEvent}
  BY DEF Transition
<1>2. QueueTypes'
  BY <1>1, RaiseTypes DEF ExecuteInRegion
<1>3. CASE UNCHANGED machine
  BY <1>2, <1>3 DEF MachineTypes, machine, TypeInv, TypeOK, RegionsTogether
<1>4. CASE t.target # NoState /\ MoveRegion(r, t.target)
  BY <1>1, <1>2, <1>4, MoveRegionTypes DEF MachineTypes, RegionsTogether
<1> QED BY <1>3, <1>4 DEF ExecuteInRegion

\* What of TypeOK neither of the two covers.
RestTypes ==
  /\ life \in {"new", "starting", "running", "exited"}
  /\ cancelled \in BOOLEAN
  /\ stop \in {"none", "waiting", "returned"}
  /\ at \in {"idle", "events", "micro", "loop", "dispatch", "deliver", "quiet",
            "between", "stuck"}
  /\ stage \in {"none", "start", "macro", "regions"}
  /\ round \in 0 .. MaxMicrosteps
  /\ pending \subseteq EventWithMeta
  /\ inHand \in Event \cup {NoEvent}
  /\ todo \subseteq Regions
  /\ routed \subseteq Submission
  /\ sent \in 0 .. MaxSends
  /\ handled \subseteq EventWithMeta

\* The initial state is well typed.
LEMMA InitTypeInv == Init => TypeInv
<1> SUFFICES ASSUME Init PROVE TypeInv
  OBVIOUS
<1>1. FindDeepestInitial(Root) \in State
  BY DeepestInitialBelow, TreeAssumption
<1>2. IsFiniteSet(batch) /\ Cardinality(batch) = 0
  BY FS_EmptySet DEF Init
<1>3. MachineTypes /\ RoundOK
  BY <1>1 DEF Init, MachineTypes, RegionsTogether, RoundOK
<1>4. QueueTypes
  BY <1>2, TickAssumption DEF Init, QueueTypes
<1>5. 0 \in 0 .. MaxMicrosteps /\ 0 \in 0 .. MaxSends
  BY TickAssumption
<1>6. RestTypes
  BY <1>5 DEF Init, RestTypes
<1> QED BY <1>3, <1>4, <1>6 DEF TypeInv, TypeOK, MachineTypes, QueueTypes, RestTypes

\* Starting and stopping keep the types.
LEMMA LifecycleTypes == TypeInv /\ Lifecycle => TypeInv'
<1> SUFFICES ASSUME TypeInv, Lifecycle PROVE TypeInv'
  OBVIOUS
<1> USE DEF machine, loop, work, clients, control
<1>1. MachineTypes /\ QueueTypes /\ RestTypes /\ RoundOK
  BY DEF TypeInv, TypeOK, MachineTypes, QueueTypes, RestTypes
<1>2. SUFFICES MachineTypes' /\ QueueTypes' /\ RestTypes' /\ RoundOK'
  BY DEF TypeInv, TypeOK, MachineTypes, QueueTypes, RestTypes
<1>3. UNCHANGED <<batch, internal, seq>>
  BY DEF Lifecycle, Start, StartEntryFails, CancelParent, CallStop, LoopExits, StopReturns
<1>4. QueueTypes'
  BY <1>1, <1>3 DEF QueueTypes
<1>5. CASE Start
  <2>1. RegionEntries \subseteq State
    BY AncestorsInState DEF RegionEntries
  <2>2. \A r \in Regions : FindDeepestInitial(r) \in State
    BY DeepestInitialBelow DEF Regions
  <2>3. MachineTypes'
    BY <1>1, <1>5, <2>1, <2>2 DEF Start, MachineTypes, RegionsTogether
  <2>4. RestTypes'
    BY <1>1, <1>5 DEF Start, RestTypes
  <2>5. RoundOK'
    BY <1>1, <1>5, <2>2 DEF Start, RoundOK
  <2> QED BY <1>4, <2>3, <2>4, <2>5
<1>6. CASE StopReturns
  <2>1. MachineTypes'
    BY <1>1, <1>6 DEF StopReturns, MachineTypes, RegionsTogether
  <2>2. RestTypes' /\ RoundOK'
    BY <1>1, <1>6 DEF StopReturns, RestTypes, RoundOK
  <2> QED BY <1>4, <2>1, <2>2
<1>7. CASE StartEntryFails
  BY <1>1, <1>4, <1>7 DEF StartEntryFails, MachineTypes, RegionsTogether, RestTypes, RoundOK
<1>8. CASE CancelParent \/ CallStop \/ LoopExits
  BY <1>1, <1>4, <1>8 DEF CancelParent, CallStop, LoopExits, MachineTypes,
     RegionsTogether, RestTypes, RoundOK
<1> QED BY <1>5, <1>6, <1>7, <1>8 DEF Lifecycle

\* Sending keeps the types.
LEMMA ClientsTypes == TypeInv /\ Clients => TypeInv'
<1> SUFFICES ASSUME TypeInv, Clients PROVE TypeInv'
  OBVIOUS
<1> USE DEF machine, loop, work, clients, control
<1>1. MachineTypes /\ QueueTypes /\ RestTypes /\ RoundOK
  BY DEF TypeInv, TypeOK, MachineTypes, QueueTypes, RestTypes
<1>2. SUFFICES MachineTypes' /\ QueueTypes' /\ RestTypes' /\ RoundOK'
  BY DEF TypeInv, TypeOK, MachineTypes, QueueTypes, RestTypes
<1>3. UNCHANGED <<machine, loop, work, handled, control, pending>>
  BY DEF Clients, SendEvent, SendEventWithPriority, AppendToBatch
<1>4. MachineTypes' /\ RoundOK'
  BY <1>1, <1>3 DEF MachineTypes, RoundOK, RegionsTogether
<1>5. ASSUME NEW e \in Event, SendEvent(e) PROVE QueueTypes' /\ RestTypes'
  <2>1. sent + 1 \in 0 .. MaxSends
    BY <1>1, <1>5, TickAssumption DEF SendEvent, RestTypes
  <2>2. [event |-> e, ticket |-> sent + 1] \in Submission
    BY <2>1 DEF Submission
  <2>3. QueueTypes'
    BY <1>1, <1>5, <2>2 DEF SendEvent, QueueTypes
  <2>4. RestTypes'
    BY <1>1, <1>3, <1>5, <2>1, <2>2 DEF SendEvent, RestTypes
  <2> QED BY <2>3, <2>4
<1>6. ASSUME NEW e \in Event, NEW p \in Priority, SendEventWithPriority(e, p)
      PROVE  QueueTypes' /\ RestTypes'
  <2>1. sent + 1 \in 0 .. MaxSends
    BY <1>1, <1>6, TickAssumption DEF SendEventWithPriority, RestTypes
  <2>2. QueueTypes'
    BY <1>1, <1>6, <2>1, EnqueueTypes DEF SendEventWithPriority, QueueTypes
  <2>3. RestTypes'
    BY <1>1, <1>3, <1>6, <2>1 DEF SendEventWithPriority, RestTypes
  <2> QED BY <2>2, <2>3
<1>7. ASSUME NEW m \in routed, AppendToBatch(m) PROVE QueueTypes' /\ RestTypes'
  <2>1. m.event \in Event /\ m.ticket \in 0 .. MaxSends /\ 0 \in Priority \cup {0}
    BY <1>1 DEF RestTypes, Submission
  <2>2. QueueTypes'
    BY <1>1, <1>7, <2>1, EnqueueTypes DEF AppendToBatch, QueueTypes
  <2>3. RestTypes'
    BY <1>1, <1>3, <1>7 DEF AppendToBatch, RestTypes
  <2> QED BY <2>2, <2>3
<1> QED BY <1>4, <1>5, <1>6, <1>7 DEF Clients

\* The batch being processed, up to the microsteps, keeps the types.
LEMMA BatchTypes ==
  ASSUME TypeInv, BeginTick \/ ProcessEvent \/ Microstep \/ EventDone
  PROVE  TypeInv'
<1> USE DEF machine, loop, work, clients, control
<1>1. MachineTypes /\ QueueTypes /\ RestTypes /\ RoundOK
  BY DEF TypeInv, TypeOK, MachineTypes, QueueTypes, RestTypes
<1>2. SUFFICES MachineTypes' /\ QueueTypes' /\ RestTypes' /\ RoundOK'
  BY DEF TypeInv, TypeOK, MachineTypes, QueueTypes, RestTypes
<1>3. 0 \in 0 .. MaxMicrosteps
  BY TickAssumption
<1>4. CASE BeginTick
  <2>1. MachineTypes'
    BY <1>1, <1>4 DEF BeginTick, MachineTypes, RegionsTogether
  <2>2. QueueTypes'
    BY <1>1, <1>4, FS_EmptySet, TickAssumption DEF BeginTick, QueueTypes
  <2>3. RestTypes'
    BY <1>1, <1>3, <1>4 DEF BeginTick, RestTypes, QueueTypes
  <2>4. RoundOK'
    BY <1>4 DEF BeginTick, RoundOK
  <2> QED BY <2>1, <2>2, <2>3, <2>4
<1>5. CASE ProcessEvent
  <2>1. PICK m \in pending : IsNext(m) /\ pending' = pending \ {m} /\ handled' = handled \cup {m}
    BY <1>5 DEF ProcessEvent
  <2>2. m.event \in Event /\ m.ticket \in 0 .. MaxSends /\ m \in EventWithMeta
    BY <1>1 DEF RestTypes, EventWithMeta
  <2>3. MachineTypes' /\ QueueTypes' /\ at' \in {at, "micro"}
    <3>1. ASSUME UNCHANGED <<machine, at, batch, internal, seq>>
          PROVE  MachineTypes' /\ QueueTypes' /\ at' \in {at, "micro"}
      BY <1>1, <3>1 DEF MachineTypes, QueueTypes, RegionsTogether
    <3>2. ASSUME NEW n, NEW ok, NEW t \in PickTransitionHierarchical(current, n, ok),
                 Execute(t, FALSE), at' = "micro"
          PROVE  MachineTypes' /\ QueueTypes' /\ at' \in {at, "micro"}
      <4>1. t \in Transition
        BY <1>1, PickedTransition DEF MachineTypes
      <4> QED BY <3>2, <4>1, ExecuteTypes
    <3> QED BY <1>5, <3>1, <3>2 DEF ProcessEvent
  <2>4. RestTypes'
    BY <1>1, <1>3, <1>5, <2>1, <2>2, <2>3 DEF ProcessEvent, RestTypes
  <2>5. RoundOK'
    BY <1>1, <1>5, <2>3 DEF ProcessEvent, RoundOK
  <2> QED BY <2>3, <2>4, <2>5
<1>6. CASE Microstep
  <2>1. MachineTypes' /\ QueueTypes'
    BY <1>1, <1>6, PickedTransition, ExecuteTypes DEF Microstep, MachineTypes
  <2>2. round' \in 0 .. MaxMicrosteps
    BY <1>1, <1>6, TickAssumption DEF Microstep, RestTypes
  <2>3. RestTypes'
    BY <1>1, <1>6, <2>2 DEF Microstep, RestTypes
  <2>4. RoundOK'
    BY <1>1, <1>6 DEF Microstep, RoundOK
  <2> QED BY <2>1, <2>3, <2>4
<1>7. CASE EventDone
  BY <1>1, <1>7 DEF EventDone, MachineTypes, RegionsTogether, QueueTypes, RestTypes, RoundOK
<1> QED BY <1>4, <1>5, <1>6, <1>7

\* The macrostep's steps that execute nothing keep the types.
LEMMA LoopTypes ==
  ASSUME TypeInv,
         BeginMacrostep \/ BeginRegions \/ TakeInternal \/ QueueEmpty \/ EndMacrostep
  PROVE  TypeInv'
<1> USE DEF machine, loop, work, clients, control
<1>1. MachineTypes /\ QueueTypes /\ RestTypes /\ RoundOK
  BY DEF TypeInv, TypeOK, MachineTypes, QueueTypes, RestTypes
<1>2. SUFFICES MachineTypes' /\ QueueTypes' /\ RestTypes' /\ RoundOK'
  BY DEF TypeInv, TypeOK, MachineTypes, QueueTypes, RestTypes
<1>3. 0 \in 0 .. MaxMicrosteps
  BY TickAssumption
<1>4. UNCHANGED <<machine, batch, seq>>
  BY DEF BeginMacrostep, BeginRegions, TakeInternal, QueueEmpty, EndMacrostep
<1>5. MachineTypes'
  BY <1>1, <1>4 DEF MachineTypes, RegionsTogether
<1>6. CASE TakeInternal
  <2>1. Head(internal) \in Submission /\ Tail(internal) \in Seq(Submission)
    BY <1>1, <1>6 DEF TakeInternal, QueueTypes
  <2>2. QueueTypes'
    BY <1>1, <1>4, <1>6, <2>1 DEF TakeInternal, QueueTypes
  <2>3. RestTypes'
    BY <1>1, <1>6, <2>1 DEF TakeInternal, RestTypes, Submission
  <2>4. RoundOK'
    BY <1>1, <1>6 DEF TakeInternal, RoundOK
  <2> QED BY <1>5, <2>2, <2>3, <2>4
<1>7. ASSUME UNCHANGED internal PROVE QueueTypes'
  BY <1>1, <1>4, <1>7 DEF QueueTypes
<1>8. CASE BeginMacrostep
  BY <1>1, <1>3, <1>5, <1>7, <1>8 DEF BeginMacrostep, RestTypes, RoundOK
<1>9. CASE BeginRegions
  BY <1>1, <1>3, <1>5, <1>7, <1>9 DEF BeginRegions, RestTypes, RoundOK
<1>10. CASE QueueEmpty
  BY <1>1, <1>5, <1>7, <1>10 DEF QueueEmpty, RestTypes, RoundOK
<1>11. CASE EndMacrostep
  BY <1>1, <1>5, <1>7, <1>11 DEF EndMacrostep, Completed, RestTypes, RoundOK
<1> QED BY <1>6, <1>8, <1>9, <1>10, <1>11

\* The embedded runtime's steps within a macrostep keep the types.
LEMMA MacrostepTypes ==
  ASSUME TypeInv, Dispatch \/ Eventless
  PROVE  TypeInv'
<1> USE DEF machine, loop, work, clients, control
<1>1. MachineTypes /\ QueueTypes /\ RestTypes /\ RoundOK
  BY DEF TypeInv, TypeOK, MachineTypes, QueueTypes, RestTypes
<1>2. SUFFICES MachineTypes' /\ QueueTypes' /\ RestTypes' /\ RoundOK'
  BY DEF TypeInv, TypeOK, MachineTypes, QueueTypes, RestTypes
<1>3. ASSUME UNCHANGED <<machine, batch, internal, seq>>
      PROVE  MachineTypes' /\ QueueTypes'
  BY <1>1, <1>3 DEF MachineTypes, QueueTypes, RegionsTogether
<1>4. ASSUME NEW ok, NEW e, NEW t \in PickTransitionHierarchical(current, e, ok),
             NEW eventless \in BOOLEAN, Execute(t, eventless)
      PROVE  MachineTypes' /\ QueueTypes'
  <2>1. t \in Transition
    BY <1>1, PickedTransition DEF MachineTypes
  <2> QED BY <1>4, <2>1, ExecuteTypes
<1>5. CASE Dispatch
  <2>1. round + 1 \in 0 .. MaxMicrosteps /\ round < MaxMicrosteps
    BY <1>1, <1>5, TickAssumption DEF Dispatch, RestTypes, RoundOK
  <2>2. MachineTypes' /\ QueueTypes'
    BY <1>3, <1>4, <1>5 DEF Dispatch, Stuck
  <2>3. RouteToRegions \/ (at' = "stuck" /\ UNCHANGED <<round, work>>)
    BY <1>5 DEF Dispatch, Stuck
  <2>4. UNCHANGED <<stage, clients, handled, control, pending>>
    BY <1>5 DEF Dispatch
  <2>5. RestTypes'
    BY <1>1, <2>1, <2>3, <2>4 DEF RestTypes, RouteToRegions
  <2>6. RoundOK'
    <3>1. CASE at' = "deliver"
      <4>1. \A r \in Regions : region'[r] \in State
        BY <2>2, <2>3, <3>1 DEF RouteToRegions, MachineTypes, RegionsTogether
      <4>2. round' = round
        BY <2>3, <3>1 DEF RouteToRegions
      <4>3. life' \notin {"new", "exited"}
        BY <1>1, <1>5, <2>4 DEF Dispatch, RoundOK
      <4> QED BY <2>1, <3>1, <4>1, <4>2, <4>3 DEF RoundOK
    <3>2. CASE at' # "deliver"
      BY <1>1, <1>5, <2>3, <2>4, <3>2 DEF Dispatch, RouteToRegions, RoundOK
    <3> QED BY <3>1, <3>2
  <2> QED BY <2>2, <2>5, <2>6
<1>6. CASE Eventless
  <2>1. round + 1 \in 0 .. MaxMicrosteps
    BY <1>1, <1>6, TickAssumption DEF Eventless, RestTypes, RoundOK
  <2>2. MachineTypes' /\ QueueTypes'
    BY <1>3, <1>4, <1>6 DEF Eventless, Stuck
  <2>3. /\ \/ at' = "stuck" /\ UNCHANGED round
           \/ at' = "loop" /\ round' = round + 1
        /\ UNCHANGED <<stage, work, clients, handled, control, pending>>
    BY <1>6 DEF Eventless, Stuck
  <2>4. RestTypes'
    BY <1>1, <2>1, <2>3 DEF RestTypes
  <2>5. RoundOK'
    BY <1>1, <1>6, <2>3 DEF Eventless, RoundOK
  <2> QED BY <2>2, <2>4, <2>5
<1> QED BY <1>5, <1>6

\* The regions' steps keep the types.
LEMMA RegionTypes ==
  ASSUME TypeInv, Deliver \/ RegionEventless
  PROVE  TypeInv'
<1> USE DEF machine, loop, work, clients, control
<1>1. MachineTypes /\ QueueTypes /\ RestTypes /\ RoundOK
  BY DEF TypeInv, TypeOK, MachineTypes, QueueTypes, RestTypes
<1>2. SUFFICES MachineTypes' /\ QueueTypes' /\ RestTypes' /\ RoundOK'
  BY DEF TypeInv, TypeOK, MachineTypes, QueueTypes, RestTypes
<1>3. ASSUME UNCHANGED <<machine, batch, internal, seq>>
      PROVE  MachineTypes' /\ QueueTypes'
  BY <1>1, <1>3 DEF MachineTypes, QueueTypes, RegionsTogether
<1>4. ASSUME \A q \in Regions : region[q] \in State, NEW r \in Regions, NEW e, NEW ok,
             NEW t \in RegionTransition(r, e, ok), ExecuteInRegion(r, t)
      PROVE  MachineTypes' /\ QueueTypes' /\ \A q \in Regions : region'[q] \in State
  <2>1. t \in Transition
    BY <1>4, RegionTransitionOfChart
  <2> QED BY <1>4, <2>1, ExecuteInRegionTypes
<1>5. round + 1 \in 0 .. MaxMicrosteps /\ round < MaxMicrosteps
  BY <1>1, TickAssumption DEF Deliver, RegionEventless, RestTypes, RoundOK
<1>6. CASE Deliver
  <2>1. \A q \in Regions : region[q] \in State
    BY <1>1, <1>6 DEF Deliver, RoundOK
  <2>2. PICK r \in todo, ok \in SUBSET Guard :
          /\ todo' = todo \ {r}
          /\ \/ UNCHANGED <<machine, batch, internal, seq>>
             \/ \E t \in RegionTransition(r, inHand, ok) : ExecuteInRegion(r, t)
    BY <1>6 DEF Deliver
  <2>3. MachineTypes' /\ QueueTypes' /\ \A q \in Regions : region'[q] \in State
    BY <1>1, <1>3, <1>4, <2>1, <2>2 DEF RestTypes
  <2>4. /\ \/ at' = "loop" /\ round' = round + 1 /\ inHand' = NoEvent
           \/ UNCHANGED <<at, round, inHand>>
        /\ UNCHANGED <<stage, clients, handled, control, pending>>
    BY <1>6 DEF Deliver
  <2>5. RestTypes'
    BY <1>1, <1>5, <2>2, <2>4 DEF RestTypes
  <2>6. RoundOK'
    BY <1>1, <1>5, <1>6, <2>3, <2>4 DEF Deliver, RoundOK
  <2> QED BY <2>3, <2>5, <2>6
<1>7. CASE RegionEventless
  <2>1. PICK r \in OpenRegions, again \in SUBSET Guard :
          \/ UNCHANGED <<machine, batch, internal, seq>>
          \/ \E t \in RegionTransition(r, NoEvent, again) : ExecuteInRegion(r, t)
    BY <1>7 DEF RegionEventless
  <2>2. r \in Regions /\ \A q \in Regions : region[q] \in State
    BY <1>1 DEF OpenRegions, MachineTypes, RegionsTogether
  <2>3. MachineTypes' /\ QueueTypes'
    BY <1>3, <1>4, <2>1, <2>2
  <2>4. RestTypes' /\ RoundOK'
    BY <1>1, <1>5, <1>7 DEF RegionEventless, RestTypes, RoundOK
  <2> QED BY <2>3, <2>4
<1> QED BY <1>6, <1>7

\* TypeInv is inductive.
LEMMA NextTypeInv == TypeInv /\ [Next]_vars => TypeInv'
<1> SUFFICES ASSUME TypeInv, [Next]_vars PROVE TypeInv'
  OBVIOUS
<1>1. CASE UNCHANGED vars
  BY <1>1 DEF vars, machine, loop, work, clients, control, TypeInv, TypeOK,
     RegionsTogether, RoundOK
<1>2. CASE Tick
  BY <1>2, BatchTypes, LoopTypes, MacrostepTypes, RegionTypes DEF Tick, Macrostep
<1> QED BY <1>1, <1>2, LifecycleTypes, ClientsTypes DEF Next

\* TypeInv holds throughout.
LEMMA TypeInvCorrect == Spec => []TypeInv
BY InitTypeInv, NextTypeInv, PTL DEF Spec

\* Every reachable state is well typed; in particular the batch never outgrows
\* MaxEventsPerTick, whoever appends to it.
THEOREM TickTypeCorrect == Spec => []TypeOK
<1>1. TypeInv => TypeOK
  BY DEF TypeInv
<1> QED BY <1>1, TypeInvCorrect, PTL

-----------------------------------------------------------------------------
(***************************************************************************)
(* The order of the batched events.                                        *)
(***************************************************************************)
Accepted == Waiting \cup handled

\* The sequence numbers name the accepted events; what is in the batch came
\* after what this tick collected and what was processed, and what is left of
\* this tick's events comes after the processed ones of its priority.
SeqInv ==
  /\ \A m \in Accepted : m.seq < seq
  /\ \A i \in 0 .. (seq - 1) : \E m \in Accepted : m.seq = i
  /\ \A m, n \in Accepted : m.seq = n.seq => m = n
  /\ \A m \in batch : \A n \in pending \cup handled : n.seq < m.seq
  /\ \A m \in handled : \A n \in pending : m # n /\ (m.prio = n.prio => m.seq < n.seq)

\* All the collected events are processed before the tick goes on.
OrderInv == SeqInv /\ (at \notin {"events", "micro"} => pending = {})

\* At most one event is accepted by a step, under the next sequence number.
AcceptStep ==
  \/ UNCHANGED <<batch, seq>>
  \/ \E m \in EventWithMeta :
       m.seq = seq /\ batch' = batch \cup {m} /\ seq' = seq + 1

\* At most one is processed, the next in order.
HandleStep ==
  \/ UNCHANGED <<pending, handled>>
  \/ \E m \in pending :
       IsNext(m) /\ pending' = pending \ {m} /\ handled' = handled \cup {m}

\* What Enqueue does to the batch.
LEMMA EnqueueAccepts ==
  ASSUME TypeInv, NEW e \in Event, NEW p \in Priority \cup {0},
         NEW ticket \in 0 .. MaxSends, Enqueue(e, p, ticket) \/ Rejected
  PROVE  AcceptStep
<1>1. CASE Rejected
  BY <1>1 DEF Rejected, AcceptStep
<1>2. CASE Enqueue(e, p, ticket)
  <2> DEFINE m == [event |-> e, prio |-> p, seq |-> seq, ticket |-> ticket]
  <2>1. m \in EventWithMeta /\ m.seq = seq
    BY DEF EventWithMeta, TypeInv, TypeOK
  <2>2. batch' = batch \cup {m} /\ seq' = seq + 1
    BY <1>2 DEF Enqueue
  <2> QED BY <2>1, <2>2 DEF AcceptStep
<1> QED BY <1>1, <1>2

\* A transition's action sends at most one event.
LEMMA RaiseAccepts ==
  ASSUME TypeInv, NEW e \in Event \cup {NoEvent}, Raise(e)
  PROVE  AcceptStep
<1>0. 0 \in 0 .. MaxSends /\ 0 \in Priority \cup {0}
  BY TickAssumption
<1>1. CASE e = NoEvent
  BY <1>1 DEF Raise, AcceptStep
<1>3. CASE e # NoEvent /\ InMacrostep
  BY <1>3 DEF Raise, AcceptStep
<1>2. CASE e # NoEvent /\ ~InMacrostep
  <2>1. Enqueue(e, 0, 0) \/ Rejected
    BY <1>2 DEF Raise
  <2> QED BY <1>0, <1>2, <2>1, EnqueueAccepts
<1> QED BY <1>1, <1>2, <1>3

\* So does a transition of the embedded runtime,
LEMMA ExecuteAccepts ==
  ASSUME TypeInv, NEW e, NEW ok, NEW t \in PickTransitionHierarchical(current, e, ok),
         NEW eventless \in BOOLEAN, Execute(t, eventless)
  PROVE  AcceptStep
<1>1. current \in State
  BY DEF TypeInv, TypeOK
<1>2. t.raise \in Event \cup {NoEvent}
  BY <1>1, PickedTransition DEF Transition
<1> QED BY <1>2, RaiseAccepts DEF Execute

\* and one of a region.
LEMMA ExecuteInRegionAccepts ==
  ASSUME TypeInv, NEW r \in Regions, region[r] \in State, NEW e, NEW ok,
         NEW t \in RegionTransition(r, e, ok), ExecuteInRegion(r, t)
  PROVE  AcceptStep
<1>1. t.raise \in Event \cup {NoEvent}
  BY RegionTransitionOfChart DEF Transition
<1> QED BY <1>1, RaiseAccepts DEF ExecuteInRegion

\* Accepting and processing keep the order, also when one step does both.
LEMMA StepKeepsOrder ==
  ASSUME TypeInv, SeqInv, AcceptStep, HandleStep
  PROVE  SeqInv'
<1>1. /\ seq \in Nat
      /\ batch \subseteq EventWithMeta /\ pending \subseteq EventWithMeta
      /\ handled \subseteq EventWithMeta
  BY DEF TypeInv, TypeOK
<1>2. Priority \cup {0} \subseteq Int
  BY TickAssumption
<1>3. \A m \in EventWithMeta : m.seq \in Nat /\ m.prio \in Int
  BY <1>2 DEF EventWithMeta
<1>4. pending' \cup handled' = pending \cup handled
  BY DEF HandleStep
<1>5. \A m \in handled' : \A n \in pending' : m # n /\ (m.prio = n.prio => m.seq < n.seq)
  <2>1. CASE UNCHANGED <<pending, handled>>
    BY <2>1 DEF SeqInv
  <2>2. ASSUME NEW x \in pending, IsNext(x), pending' = pending \ {x},
               handled' = handled \cup {x}
        PROVE  \A m \in handled' : \A n \in pending' : m # n /\ (m.prio = n.prio => m.seq < n.seq)
    <3>1. \A n \in pending' : x # n /\ (x.prio = n.prio => x.seq < n.seq)
      BY <1>1, <1>3, <2>2 DEF IsNext, SortsBefore
    <3> QED BY <2>2, <3>1 DEF SeqInv
  <2> QED BY <2>1, <2>2 DEF HandleStep
<1>6. CASE UNCHANGED <<batch, seq>>
  <2>1. Accepted' = Accepted
    BY <1>4, <1>6 DEF Accepted, Waiting
  <2> QED BY <1>4, <1>5, <1>6, <2>1 DEF SeqInv
<1>7. ASSUME NEW x \in EventWithMeta, x.seq = seq, batch' = batch \cup {x}, seq' = seq + 1
      PROVE  SeqInv'
  <2>1. Accepted' = Accepted \cup {x}
    BY <1>4, <1>7 DEF Accepted, Waiting
  <2>2. \A m \in Accepted : m.seq \in Nat /\ m.seq < seq
    BY <1>1, <1>3 DEF SeqInv, Accepted, Waiting
  <2>3. \A m \in Accepted' : m.seq < seq'
    BY <1>1, <1>7, <2>1, <2>2
  <2>4. \A i \in 0 .. (seq' - 1) : \E m \in Accepted' : m.seq = i
    <3>1. \A i \in 0 .. (seq' - 1) : i \in 0 .. (seq - 1) \/ i = seq
      BY <1>1, <1>7
    <3> QED BY <1>7, <2>1, <3>1 DEF SeqInv
  <2>5. \A m, n \in Accepted' : m.seq = n.seq => m = n
    BY <1>1, <1>7, <2>1, <2>2 DEF SeqInv
  <2>6. \A m \in batch' : \A n \in pending' \cup handled' : n.seq < m.seq
    BY <1>4, <1>7, <2>2 DEF SeqInv, Accepted, Waiting
  <2> QED BY <1>5, <2>3, <2>4, <2>5, <2>6 DEF SeqInv
<1> QED BY <1>6, <1>7 DEF AcceptStep

\* A tick that begins takes the whole batch, after which the order is the same.
LEMMA BeginTickKeepsOrder ==
  ASSUME TypeInv, OrderInv, BeginTick
  PROVE  OrderInv'
<1>1. pending = {} /\ pending' = batch /\ batch' = {} /\ UNCHANGED <<handled, seq>> /\ at' = "events"
  BY DEF OrderInv, BeginTick
<1>2. Accepted' = Accepted
  BY <1>1 DEF Accepted, Waiting
<1>3. \A m \in handled' : \A n \in pending' : m # n /\ (m.prio = n.prio => m.seq < n.seq)
  <2>1. \A m \in handled : \A n \in batch : m.seq < n.seq
    BY DEF OrderInv, SeqInv
  <2>2. \A m \in handled : \A n \in batch : m # n
    BY <2>1 DEF TypeInv, TypeOK, EventWithMeta
  <2> QED BY <1>1, <2>1, <2>2
<1> QED BY <1>1, <1>2, <1>3 DEF OrderInv, SeqInv

\* The clients' steps.
LEMMA ClientsKeepOrder ==
  ASSUME TypeInv, OrderInv, Clients
  PROVE  OrderInv'
<1> USE DEF machine, loop, work, clients, control
<1>1. UNCHANGED <<at, pending, handled>>
  BY DEF Clients, SendEvent, SendEventWithPriority, AppendToBatch
<1>2. AcceptStep
  <2>1. ASSUME NEW e \in Event, SendEvent(e) PROVE AcceptStep
    BY <2>1 DEF SendEvent, AcceptStep
  <2>2. ASSUME NEW e \in Event, NEW p \in Priority, SendEventWithPriority(e, p)
        PROVE  AcceptStep
    <3>1. sent + 1 \in 0 .. MaxSends
      BY <2>2, TickAssumption DEF SendEventWithPriority, TypeInv, TypeOK
    <3> QED BY <2>2, <3>1, EnqueueAccepts DEF SendEventWithPriority
  <2>3. ASSUME NEW m \in routed, AppendToBatch(m) PROVE AcceptStep
    <3>1. m.event \in Event /\ m.ticket \in 0 .. MaxSends /\ 0 \in Priority \cup {0}
      BY DEF TypeInv, TypeOK, Submission
    <3> QED BY <2>3, <3>1, EnqueueAccepts DEF AppendToBatch
  <2> QED BY <2>1, <2>2, <2>3 DEF Clients
<1> QED BY <1>1, <1>2, StepKeepsOrder DEF OrderInv, HandleStep

\* Processing the batch.
LEMMA ProcessKeepsOrder ==
  ASSUME TypeInv, OrderInv, ProcessEvent \/ Microstep
  PROVE  OrderInv'
<1> USE DEF machine, loop, work, clients, control
<1>1. CASE ProcessEvent
  <2>1. HandleStep
    BY <1>1 DEF ProcessEvent, HandleStep
  <2>2. AcceptStep /\ at' \in {"events", "micro"}
    <3>1. ASSUME UNCHANGED <<machine, at, batch, internal, seq>>
          PROVE  AcceptStep /\ at' \in {"events", "micro"}
      BY <1>1, <3>1 DEF AcceptStep, ProcessEvent
    <3>2. ASSUME NEW n, NEW ok, NEW t \in PickTransitionHierarchical(current, n, ok),
                 Execute(t, FALSE), at' = "micro"
          PROVE  AcceptStep /\ at' \in {"events", "micro"}
      BY <3>2, ExecuteAccepts
    <3> QED BY <1>1, <3>1, <3>2 DEF ProcessEvent
  <2> QED BY <2>1, <2>2, StepKeepsOrder DEF OrderInv
<1>2. CASE Microstep
  <2>1. HandleStep /\ at' = "micro"
    BY <1>2 DEF Microstep, HandleStep
  <2>2. AcceptStep
    BY <1>2, ExecuteAccepts DEF Microstep
  <2> QED BY <2>1, <2>2, StepKeepsOrder DEF OrderInv
<1> QED BY <1>1, <1>2

\* The steps that touch neither the batch nor the events collected from it.
LEMMA LoopKeepsOrder ==
  ASSUME TypeInv, OrderInv,
         \/ EventDone \/ BeginMacrostep \/ BeginRegions \/ TakeInternal \/ QueueEmpty
         \/ EndMacrostep \/ Lifecycle \/ UNCHANGED vars
  PROVE  OrderInv'
<1> USE DEF machine, loop, work, clients, control
<1>1. UNCHANGED <<batch, seq, pending, handled>>
  BY DEF EventDone, BeginMacrostep, BeginRegions, TakeInternal, QueueEmpty, EndMacrostep,
     Lifecycle, Start, StartEntryFails, CancelParent, CallStop, LoopExits, StopReturns, vars
<1>2. SeqInv'
  BY <1>1, StepKeepsOrder DEF AcceptStep, HandleStep, OrderInv
<1>3. at' \notin {"events", "micro"} => pending = {}
  BY DEF OrderInv, EventDone, BeginMacrostep, BeginRegions, TakeInternal, QueueEmpty,
     EndMacrostep, Completed, Lifecycle, Start, StartEntryFails, CancelParent, CallStop,
     LoopExits, StopReturns, vars, TypeInv, RoundOK
<1> QED BY <1>1, <1>2, <1>3 DEF OrderInv

\* Within a macrostep actions may only send to the internal queue, but that is
\* not needed here.
LEMMA MacrostepKeepsOrder ==
  ASSUME TypeInv, OrderInv, Dispatch \/ Eventless \/ Deliver \/ RegionEventless
  PROVE  OrderInv'
<1> USE DEF machine, loop, work, clients, control
<1>1. HandleStep /\ pending' = pending
  BY DEF Dispatch, Eventless, Deliver, RegionEventless, HandleStep
<1>2. at \notin {"events", "micro"}
  BY DEF Dispatch, Eventless, Deliver, RegionEventless
<1>3. ASSUME UNCHANGED <<machine, batch, internal, seq>> PROVE AcceptStep
  BY <1>3 DEF AcceptStep
<1>4. ASSUME Dispatch \/ Eventless PROVE AcceptStep
  BY <1>3, <1>4, ExecuteAccepts DEF Dispatch, Eventless, Stuck
<1>5. ASSUME Deliver PROVE AcceptStep
  <2>1. PICK r \in Regions, ok \in SUBSET Guard :
          \/ UNCHANGED <<machine, batch, internal, seq>>
          \/ \E t \in RegionTransition(r, inHand, ok) : ExecuteInRegion(r, t)
    BY <1>5 DEF Deliver, TypeInv, TypeOK
  <2>2. region[r] \in State
    BY <1>5 DEF Deliver, TypeInv, RoundOK
  <2> QED BY <1>3, <2>1, <2>2, ExecuteInRegionAccepts
<1>6. ASSUME RegionEventless PROVE AcceptStep
  <2>1. PICK r \in OpenRegions, again \in SUBSET Guard :
          \/ UNCHANGED <<machine, batch, internal, seq>>
          \/ \E t \in RegionTransition(r, NoEvent, again) : ExecuteInRegion(r, t)
    BY <1>6 DEF RegionEventless
  <2>2. r \in Regions /\ region[r] \in State
    BY DEF OpenRegions, TypeInv, TypeOK
  <2> QED BY <1>3, <2>1, <2>2, ExecuteInRegionAccepts
<1> QED BY <1>1, <1>2, <1>4, <1>5, <1>6, StepKeepsOrder DEF OrderInv

\* OrderInv holds throughout.
LEMMA OrderInvCorrect == Spec => []OrderInv
<1>1. Init => OrderInv
  BY DEF Init, OrderInv, SeqInv, Accepted, Waiting
<1>2. TypeInv /\ OrderInv /\ [Next]_vars => OrderInv'
  BY BeginTickKeepsOrder, ClientsKeepOrder, ProcessKeepsOrder, LoopKeepsOrder,
     MacrostepKeepsOrder
  DEF Next, Tick, Macrostep
<1> QED BY <1>1, <1>2, TypeInvCorrect, PTL DEF Spec

\* Every event the batch accepted is waiting or has been processed, once,
\* whatever the ticks and the senders' interleaving, the batch's capacity and
\* the priorities.
THEOREM HandledOnceCorrect == Spec => []HandledOnce
<1>1. TypeInv /\ OrderInv => HandledOnce
  <2> SUFFICES ASSUME TypeInv, OrderInv PROVE HandledOnce
    OBVIOUS
  <2>1. \A m \in Accepted : m.seq \in Nat
    BY DEF TypeInv, TypeOK, EventWithMeta, Accepted, Waiting
  <2>2. \A m \in Accepted : m.seq \in 0 .. (seq - 1)
    BY <2>1 DEF TypeInv, TypeOK, OrderInv, SeqInv
  <2>3. {m.seq : m \in Accepted} = 0 .. (seq - 1)
    BY <2>2 DEF OrderInv, SeqInv
  <2>4. \A m, n \in Accepted : m.seq = n.seq => m = n
    BY DEF OrderInv, SeqInv
  <2>5. batch \cap handled = {}
    BY <2>1 DEF OrderInv, SeqInv, Accepted, Waiting
  <2>6. pending \cap handled = {}
    BY DEF OrderInv, SeqInv
  <2> QED BY <2>3, <2>4, <2>5, <2>6 DEF HandledOnce, Accepted, Waiting
<1> QED BY <1>1, TypeInvCorrect, OrderInvCorrect, PTL

\* Events of one priority are processed in the order in which the batch
\* accepted them, within a tick and across ticks.
THEOREM BatchOrderCorrect == Spec => []BatchOrder
<1>1. OrderInv => BatchOrder
  BY DEF OrderInv, SeqInv, BatchOrder, Waiting
<1> QED BY <1>1, OrderInvCorrect, PTL

-----------------------------------------------------------------------------
(***************************************************************************)
(* Run to completion.                                                      *)
(***************************************************************************)

\* No unguarded eventless transition is left to take,
NothingEventless ==
  \A s \in Ancestors(current) \cup {region[r] : r \in OpenRegions} :
    \A i \in DOMAIN Transitions[s] :
      ~ (Transitions[s][i].event = NoEvent /\ Transitions[s][i].guard = NoGuard)

\* and no event an action raised during a macrostep.
NothingRaised == \A i \in DOMAIN internal : internal[i].ticket # 0

\* A macrostep that ended below the bound left nothing, and neither the rest
\* of the tick nor the pause until the next one changes that.
CompletedInv ==
  /\ life = "new" => stage = "none"
  /\ at = "quiet" => NothingRaised
  /\ (at \in {"idle", "between"} /\ stage \in {"macro", "regions"} /\ round < MaxMicrosteps)
       => NothingEventless /\ NothingRaised

\* A macrostep asks the whole path of rt.current and every region.
LEMMA EndMacrostepCompletes ==
  ASSUME TypeInv, CompletedInv, EndMacrostep
  PROVE  CompletedInv'
<1> USE DEF machine, loop, work, clients, control
<1>1. UNCHANGED <<current, region, internal, stage, round>> /\ at' \in {"idle", "between"}
  BY DEF EndMacrostep
<1>2. life' # "new"
  BY DEF EndMacrostep, Completed, TypeInv, RoundOK
<1>3. ASSUME NEW ok, NoneEventless(ok),
             \A r \in OpenRegions : RegionMatches(r, NoEvent, ok) = {}
      PROVE  NothingEventless
  <2>1. \A a \in Ancestors(current) : Matches(a, NoEvent, ok) = {}
    BY <1>3, NothingPicked DEF NoneEventless, TypeInv, TypeOK
  <2>2. \A a \in Ancestors(current) : \A i \in DOMAIN Transitions[a] :
          ~ (Transitions[a][i].event = NoEvent /\ Transitions[a][i].guard = NoGuard)
    BY <2>1 DEF Matches, ExactMatches, Passes
  <2>3. \A r \in OpenRegions : \A i \in DOMAIN Transitions[region[r]] :
          ~ (Transitions[region[r]][i].event = NoEvent /\ Transitions[region[r]][i].guard = NoGuard)
    BY <1>3 DEF RegionMatches, Passes
  <2> QED BY <2>2, <2>3 DEF NothingEventless
<1>4. round < MaxMicrosteps => at = "quiet" /\ NothingEventless
  BY <1>3 DEF EndMacrostep, Completed, TypeInv, TypeOK
<1>5. NothingEventless' = NothingEventless /\ NothingRaised' = NothingRaised
  BY <1>1 DEF NothingEventless, NothingRaised, OpenRegions
<1> QED BY <1>1, <1>2, <1>4, <1>5 DEF CompletedInv

\* Outside the tick: a client's event has a ticket, an event sent between two
\* macrosteps goes to the batch, and Stop only takes regions away.
LEMMA OutsideCompletes ==
  ASSUME TypeInv, CompletedInv, Lifecycle \/ Clients
  PROVE  CompletedInv'
<1> USE DEF machine, loop, work, clients, control
<1>1. ASSUME UNCHANGED <<current, region, internal, at, stage, round>>,
             life' = "new" => life = "new"
      PROVE  CompletedInv'
  BY <1>1 DEF CompletedInv, NothingEventless, NothingRaised, OpenRegions
<1>2. CASE CancelParent \/ CallStop \/ LoopExits
  BY <1>1, <1>2 DEF CancelParent, CallStop, LoopExits
<1>3. CASE Start \/ StartEntryFails
  <2>1. stage' \in {"none", "start"} /\ at' # "quiet" /\ life' # "new"
    BY <1>3 DEF Start, StartEntryFails, CompletedInv, TypeInv, RoundOK
  <2> QED BY <2>1 DEF CompletedInv
<1>4. CASE StopReturns
  <2>1. /\ UNCHANGED <<current, internal, at, stage, round>>
        /\ life' # "new" /\ at # "quiet"
        /\ OpenRegions' \subseteq OpenRegions
        /\ \A r \in OpenRegions' : region'[r] = region[r]
    BY <1>4 DEF StopReturns, OpenRegions, TypeInv, RoundOK
  <2>2. NothingEventless => NothingEventless'
    BY <2>1 DEF NothingEventless
  <2>3. NothingRaised => NothingRaised'
    BY <2>1 DEF NothingRaised
  <2> QED BY <2>1, <2>2, <2>3 DEF CompletedInv
<1>5. ASSUME NEW e \in Event, SendEvent(e) PROVE CompletedInv'
  <2>1. CASE InMacrostep
    <3>1. /\ internal' = Append(internal, [event |-> e, ticket |-> sent + 1])
          /\ sent \in Nat /\ internal \in Seq(Submission)
      BY <1>5, <2>1 DEF SendEvent, TypeInv, TypeOK
    <3>2. NothingRaised => NothingRaised'
      BY <3>1 DEF NothingRaised
    <3>3. UNCHANGED <<at, stage, life>> /\ at \notin {"idle", "between"}
      BY <1>5, <2>1 DEF SendEvent, InMacrostep
    <3> QED BY <3>2, <3>3 DEF CompletedInv
  <2>2. CASE ~InMacrostep
    BY <1>1, <1>5, <2>2 DEF SendEvent
  <2> QED BY <2>1, <2>2
<1>6. ASSUME NEW e \in Event, NEW p \in Priority, SendEventWithPriority(e, p)
      PROVE  CompletedInv'
  BY <1>1, <1>6 DEF SendEventWithPriority
<1>7. ASSUME NEW m \in routed, AppendToBatch(m) PROVE CompletedInv'
  BY <1>1, <1>7 DEF AppendToBatch
<1> QED BY <1>2, <1>3, <1>4, <1>5, <1>6, <1>7 DEF Lifecycle, Clients

\* Within the tick.
LEMMA TickKeepsCompleted ==
  ASSUME TypeInv, CompletedInv, Tick
  PROVE  CompletedInv'
<1> USE DEF machine, loop, work, clients, control
<1>1. life' = "new" => FALSE
  BY DEF Tick, BeginTick, ProcessEvent, Microstep, EventDone, BeginMacrostep, BeginRegions,
     Macrostep, TakeInternal, Dispatch, Deliver, QueueEmpty, Eventless, RegionEventless,
     EndMacrostep, Completed, TypeInv, RoundOK
<1>2. CASE BeginTick \/ ProcessEvent \/ Microstep \/ EventDone \/ BeginMacrostep
  BY <1>1, <1>2 DEF BeginTick, ProcessEvent, Microstep, EventDone, BeginMacrostep,
     CompletedInv
<1>3. CASE TakeInternal \/ Dispatch \/ Deliver \/ Eventless \/ RegionEventless
  <2>1. at' \in {"dispatch", "deliver", "loop", "stuck"}
    BY <1>3 DEF TakeInternal, Dispatch, RouteToRegions, Deliver, Eventless,
       RegionEventless, Stuck
  <2> QED BY <1>1, <2>1 DEF CompletedInv
<1>4. CASE BeginRegions
  BY <1>1, <1>4 DEF BeginRegions, CompletedInv, NothingEventless, NothingRaised, OpenRegions
<1>5. CASE QueueEmpty
  BY <1>1, <1>5 DEF QueueEmpty, CompletedInv, NothingRaised
<1> QED BY <1>2, <1>3, <1>4, <1>5, EndMacrostepCompletes DEF Tick, Macrostep

\* When a tick ends below the bound on its rounds, neither an unguarded
\* eventless transition is left that the runtime or a region could take, nor
\* an event that an action raised during the macrostep.
THEOREM TickCompletesCorrect == Spec => []TickCompletes
<1>1. Init => CompletedInv
  BY DEF Init, CompletedInv
<1>2. TypeInv /\ CompletedInv /\ [Next]_vars => CompletedInv'
  <2>1. TypeInv /\ CompletedInv /\ UNCHANGED vars => CompletedInv'
    BY DEF vars, machine, loop, control, CompletedInv, NothingEventless, NothingRaised,
       OpenRegions
  <2> QED BY <2>1, OutsideCompletes, TickKeepsCompleted DEF Next
<1>3. CompletedInv => TickCompletes
  BY DEF CompletedInv, TickCompletes, Ended, NothingEventless, NothingRaised
<1> QED BY <1>1, <1>2, <1>3, TypeInvCorrect, PTL DEF Spec

-----------------------------------------------------------------------------
(***************************************************************************)
(* The configuration: the regions follow the parallel state, and nothing   *)
(* is left behind.                                                         *)
(***************************************************************************)

\* A state with something below it has a child.
LEMMA AboveHasChild ==
  ASSUME NEW s \in State, NEW a \in Ancestors(s), a # s
  PROVE  Children(a) # {}
<1> SUFFICES ASSUME Children(a) = {} PROVE FALSE
  OBVIOUS
<1> DEFINE U == Ancestors(s) \ {a}
<1>1. ClosedUnderParent(U)
  BY AncestorsClosed, AncestorsInState DEF ClosedUnderParent, Children
<1>2. Ancestors(s) \subseteq U
  BY <1>1, AncestorSelf, AncestorsInState, AncestorsLeast
<1> QED BY <1>2

\* What lies below the parallel state lies in one of its regions.
LEMMA RegionRoot ==
  ASSUME NEW p \in Parallel, NEW s \in State, p \in Ancestors(s), s # p
  PROVE  Ancestors(s) \cap Regions # {}
<1> DEFINE W == {u \in State : p \in Ancestors(u) /\ u # p /\ Ancestors(u) \cap Regions = {}}
<1>1. SUFFICES ASSUME s \in W PROVE FALSE
  OBVIOUS
<1>2. ClosedUnderParent(W)
  <2> SUFFICES ASSUME NEW w \in W, Parent[w] # NoState PROVE Parent[w] \in W
    BY DEF ClosedUnderParent
  <2>1. Parent[w] \in State /\ Ancestors(w) = {w} \cup Ancestors(Parent[w])
    BY TreeAssumption, AncestorsUnfold
  <2>2. Parent[w] # p
    BY AncestorSelf DEF Regions
  <2> QED BY <2>1, <2>2
<1>3. Ancestors(s) \subseteq W
  BY <1>1, <1>2, AncestorsLeast
<1> QED BY <1>3

\* Regions of one parallel state have nothing in common.
LEMMA RegionUnique ==
  ASSUME NEW s \in State, NEW q \in Regions \cap Ancestors(s), NEW r \in Regions \cap Ancestors(s)
  PROVE  q = r
<1> SUFFICES ASSUME q # r PROVE FALSE
  OBVIOUS
<1>1. Innermost({q, r}) \in {q, r} /\ {q, r} \subseteq Ancestors(Innermost({q, r}))
  BY InnermostExists
<1>2. Parent[q] = Parent[r] /\ Parent[q] # NoState /\ q \in State /\ r \in State
  BY OneParallelAssumption, InitialAssumption, TreeAssumption DEF Regions
<1>3. q \in Ancestors(Parent[r]) \/ r \in Ancestors(Parent[q])
  BY <1>1, <1>2, AncestorsUnfold
<1> QED BY <1>2, <1>3, TreeAssumption

\* The descent from a state outside the regions stays outside.
LEMMA DescentOutside ==
  ASSUME NEW s \in State, Ancestors(s) \cap Regions = {}
  PROVE  Ancestors(FindDeepestInitial(s)) \cap Regions = {}
<1> DEFINE U == {u \in State : Ancestors(u) \cap Regions = {}}
<1>1. ClosedUnderInitial(U)
  <2> SUFFICES ASSUME NEW u \in U, InitialChild(u) # NoState PROVE InitialChild(u) \in U
    BY DEF ClosedUnderInitial
  <2>1. /\ u \notin Parallel /\ InitialChild(u) \in State /\ Parent[InitialChild(u)] = u
    BY InitialAssumption DEF InitialChild
  <2>2. Ancestors(InitialChild(u)) = {InitialChild(u)} \cup Ancestors(u)
    BY <2>1, AncestorsUnfold
  <2> QED BY <2>1, <2>2 DEF Regions
<1> QED BY <1>1, DeepestInitialLeast

\* What the exit of a region in state s exits.
LEMMA RegionPathOf ==
  ASSUME NEW r \in Regions, NEW s \in State, r \in Ancestors(s)
  PROVE  /\ RegionPath(s) = Ancestors(s) \ Ancestors(Parent[r])
         /\ Parent[r] \in Ancestors(s) /\ Parent[r] # s /\ Parent[r] \in State
         /\ r \notin Ancestors(Parent[r])
         /\ s \notin Ancestors(Parent[r])
<1>1. r \in State /\ Parent[r] \in Parallel /\ Parent[r] \in State /\ Parallel = {Parent[r]}
  BY OneParallelAssumption, InitialAssumption DEF Regions
<1>2. r \notin Ancestors(Parent[r]) /\ Parent[r] \in Ancestors(r)
  BY <1>1, TreeAssumption, AncestorsUnfold, AncestorSelf
<1>3. Parent[r] \in Ancestors(s)
  BY <1>2, AncestorsTransitive
<1>4. s \notin Ancestors(Parent[r])
  BY <1>1, <1>2, AncestorsTransitive
<1>5. Parent[r] # s
  BY <1>1, <1>4, AncestorSelf
<1>6. Parallel \cap (Ancestors(s) \ {s}) = {Parent[r]}
  BY <1>1, <1>3, <1>5
<1> QED BY <1>1, <1>2, <1>3, <1>4, <1>5, <1>6 DEF RegionPath

\* What lies above a state of a region and outside the region is above the
\* parallel state.
LEMMA AboveRegion ==
  ASSUME NEW r \in Regions, NEW s \in State, r \in Ancestors(s),
         NEW x \in Ancestors(s), r \notin Ancestors(x)
  PROVE  x \in Ancestors(Parent[r])
<1>1. Innermost({x, r}) \in {x, r} /\ {x, r} \subseteq Ancestors(Innermost({x, r}))
  BY InnermostExists
<1>2. x \in Ancestors(r) /\ x # r
  BY <1>1
<1> QED BY <1>2, AncestorsUnfold DEF Regions

\* rt.current is outside the regions, and they exist when it is the parallel
\* state.
PlaceInv ==
  /\ Ancestors(current) \cap Regions = {}
  /\ \A r \in Regions :
       /\ region[r] # NoState <=> Parent[r] \in Ancestors(current)
       /\ region[r] # NoState => r \in Ancestors(region[r])

\* What is active leads to rt.current or to a region's state, which are active.
ActiveInv ==
  /\ active \subseteq Paths
  /\ {current} \cup {region[r] : r \in OpenRegions} \subseteq active

\* The descent ends at the parallel state.
LEMMA DeepestInitialParallel == \A p \in Parallel : FindDeepestInitial(p) = p
<1> SUFFICES ASSUME NEW p \in Parallel PROVE FindDeepestInitial(p) = p
  OBVIOUS
<1>1. p \in State /\ ClosedUnderInitial({p})
  BY InitialAssumption DEF ClosedUnderInitial, InitialChild
<1> QED BY <1>1, DeepestInitialLeast

\* While the parallel state is somewhere above rt.current it is rt.current.
LEMMA CurrentIsParallel ==
  ASSUME TypeInv, PlaceInv, NEW p \in Parallel, p \in Ancestors(current)
  PROVE  current = p
BY RegionRoot DEF TypeInv, TypeOK, PlaceInv

\* What is left of the active states when a state above none of the regions is
\* entered: what lies above the common ancestor.
LEMMA ExitLeaves ==
  ASSUME TypeInv, PlaceInv, ActiveInv, NEW to \in State,
         OpenRegions # {} => ExitsParallel(to)
  PROVE  active \ (Exited(to) \cup (IF ExitsParallel(to) THEN RegionExits ELSE {}))
           \subseteq Ancestors(to)
<1> DEFINE l == ComputeLCA(current, to)
<1>1. current \in State /\ region \in [Regions -> State \cup {NoState}]
  BY DEF TypeInv, TypeOK
<1>2. Ancestors(l) \subseteq Ancestors(to)
  BY <1>1, LCAAboveBoth
<1>3. SUFFICES ASSUME NEW x \in active, x \notin Exited(to),
                      ExitsParallel(to) => x \notin RegionExits
               PROVE  x \in Ancestors(l)
  BY <1>2
<1>4. CASE x \in Ancestors(current)
  BY <1>3, <1>4 DEF Exited
<1>5. ASSUME NEW r \in OpenRegions, x \in Ancestors(region[r]) PROVE x \in Ancestors(l)
  <2>1. r \in Regions /\ region[r] \in State /\ r \in Ancestors(region[r])
        /\ Parent[r] \in Ancestors(current)
    BY <1>1 DEF OpenRegions, PlaceInv
  <2>2. x \notin RegionPath(region[r])
    BY <1>3, <1>5 DEF RegionExits
  <2>3. x \in Ancestors(Parent[r])
    BY <1>5, <2>1, <2>2, RegionPathOf
  <2>4. x \in Ancestors(current)
    BY <1>1, <2>1, <2>3, AncestorsTransitive
  <2> QED BY <1>4, <2>4
<1> QED BY <1>4, <1>5 DEF ActiveInv

\* The embedded runtime goes to a state outside the parallel state.
LEMMA MoveOutside ==
  ASSUME TypeInv, PlaceInv, ActiveInv, NEW to \in State, NEW eventless \in BOOLEAN,
         Move(to, eventless), Ancestors(FindDeepestInitial(to)) \cap Parallel = {},
         eventless => FindDeepestInitial(to) = to
  PROVE  PlaceInv' /\ ActiveInv' /\ Paths' = Statechart!Complete(FindDeepestInitial(to))
<1> DEFINE g == FindDeepestInitial(to)
           l == ComputeLCA(current, to)
<1>1. /\ current \in State /\ region \in [Regions -> State \cup {NoState}]
      /\ g \in State /\ to \in Ancestors(g) /\ InitialChild(g) = NoState
  BY DeepestInitialBelow DEF TypeInv, TypeOK
<1>2. Ancestors(to) \subseteq Ancestors(g) /\ Ancestors(l) \subseteq Ancestors(to)
      /\ Ancestors(l) \subseteq Ancestors(current) /\ Ancestors(to) \cap Parallel = {}
  BY <1>1, AncestorsTransitive, LCAAboveBoth
<1>3. Entered(current, to) \cap Parallel = {}
  BY <1>2 DEF Entered
<1>4. EntryGoal(to) = g /\ EntryPath(to) = Ancestors(g) \ Ancestors(l)
  BY <1>3 DEF EntryGoal, EntryPath
<1>5. ~EntersParallel(to)
  BY <1>4 DEF EntersParallel
<1>6. current' = g
  BY <1>3, <1>4, <1>5 DEF Move, CurrentAfter
<1>7. ExitsParallel(to) <=> Ancestors(current) \cap Parallel # {}
  BY <1>2 DEF ExitsParallel, Exited
<1>8. \A r \in Regions : Parent[r] \in Parallel
  BY DEF Regions
<1>9. \A r \in Regions : region'[r] = NoState
  <2>1. CASE ExitsParallel(to)
    BY <1>5, <2>1 DEF Move, RegionsAfter
  <2>2. CASE ~ExitsParallel(to)
    <3>1. \A r \in Regions : region[r] = NoState
      BY <1>7, <1>8, <2>2 DEF PlaceInv
    <3> QED BY <1>5, <2>2, <3>1 DEF Move, RegionsAfter
  <2> QED BY <2>1, <2>2
<1>10. Ancestors(g) \cap Regions = {}
  <2> SUFFICES ASSUME NEW r \in Regions, r \in Ancestors(g) PROVE FALSE
    OBVIOUS
  <2>1. Parent[r] \in Ancestors(g)
    BY <1>1, RegionPathOf
  <2> QED BY <1>8, <2>1
<1>11. PlaceInv'
  BY <1>6, <1>8, <1>9, <1>10 DEF PlaceInv
<1>12. OpenRegions # {} => ExitsParallel(to)
  BY <1>7, <1>8 DEF OpenRegions, PlaceInv
<1>13. active' \subseteq Ancestors(g)
  <2>1. active' = (active \ (Exited(to) \cup (IF ExitsParallel(to) THEN RegionExits ELSE {})))
                    \cup EntryPath(to)
    BY <1>5 DEF Move
  <2> QED BY <1>2, <1>4, <1>12, <2>1, ExitLeaves
<1>14. g \notin Ancestors(l)
  <2> SUFFICES ASSUME g \in Ancestors(l) PROVE FALSE
    OBVIOUS
  <2>1. g \in Ancestors(to) /\ g \in Ancestors(current)
    BY <1>2
  <2>2. g = to
    BY <1>1, <2>1, AncestorsAntisymmetric
  <2>3. CASE current = to
    <3>1. to \in Ancestors(Parent[to])
      BY <2>2, <2>3 DEF ComputeLCA
    <3> QED BY <3>1, TreeAssumption, AncestorsNoState
  <2>4. CASE current # to
    <3>1. Children(to) # {}
      BY <1>1, <2>1, <2>2, <2>4, AboveHasChild
    <3>2. to \notin Parallel
      BY <1>2, AncestorSelf
    <3>3. Initial[to] # NoState
      BY <3>1, <3>2, InitialAssumption
    <3> QED BY <1>1, <2>2, <3>2, <3>3 DEF InitialChild
  <2> QED BY <2>3, <2>4
<1>15. g \in active'
  BY <1>1, <1>4, <1>14, AncestorSelf DEF Move
<1>16. OpenRegions' = {}
  BY <1>9 DEF OpenRegions
<1>17. ActiveInv'
  BY <1>6, <1>13, <1>15, <1>16 DEF ActiveInv
<1>18. Paths' = Ancestors(g)
  BY <1>6, <1>16
<1>19. {q \in Regions : Parent[q] = g} = {}
  <2>1. g \notin Parallel
    BY <1>1, AncestorSelf
  <2> QED BY <1>8, <2>1
<1>20. Paths' = Statechart!Complete(g)
  BY <1>18, <1>19 DEF Statechart!Complete
<1> QED BY <1>11, <1>17, <1>20

\* An eventless transition enters the parallel state, perhaps once more.
LEMMA MoveIntoParallel ==
  ASSUME TypeInv, PlaceInv, ActiveInv, NEW to \in Parallel, Move(to, TRUE),
         Ancestors(to) \cap Regions = {}
  PROVE  PlaceInv' /\ ActiveInv' /\ Paths' = Statechart!Complete(FindDeepestInitial(to))
<1> DEFINE l == ComputeLCA(current, to)
<1>1. /\ current \in State /\ region \in [Regions -> State \cup {NoState}] /\ to \in State
      /\ Parallel = {to} /\ \A r \in Regions : Parent[r] = to
  BY OneParallelAssumption, InitialAssumption DEF TypeInv, TypeOK, Regions
<1>2. current' = to
  BY DEF Move, CurrentAfter
<1>3. Ancestors(l) \subseteq Ancestors(to) /\ Ancestors(l) \subseteq Ancestors(current)
      /\ to \in Ancestors(to)
  BY <1>1, LCAAboveBoth, AncestorSelf
<1>4. to \notin Ancestors(l)
  <2>1. CASE current = to
    BY <1>1, <2>1, TreeAssumption, AncestorsNoState DEF ComputeLCA
  <2>2. CASE current # to
    BY <1>1, <1>3, <2>2, CurrentIsParallel
  <2> QED BY <2>1, <2>2
<1>5. EntryGoal(to) = to
  <2>1. Entered(current, to) \cap Parallel = {to}
    BY <1>1, <1>3, <1>4 DEF Entered
  <2> QED BY <2>1 DEF EntryGoal
<1>6. EntryPath(to) = Ancestors(to) \ Ancestors(l) /\ to \in EntryPath(to)
  BY <1>3, <1>4, <1>5 DEF EntryPath
<1>7. EntersParallel(to)
  BY <1>6 DEF EntersParallel
<1>8. \A r \in Regions : region'[r] = FindDeepestInitial(r)
  BY <1>7 DEF Move, RegionsAfter
<1>9. \A r \in Regions : /\ FindDeepestInitial(r) \in State /\ r \in Ancestors(FindDeepestInitial(r))
                         /\ FindDeepestInitial(r) # NoState
  BY DeepestInitialBelow, TreeAssumption DEF Regions
<1>10. PlaceInv'
  BY <1>1, <1>2, <1>3, <1>8, <1>9 DEF PlaceInv
<1>11. OpenRegions' = Regions
  BY <1>8, <1>9 DEF OpenRegions
<1>12. OpenRegions # {} => ExitsParallel(to)
  <2> SUFFICES ASSUME NEW r \in OpenRegions PROVE ExitsParallel(to)
    OBVIOUS
  <2>1. to \in Ancestors(current)
    BY <1>1 DEF OpenRegions, PlaceInv
  <2> QED BY <1>1, <1>4, <2>1 DEF ExitsParallel, Exited
<1>13. active' = (active \ (Exited(to) \cup (IF ExitsParallel(to) THEN RegionExits ELSE {})))
                   \cup EntryPath(to) \cup RegionEntries
  BY <1>7 DEF Move
<1>14. RegionEntries = UNION {Ancestors(region'[r]) \ Ancestors(to) : r \in Regions}
  BY <1>1, <1>8 DEF RegionEntries
<1>15. active' \subseteq Ancestors(to) \cup UNION {Ancestors(region'[r]) : r \in Regions}
  <2> DEFINE kept == active \ (Exited(to) \cup (IF ExitsParallel(to) THEN RegionExits ELSE {}))
  <2>1. kept \subseteq Ancestors(to)
    BY <1>1, <1>12, ExitLeaves
  <2>2. EntryPath(to) \subseteq Ancestors(to)
    BY <1>6
  <2>3. active' = kept \cup EntryPath(to) \cup RegionEntries
    BY <1>13
  <2> HIDE DEF kept
  <2> QED BY <1>14, <2>1, <2>2, <2>3
<1>16. \A r \in Regions : region'[r] \in active'
  <2> SUFFICES ASSUME NEW r \in Regions PROVE region'[r] \in RegionEntries
    BY <1>13
  <2>1. region'[r] \notin Ancestors(to) /\ region'[r] \in Ancestors(region'[r])
    BY <1>1, <1>8, <1>9, RegionPathOf, AncestorSelf
  <2> QED BY <1>14, <2>1
<1>17. ActiveInv'
  BY <1>2, <1>6, <1>11, <1>13, <1>15, <1>16 DEF ActiveInv
<1>18. FindDeepestInitial(to) = to
  BY <1>1, DeepestInitialParallel
<1>19. {q \in Regions : Parent[q] = to} = Regions
  BY <1>1
<1>20. Paths' = Statechart!Complete(to)
  BY <1>2, <1>8, <1>11, <1>19 DEF Statechart!Complete
<1> QED BY <1>10, <1>17, <1>18, <1>20

\* Every external transition of the embedded runtime is one of the two.
LEMMA ExecuteKeepsPlace ==
  ASSUME CurrentIsLeaf, TypeInv, PlaceInv, ActiveInv, NEW e \in Event \cup {NoEvent}, NEW ok,
         NEW t \in PickTransitionHierarchical(current, e, ok), Execute(t, e = NoEvent)
  PROVE  /\ PlaceInv' /\ ActiveInv'
         /\ \/ UNCHANGED machine
            \/ /\ t.target # NoState
               /\ Paths' = Statechart!Complete(FindDeepestInitial(t.target))
<1>1. current \in State
  BY DEF TypeInv, TypeOK
<1>2. PICK h \in Ancestors(current) : t \in PickTransition(h, e, ok)
  BY DEF PickTransitionHierarchical, Handlers
<1>3. PICK i \in Matches(h, e, ok) : t = Transitions[h][i]
  BY <1>2 DEF PickTransition
<1>4. /\ h \in State /\ i \in DOMAIN Transitions[h]
      /\ e = NoEvent <=> t.event = NoEvent
  <2>1. e # NoEvent => e \in EventID
    BY DEF EventID
  <2> QED BY <1>3, <2>1, AncestorsInState, EventAssumption
       DEF Matches, ExactMatches, WildcardMatches
<1>5. Ancestors(h) \cap Regions = {}
  BY <1>1, AncestorsTransitive DEF PlaceInv
<1>6. t.target \in State \cup {NoState}
  BY <1>1, PickedTransition DEF Transition
<1>7. CASE UNCHANGED machine
  BY <1>7 DEF machine, PlaceInv, ActiveInv, OpenRegions
<1>8. CASE t.target # NoState /\ Move(t.target, e = NoEvent)
  <2> DEFINE to == t.target
             Moved == PlaceInv' /\ ActiveInv' /\ Paths' = Statechart!Complete(FindDeepestInitial(to))
  <2> SUFFICES Moved
    BY <1>8
  <2>1. to \in State
    BY <1>6, <1>8
  <2>2. CASE e # NoEvent
    <3>1. Ancestors(FindDeepestInitial(to)) \cap Parallel = {}
      BY <1>3, <1>4, <1>5, <1>8, <2>2 DEF CurrentIsLeaf
    <3>2. Move(to, FALSE)
      BY <1>8, <2>2
    <3> QED BY <2>1, <3>1, <3>2, MoveOutside
  <2>3. CASE e = NoEvent
    <3>1. Initial[to] = NoState /\ Ancestors(to) \cap Regions = {}
      BY <1>3, <1>4, <1>5, <1>8, <2>3 DEF CurrentIsLeaf
    <3>2. Move(to, TRUE)
      BY <1>8, <2>3
    <3>3. CASE to \in Parallel
      BY <3>1, <3>2, <3>3, MoveIntoParallel
    <3>4. CASE to \notin Parallel
      <4>1. FindDeepestInitial(to) = to
        BY <2>1, <3>1, DeepestInitialAtomic
      <4>2. Ancestors(to) \cap Parallel = {}
        BY <2>1, <3>1, <3>4, RegionRoot
      <4> QED BY <2>1, <3>2, <4>1, <4>2, MoveOutside
    <3> QED BY <3>3, <3>4
  <2> QED BY <2>2, <2>3
<1> QED BY <1>7, <1>8 DEF Execute

\* Of all the paths only what lies within a region changes with its state.
LEMMA RegionPathsApart ==
  ASSUME TypeInv, PlaceInv, NEW r \in OpenRegions, NEW g \in State, r \in Ancestors(g),
         current' = current, OpenRegions' = OpenRegions, region'[r] = g,
         \A q \in Regions \ {r} : region'[q] = region[q]
  PROVE  Paths' = {x \in Paths : r \notin Ancestors(x)} \cup Ancestors(g)
<1> DEFINE rest == {x \in Paths : r \notin Ancestors(x)}
<1>1. /\ r \in Regions /\ region[r] \in State /\ r \in Ancestors(region[r])
      /\ current \in State /\ Parent[r] \in Ancestors(current)
      /\ region \in [Regions -> State \cup {NoState}]
  BY DEF OpenRegions, PlaceInv, TypeInv, TypeOK
<1>2. ASSUME NEW s \in State, r \in Ancestors(s), NEW x \in Ancestors(s), r \notin Ancestors(x)
      PROVE  x \in Ancestors(current)
  <2>1. x \in Ancestors(Parent[r])
    BY <1>1, <1>2, AboveRegion
  <2> QED BY <1>1, <2>1, AncestorsTransitive
<1>3. ASSUME NEW q \in OpenRegions, q # r, NEW x \in Ancestors(region[q])
      PROVE  r \notin Ancestors(x)
  <2>1. q \in Regions /\ region[q] \in State /\ q \in Ancestors(region[q])
    BY <1>1 DEF OpenRegions, PlaceInv
  <2>2. r \in Ancestors(x) => r \in Ancestors(region[q])
    BY <2>1, <1>3, AncestorsTransitive
  <2> QED BY <1>1, <1>3, <2>1, <2>2, RegionUnique
<1>4. \A x \in Ancestors(current) : r \notin Ancestors(x)
  <2>1. \A x \in Ancestors(current) : Ancestors(x) \subseteq Ancestors(current)
    BY <1>1, AncestorsTransitive
  <2> QED BY <1>1, <2>1 DEF PlaceInv
<1>5. rest \subseteq Paths'
  <2> SUFFICES ASSUME NEW x \in rest PROVE x \in Paths'
    OBVIOUS
  <2>1. x \in Ancestors(region[r]) => x \in Ancestors(current)
    BY <1>1, <1>2
  <2> QED BY <2>1 DEF OpenRegions
<1>6. Paths' \subseteq rest \cup Ancestors(g)
  <2> SUFFICES ASSUME NEW x \in Paths', x \notin Ancestors(g) PROVE x \in rest
    OBVIOUS
  <2>1. CASE x \in Ancestors(current)
    BY <1>4, <2>1
  <2>2. ASSUME NEW q \in OpenRegions, q # r, x \in Ancestors(region[q]) PROVE x \in rest
    BY <1>3, <2>2
  <2>3. \A q \in OpenRegions : q \in Regions
    BY DEF OpenRegions
  <2> QED BY <2>1, <2>2, <2>3
<1>7. Ancestors(g) \subseteq Paths'
  OBVIOUS
<1> QED BY <1>5, <1>6, <1>7

\* A region's transition stays in the region.
LEMMA ExecuteInRegionKeepsPlace ==
  ASSUME RegionsStay, TypeInv, PlaceInv, ActiveInv, NEW r \in Regions, region[r] \in State,
         NEW e, NEW ok, NEW t \in RegionTransition(r, e, ok), ExecuteInRegion(r, t)
  PROVE  /\ PlaceInv' /\ ActiveInv'
         /\ \/ UNCHANGED machine
            \/ /\ t.target # NoState
               /\ Paths' = {x \in Paths : r \notin Ancestors(x)}
                             \cup Ancestors(FindDeepestInitial(t.target))
<1>1. /\ current \in State /\ region \in [Regions -> State \cup {NoState}]
      /\ region[r] # NoState /\ r \in Ancestors(region[r]) /\ Parent[r] \in Ancestors(current)
  BY TreeAssumption DEF TypeInv, TypeOK, PlaceInv
<1>2. PICK i \in DOMAIN Transitions[region[r]] : t = Transitions[region[r]][i]
  BY DEF RegionTransition, RegionMatches
<1>3. CASE UNCHANGED machine
  BY <1>3 DEF machine, PlaceInv, ActiveInv, OpenRegions
<1>4. CASE t.target # NoState /\ MoveRegion(r, t.target)
  <2> DEFINE to == t.target
             g == FindDeepestInitial(to)
  <2>1. r \in Ancestors(to) /\ to \in State
    <3>1. t \in Transition
      BY RegionTransitionOfChart
    <3>2. to \in State
      BY <1>4, <3>1 DEF Transition
    <3>3. r \in Ancestors(to)
      BY <1>1, <1>2, <1>4 DEF RegionsStay
    <3> QED BY <3>2, <3>3
  <2>2. g \in State /\ to \in Ancestors(g) /\ g \in Ancestors(g) /\ g # NoState
    BY <2>1, DeepestInitialBelow, AncestorSelf, TreeAssumption
  <2>3. r \in Ancestors(g)
    BY <2>1, <2>2, AncestorsTransitive
  <2>4. /\ current' = current /\ region'[r] = g /\ \A q \in Regions \ {r} : region'[q] = region[q]
        /\ active' = (active \ RegionPath(region[r])) \cup {a \in Ancestors(g) : to \in Ancestors(a)}
    BY <1>1, <1>4 DEF MoveRegion
  <2> HIDE DEF g
  <2>5. PlaceInv'
    BY <1>1, <2>2, <2>3, <2>4 DEF PlaceInv
  <2>6. OpenRegions' = OpenRegions /\ r \in OpenRegions /\ OpenRegions \subseteq Regions
    BY <1>1, <2>2, <2>4 DEF OpenRegions
  <2>7. RegionPath(region[r]) = Ancestors(region[r]) \ Ancestors(Parent[r])
    BY <1>1, RegionPathOf
  <2>8. Ancestors(Parent[r]) \subseteq Ancestors(current)
    BY <1>1, AncestorsTransitive
  <2>9. active' \subseteq Ancestors(current') \cup UNION {Ancestors(region'[q]) : q \in OpenRegions'}
    <3> SUFFICES ASSUME NEW x \in active'
                 PROVE  x \in Ancestors(current) \/ \E q \in OpenRegions : x \in Ancestors(region'[q])
      BY <2>4, <2>6
    <3>1. CASE x \in Ancestors(g)
      BY <2>4, <2>6, <3>1
    <3>2. CASE x \in active \ RegionPath(region[r])
      <4>1. CASE x \in Ancestors(current)
        BY <4>1
      <4>2. ASSUME NEW q \in OpenRegions, x \in Ancestors(region[q])
            PROVE  x \in Ancestors(current) \/ \E o \in OpenRegions : x \in Ancestors(region'[o])
        BY <2>4, <2>6, <2>7, <2>8, <3>2, <4>2
      <4> QED BY <3>2, <4>1, <4>2 DEF ActiveInv
    <3> QED BY <2>4, <3>1, <3>2
  <2>10. current \in active'
    <3>1. current \in Ancestors(Parent[r]) \/ current \notin Ancestors(region[r])
      <4>1. Parent[r] \in Parallel
        BY DEF Regions
      <4>2. current = Parent[r]
        BY <1>1, <4>1, CurrentIsParallel
      <4> QED BY <1>1, <4>2, AncestorSelf
    <3> QED BY <2>4, <2>7, <3>1 DEF ActiveInv
  <2>11. ASSUME NEW q \in OpenRegions PROVE region'[q] \in active'
    <3>1. CASE q = r
      BY <2>2, <2>4, <3>1
    <3>2. CASE q # r
      <4>1. /\ q \in Regions /\ region[q] \in State /\ q \in Ancestors(region[q])
            /\ region[q] \in active /\ region'[q] = region[q]
        BY <1>1, <2>4, <2>6, <3>2 DEF OpenRegions, PlaceInv, ActiveInv
      <4>2. region[q] \notin Ancestors(region[r])
        <5> SUFFICES ASSUME region[q] \in Ancestors(region[r]) PROVE FALSE
          OBVIOUS
        <5>1. q \in Ancestors(region[r])
          BY <1>1, <4>1, AncestorsTransitive
        <5> QED BY <1>1, <3>2, <4>1, <5>1, RegionUnique
      <4> QED BY <2>4, <2>7, <4>1, <4>2
    <3> QED BY <3>1, <3>2
  <2>12. ActiveInv'
    BY <2>4, <2>6, <2>9, <2>10, <2>11 DEF ActiveInv
  <2>13. Paths' = {x \in Paths : r \notin Ancestors(x)} \cup Ancestors(g)
    BY <1>1, <2>2, <2>3, <2>4, <2>6, RegionPathsApart
  <2>14. t.target # NoState /\ g = FindDeepestInitial(t.target)
    BY <1>4 DEF g
  <2> QED BY <2>5, <2>12, <2>13, <2>14
<1> QED BY <1>3, <1>4 DEF ExecuteInRegion

\* From Start to the end of Stop.
Alive == life \in {"starting", "running"} \/ (life = "exited" /\ stop # "returned")

\* Before Start nothing is active; the event given to the machine is an event.
FollowInv ==
  /\ at = "dispatch" => inHand \in Event
  /\ life = "new" =>
       current = FindDeepestInitial(Root) /\ \A r \in Regions : region[r] = NoState
  /\ Alive => PlaceInv /\ ActiveInv

\* Start finds the initial leaf outside the regions, or opens them all.
LEMMA StartFollows ==
  ASSUME TypeInv, FollowInv, Start \/ StartEntryFails
  PROVE  PlaceInv' /\ ActiveInv'
<1>1. /\ current = FindDeepestInitial(Root) /\ current \in State /\ UNCHANGED current
      /\ \A r \in Regions : region[r] = NoState
  BY DEF Start, StartEntryFails, FollowInv, TypeInv, TypeOK
<1>2. Ancestors(current) \cap Regions = {}
  <2>1. Ancestors(Root) = {Root}
    BY TreeAssumption, AncestorsUnfold, AncestorsNoState
  <2>2. Root \notin Regions
    BY TreeAssumption, InitialAssumption DEF Regions
  <2> QED BY <1>1, <2>1, <2>2, TreeAssumption, DescentOutside
<1>3. \A r \in Regions : Parent[r] \in Parallel
  BY DEF Regions
<1>4. CASE current \in Parallel
  <2>1. region' = [r \in Regions |-> FindDeepestInitial(r)] /\ active' = {current} \cup RegionEntries
    BY <1>4 DEF Start, StartEntryFails
  <2>2. \A r \in Regions : /\ FindDeepestInitial(r) \in State /\ FindDeepestInitial(r) # NoState
                          /\ r \in Ancestors(FindDeepestInitial(r)) /\ Parent[r] = current
    BY <1>3, <1>4, DeepestInitialBelow, TreeAssumption, OneParallelAssumption DEF Regions
  <2>3. current \in Ancestors(current)
    BY <1>1, AncestorSelf
  <2>4. PlaceInv'
    BY <1>1, <1>2, <2>1, <2>2, <2>3 DEF PlaceInv
  <2>5. OpenRegions' = Regions
    BY <2>1, <2>2 DEF OpenRegions
  <2>6. RegionEntries = UNION {Ancestors(region'[r]) \ Ancestors(current) : r \in Regions}
    BY <2>1, <2>2 DEF RegionEntries
  <2>7. \A r \in Regions : region'[r] \in RegionEntries
    <3> SUFFICES ASSUME NEW r \in Regions PROVE region'[r] \in RegionEntries
      OBVIOUS
    <3>1. region'[r] \notin Ancestors(current) /\ region'[r] \in Ancestors(region'[r])
      BY <2>1, <2>2, RegionPathOf, AncestorSelf
    <3> QED BY <2>6, <3>1
  <2> QED BY <1>1, <2>1, <2>3, <2>4, <2>5, <2>6, <2>7 DEF ActiveInv
<1>5. CASE current \notin Parallel
  <2>1. active' = {current} /\ UNCHANGED region
    BY <1>5 DEF Start, StartEntryFails
  <2>2. Ancestors(current) \cap Parallel = {}
    BY <1>1, <1>2, <1>5, RegionRoot
  <2>3. PlaceInv'
    BY <1>1, <1>2, <1>3, <2>1, <2>2 DEF PlaceInv
  <2> QED BY <1>1, <2>1, <2>3, AncestorSelf DEF ActiveInv, OpenRegions
<1> QED BY <1>4, <1>5

\* Every step keeps it, on the charts the two properties are about.
LEMMA FollowNext == CurrentIsLeaf /\ RegionsStay /\ TypeInv /\ FollowInv /\ [Next]_vars => FollowInv'
<1> SUFFICES ASSUME CurrentIsLeaf, RegionsStay, TypeInv, FollowInv, [Next]_vars PROVE FollowInv'
  OBVIOUS
<1> USE DEF machine, loop, work, clients, control
<1> DEFINE Lives == /\ life' = "new" => life = "new" /\ UNCHANGED <<current, region>>
                    /\ Alive' => Alive
                    /\ at' = "dispatch" => at = "dispatch" /\ UNCHANGED inHand
<1>1. ASSUME Lives, Alive' => PlaceInv' /\ ActiveInv' PROVE FollowInv'
  BY <1>1 DEF FollowInv
<1>2. ASSUME Lives, UNCHANGED machine PROVE FollowInv'
  BY <1>1, <1>2 DEF FollowInv, PlaceInv, ActiveInv, OpenRegions
<1> HIDE DEF Lives
<1>3. CASE Start \/ StartEntryFails
  BY <1>3, StartFollows DEF Start, StartEntryFails, FollowInv, TypeInv, RoundOK
<1>4. CASE CancelParent \/ CallStop \/ LoopExits
  BY <1>2, <1>4 DEF CancelParent, CallStop, LoopExits, Lives, Alive
<1>5. CASE StopReturns
  BY <1>5 DEF StopReturns, FollowInv, TypeInv, RoundOK, Alive
<1>6. CASE Clients \/ UNCHANGED vars
  BY <1>2, <1>6 DEF Clients, SendEvent, SendEventWithPriority, AppendToBatch, vars, Lives, Alive
<1>7. CASE BeginTick \/ EventDone \/ BeginMacrostep \/ BeginRegions \/ QueueEmpty \/ EndMacrostep
  BY <1>2, <1>7 DEF BeginTick, EventDone, BeginMacrostep, BeginRegions, QueueEmpty,
     EndMacrostep, Completed, Lives, Alive, TypeInv, RoundOK
<1>8. CASE TakeInternal
  <2>1. /\ internal \in Seq(Submission) /\ internal # <<>> /\ inHand' = Head(internal).event
        /\ UNCHANGED <<machine, life>> /\ life \notin {"new", "exited"}
    BY <1>8 DEF TakeInternal, TypeInv, TypeOK, RoundOK
  <2>2. inHand' \in Event
    <3>1. internal \in Seq(Submission) /\ internal # <<>>
      BY <2>1
    <3>2. Head(internal) \in Submission
      BY <3>1
    <3>3. inHand' = Head(internal).event
      BY <2>1
    <3> QED BY <3>2, <3>3 DEF Submission
  <2>3. life \in {"starting", "running"}
    BY <2>1 DEF TypeInv, TypeOK
  <2>4. PlaceInv /\ ActiveInv /\ UNCHANGED <<current, region, active>>
    BY <2>1, <2>3 DEF FollowInv, Alive
  <2>5. PlaceInv'
    BY <2>4 DEF PlaceInv
  <2>6. ActiveInv'
    BY <2>4 DEF ActiveInv, OpenRegions
  <2> QED BY <2>2, <2>5, <2>6, <2>1, <2>3 DEF FollowInv
<1>9. ASSUME NEW e \in Event \cup {NoEvent}, NEW ok, NEW t \in PickTransitionHierarchical(current, e, ok),
             Execute(t, e = NoEvent), life \in {"starting", "running"}
      PROVE  PlaceInv' /\ ActiveInv'
  BY <1>9, ExecuteKeepsPlace DEF FollowInv, Alive
<1>10. ASSUME NEW r \in Regions, region[r] \in State, NEW e, NEW ok,
              NEW t \in RegionTransition(r, e, ok), ExecuteInRegion(r, t),
              life \in {"starting", "running"}
       PROVE  PlaceInv' /\ ActiveInv'
  BY <1>10, ExecuteInRegionKeepsPlace DEF FollowInv, Alive
<1>11. ASSUME UNCHANGED machine, life \in {"starting", "running"} PROVE PlaceInv' /\ ActiveInv'
  BY <1>11 DEF FollowInv, Alive, PlaceInv, ActiveInv, OpenRegions
<1>12. ASSUME ProcessEvent \/ Microstep \/ Dispatch \/ Eventless \/ Deliver \/ RegionEventless
       PROVE  Lives /\ life \in {"starting", "running"}
  BY <1>12 DEF ProcessEvent, Microstep, Dispatch, RouteToRegions, Eventless, Deliver,
     RegionEventless, Stuck, Lives, Alive, TypeInv, TypeOK, RoundOK
<1>13. NoEvent \notin Event
  BY EventAssumption DEF EventID
<1>14. CASE ProcessEvent
  <2>1. PICK m \in pending, ok \in SUBSET Guard :
          \/ UNCHANGED machine
          \/ \E t \in PickTransitionHierarchical(current, m.event, ok) : Execute(t, FALSE)
    BY <1>14 DEF ProcessEvent
  <2>2. m.event \in Event
    BY DEF TypeInv, TypeOK, EventWithMeta
  <2>3. m.event # NoEvent /\ (m.event = NoEvent) = FALSE
    BY <1>13, <2>2
  <2> QED BY <1>1, <1>9, <1>11, <1>12, <1>14, <2>1, <2>2, <2>3
<1>15. CASE Microstep
  <2>1. PICK ok \in SUBSET Guard :
          \E t \in PickTransitionHierarchical(current, NoEvent, ok) : Execute(t, TRUE)
    BY <1>15 DEF Microstep
  <2>2. (NoEvent = NoEvent) = TRUE
    OBVIOUS
  <2> QED BY <1>1, <1>9, <1>12, <1>15, <2>1, <2>2
<1>16. CASE Dispatch
  <2>1. PICK ok \in SUBSET Guard :
          \/ UNCHANGED machine
          \/ \E t \in PickTransitionHierarchical(current, inHand, ok) : Execute(t, FALSE)
    BY <1>16 DEF Dispatch, Stuck
  <2>2. inHand \in Event
    BY <1>16 DEF Dispatch, FollowInv
  <2>3. inHand # NoEvent /\ (inHand = NoEvent) = FALSE
    BY <1>13, <2>2
  <2> QED BY <1>1, <1>9, <1>11, <1>12, <1>16, <2>1, <2>2, <2>3
<1>17. CASE Eventless
  <2>1. PICK ok \in SUBSET Guard :
          \E t \in PickTransitionHierarchical(current, NoEvent, ok) :
            UNCHANGED machine \/ Execute(t, TRUE)
    BY <1>17 DEF Eventless, Stuck
  <2>2. (NoEvent = NoEvent) = TRUE
    OBVIOUS
  <2> QED BY <1>1, <1>9, <1>11, <1>12, <1>17, <2>1, <2>2
<1>18. CASE Deliver
  <2>1. PICK r \in todo, ok \in SUBSET Guard :
          UNCHANGED machine \/ \E t \in RegionTransition(r, inHand, ok) : ExecuteInRegion(r, t)
    BY <1>18 DEF Deliver
  <2>2. r \in Regions /\ region[r] \in State
    BY <1>18 DEF Deliver, TypeInv, TypeOK, RoundOK
  <2> QED BY <1>1, <1>10, <1>11, <1>12, <1>18, <2>1, <2>2
<1>19. CASE RegionEventless
  <2>1. PICK r \in OpenRegions, again \in SUBSET Guard :
          UNCHANGED machine \/ \E t \in RegionTransition(r, NoEvent, again) : ExecuteInRegion(r, t)
    BY <1>19 DEF RegionEventless
  <2>2. r \in Regions /\ region[r] \in State
    BY DEF OpenRegions, TypeInv, TypeOK
  <2> QED BY <1>1, <1>10, <1>11, <1>12, <1>19, <2>1, <2>2
<1> QED BY <1>3, <1>4, <1>5, <1>6, <1>7, <1>8, <1>14, <1>15, <1>16, <1>17, <1>18, <1>19
     DEF Next, Lifecycle, Tick, Macrostep

\* FollowInv holds throughout, on those charts.
LEMMA FollowInvCorrect == Spec => [](CurrentIsLeaf /\ RegionsStay => FollowInv)
<1> DEFINE F == CurrentIsLeaf /\ RegionsStay => FollowInv
<1>1. Init => F
  BY DEF Init, FollowInv, Alive
<1>2. (CurrentIsLeaf /\ RegionsStay)' => CurrentIsLeaf /\ RegionsStay
  BY DEF CurrentIsLeaf, RegionsStay
<1>3. TypeInv /\ F /\ [Next]_vars => F'
  BY <1>2, FollowNext
<1> QED BY <1>1, <1>3, TypeInvCorrect, PTL DEF Spec

\* The regions exist, all of them, exactly while the parallel state is
\* rt.current, and each stays inside its part of the chart.
THEOREM RegionsFollowParallelCorrect == Spec => []RegionsFollowParallel
<1>1. (CurrentIsLeaf /\ RegionsStay => FollowInv) => RegionsFollowParallel
  BY DEF FollowInv, Alive, PlaceInv, RegionsFollowParallel
<1> QED BY <1>1, FollowInvCorrect, PTL

\* No state is left active off the path to rt.current and to the regions'
\* states, and those have been entered.
THEOREM TickConfigurationCorrect == Spec => []TickConfiguration
<1>1. (CurrentIsLeaf /\ RegionsStay => FollowInv) => TickConfiguration
  BY DEF FollowInv, Alive, ActiveInv, TickConfiguration
<1> QED BY <1>1, FollowInvCorrect, PTL

-----------------------------------------------------------------------------
(***************************************************************************)
(* The refinement of the abstract configuration with a parallel state.     *)
(***************************************************************************)

\* The abstract configuration selects among the same transitions.
LEMMA SelectsTheSame ==
  ASSUME NEW s, NEW e
  PROVE  /\ Statechart!Sure(s, e) = Promise!Sure(s, e)
         /\ Statechart!Possible(s, e) = Promise!Possible(s, e)
BY DEF Statechart!Sure, Statechart!Possible, Statechart!Answers, Statechart!TriedBefore,
   Promise!Sure, Promise!Possible, Promise!Answers, Promise!TriedBefore

\* The states of the configuration outside the regions are the path to
\* rt.current.
LEMMA OutsideIsPath ==
  ASSUME TypeInv, PlaceInv
  PROVE  {d \in Paths : Statechart!RegionOf(d) = {}} = Ancestors(current)
<1>1. /\ current \in State /\ region \in [Regions -> State \cup {NoState}]
      /\ Ancestors(current) \cap Regions = {}
  BY DEF TypeInv, TypeOK, PlaceInv
<1>2. \A d \in Ancestors(current) : Regions \cap Ancestors(d) = {}
  <2>1. \A d \in Ancestors(current) : Ancestors(d) \subseteq Ancestors(current)
    BY <1>1, AncestorsTransitive
  <2> QED BY <1>1, <2>1
<1>3. ASSUME NEW r \in OpenRegions, NEW d \in Ancestors(region[r]), Regions \cap Ancestors(d) = {}
      PROVE  d \in Ancestors(current)
  <2>1. /\ r \in Regions /\ region[r] \in State /\ r \in Ancestors(region[r])
        /\ Parent[r] \in Ancestors(current)
    BY <1>1 DEF OpenRegions, PlaceInv
  <2>2. d \in Ancestors(Parent[r])
    BY <1>3, <2>1, AboveRegion
  <2> QED BY <1>1, <2>1, <2>2, AncestorsTransitive
<1> QED BY <1>2, <1>3 DEF Statechart!RegionOf

\* A transition of the embedded runtime is one of the innermost willing state
\* outside the regions.
LEMMA OutsideFires ==
  ASSUME CurrentIsLeaf, TypeInv, PlaceInv, ActiveInv, life # "new", UNCHANGED life,
         NEW e \in Event \cup {NoEvent}, NEW ok,
         NEW t \in PickTransitionHierarchical(current, e, ok), Execute(t, e = NoEvent)
  PROVE  Statechart!Next \/ UNCHANGED Configured
<1>1. Configured = Paths /\ Configured' = Paths'
  BY DEF Configured
<1>2. CASE UNCHANGED machine
  BY <1>1, <1>2 DEF machine, OpenRegions
<1>3. CASE t.target # NoState /\ Paths' = Statechart!Complete(FindDeepestInitial(t.target))
  <2>1. current \in State
    BY DEF TypeInv, TypeOK
  <2>2. PICK a \in Ancestors(current) :
          /\ \A d \in Ancestors(current) : a \in Ancestors(d) \ {d} => Promise!Sure(d, e) = {}
          /\ \E i \in Promise!Possible(a, e) : t = Transitions[a][i]
    BY <2>1, PickedIsPromised
  <2>3. a \in Configured /\ Statechart!RegionOf(a) = {}
    BY <1>1, <2>2, OutsideIsPath
  <2>4. Statechart!Responsible(a, e)
    BY <1>1, <2>2, OutsideIsPath, SelectsTheSame DEF Statechart!Responsible
  <2>5. PICK i \in Statechart!Possible(a, e) : t = Transitions[a][i]
    BY <2>2, SelectsTheSame
  <2>6. Statechart!FireOutside(a, e)
    BY <1>1, <1>3, <2>3, <2>4, <2>5 DEF Statechart!FireOutside
  <2> QED BY <2>3, <2>6 DEF Statechart!Next
<1> QED BY <1>2, <1>3, ExecuteKeepsPlace

\* A region's current state is a leaf of the configuration.
LEMMA RegionStateIsLeaf ==
  ASSUME TypeInv, PlaceInv, NEW r \in OpenRegions,
         NEW d \in Paths, region[r] \in Ancestors(d)
  PROVE  d = region[r]
<1>1. /\ r \in Regions /\ region[r] \in State /\ r \in Ancestors(region[r])
      /\ current \in State /\ region \in [Regions -> State \cup {NoState}]
  BY DEF OpenRegions, PlaceInv, TypeInv, TypeOK
<1>2. d \in State
  BY AncestorsInState
<1>3. r \in Ancestors(d)
  BY <1>1, <1>2, AncestorsTransitive
<1>4. d \notin Ancestors(current)
  <2> SUFFICES ASSUME d \in Ancestors(current) PROVE FALSE
    OBVIOUS
  <2>1. r \in Ancestors(current)
    BY <1>1, <1>3, AncestorsTransitive
  <2> QED BY <1>1, <2>1 DEF PlaceInv
<1>5. PICK q \in OpenRegions : d \in Ancestors(region[q])
  BY <1>4
<1>6. q \in Regions /\ region[q] \in State /\ q \in Ancestors(region[q])
  BY <1>1 DEF OpenRegions, PlaceInv
<1>7. r \in Ancestors(region[q])
  BY <1>3, <1>5, <1>6, AncestorsTransitive
<1>8. q = r
  BY <1>1, <1>6, <1>7, RegionUnique
<1> QED BY <1>1, <1>5, <1>8, AncestorsAntisymmetric

\* A region's transition is the first its current state may take.
LEMMA RegionPicksFirst ==
  ASSUME NEW r \in Regions, region[r] \in State, NEW e, NEW ok,
         NEW t \in RegionTransition(r, e, ok)
  PROVE  \E i \in Statechart!FirstPossible(region[r], e) : t = Transitions[region[r]][i]
<1> DEFINE s == region[r]
           m == RegionMatches(r, e, ok)
<1>1. PICK i \in m : t = Transitions[s][i] /\ \A j \in m : i <= j
  BY DEF RegionTransition
<1>2. \A j \in DOMAIN Transitions[s] :
        Statechart!Answers(Transitions[s][j], e) <=>
          Transitions[s][j].event \in {e} \cup (IF e = NoEvent THEN {} ELSE {AnyEvent})
  BY DEF Statechart!Answers
<1>3. i \in DOMAIN Transitions[s] /\ Statechart!Answers(Transitions[s][i], e)
  BY <1>1, <1>2 DEF RegionMatches
<1>4. Statechart!Sure(s, e) \subseteq m
  BY <1>2 DEF Statechart!Sure, RegionMatches, Passes
<1> QED BY <1>1, <1>3, <1>4 DEF Statechart!FirstPossible

\* A transition of a region moves the leaf of that region and no other.
LEMMA InsideFires ==
  ASSUME RegionsStay, TypeInv, PlaceInv, ActiveInv, life # "new", UNCHANGED life,
         NEW r \in Regions, region[r] \in State, NEW e \in Event \cup {NoEvent}, NEW ok,
         NEW t \in RegionTransition(r, e, ok), ExecuteInRegion(r, t)
  PROVE  Statechart!Next \/ UNCHANGED Configured
<1>1. Configured = Paths /\ Configured' = Paths'
  BY DEF Configured
<1>2. CASE UNCHANGED machine
  BY <1>1, <1>2 DEF machine, OpenRegions
<1>3. CASE /\ t.target # NoState
           /\ Paths' = {x \in Paths : r \notin Ancestors(x)}
                         \cup Ancestors(FindDeepestInitial(t.target))
  <2>1. r \in OpenRegions /\ r \in Ancestors(region[r])
    BY TreeAssumption DEF OpenRegions, PlaceInv
  <2>2. region[r] \in Configured /\ r \in Statechart!RegionOf(region[r])
    BY <1>1, <2>1, AncestorSelf DEF Statechart!RegionOf
  <2>3. Statechart!Leaf(region[r])
    BY <1>1, <2>1, RegionStateIsLeaf DEF Statechart!Leaf
  <2>4. PICK i \in Statechart!FirstPossible(region[r], e) : t = Transitions[region[r]][i]
    BY RegionPicksFirst
  <2>5. Statechart!FireInside(region[r], e)
    BY <1>1, <1>3, <2>2, <2>3, <2>4 DEF Statechart!FireInside
  <2> QED BY <2>2, <2>5 DEF Statechart!Next
<1> QED BY <1>2, <1>3, ExecuteInRegionKeepsPlace

\* Start enters the initial leaf, with the regions if it is the parallel state.
LEMMA StartEnters ==
  ASSUME TypeInv, FollowInv, Start \/ StartEntryFails
  PROVE  Statechart!Enter
<1>1. /\ current = FindDeepestInitial(Root) /\ current \in State /\ UNCHANGED current
      /\ \A r \in Regions : region[r] = NoState
      /\ life = "new" /\ life' # "new"
  BY DEF Start, StartEntryFails, FollowInv, TypeInv, TypeOK
<1>2. Configured = {} /\ Configured' = Paths'
  BY <1>1 DEF Configured
<1>3. CASE current \in Parallel
  <2>1. region' = [r \in Regions |-> FindDeepestInitial(r)]
    BY <1>3 DEF Start, StartEntryFails
  <2>2. \A r \in Regions : FindDeepestInitial(r) \in State /\ FindDeepestInitial(r) # NoState
                           /\ Parent[r] = current
    BY <1>3, DeepestInitialBelow, TreeAssumption, OneParallelAssumption DEF Regions
  <2>3. OpenRegions' = Regions /\ {q \in Regions : Parent[q] = current} = Regions
    BY <2>1, <2>2 DEF OpenRegions
  <2>4. Paths' = Statechart!Complete(current)
    BY <1>1, <2>1, <2>3 DEF Statechart!Complete
  <2> QED BY <1>1, <1>2, <2>4 DEF Statechart!Enter
<1>4. CASE current \notin Parallel
  <2>1. UNCHANGED region
    BY <1>4 DEF Start, StartEntryFails
  <2>2. OpenRegions' = {} /\ {q \in Regions : Parent[q] = current} = {}
    BY <1>1, <1>4, <2>1 DEF OpenRegions, Regions
  <2>3. Paths' = Statechart!Complete(current)
    BY <1>1, <2>2 DEF Statechart!Complete
  <2> QED BY <1>1, <1>2, <2>3 DEF Statechart!Enter
<1> QED BY <1>3, <1>4

\* Stop closes the regions of a parallel current state and leaves the rest.
LEMMA StopCloses ==
  ASSUME TypeInv, FollowInv, StopReturns
  PROVE  Statechart!Stop \/ UNCHANGED Configured
<1>1. life = "exited" /\ life' = "exited" /\ UNCHANGED current /\ PlaceInv
  BY DEF StopReturns, FollowInv, Alive
<1>2. Configured = Paths /\ Configured' = Paths'
  BY <1>1 DEF Configured
<1>3. CASE current \in Parallel
  <2>1. region' = [r \in Regions |-> NoState]
    BY <1>3 DEF StopReturns
  <2>2. OpenRegions' = {}
    BY <2>1 DEF OpenRegions
  <2>3. Paths' = Ancestors(current)
    BY <1>1, <2>2
  <2> QED BY <1>1, <1>2, <2>3, OutsideIsPath DEF Statechart!Stop
<1>4. CASE current \notin Parallel
  BY <1>1, <1>2, <1>4 DEF StopReturns, OpenRegions
<1> QED BY <1>3, <1>4

\* Every step of the tick-based runtime is one of the abstract configuration
\* or none.
LEMMA NextFires ==
  ASSUME CurrentIsLeaf, RegionsStay, TypeInv, FollowInv, [Next]_vars
  PROVE  Statechart!Next \/ UNCHANGED Configured
<1> USE DEF machine, loop, work, clients, control
<1>1. ASSUME UNCHANGED machine, (life = "new") = (life' = "new") PROVE UNCHANGED Configured
  BY <1>1 DEF Configured, OpenRegions
<1>2. CASE Start \/ StartEntryFails
  BY <1>2, StartEnters DEF Statechart!Next
<1>3. CASE StopReturns
  BY <1>3, StopCloses DEF Statechart!Next
<1>4. CASE CancelParent \/ CallStop \/ LoopExits \/ Clients \/ UNCHANGED vars
  BY <1>1, <1>4 DEF CancelParent, CallStop, LoopExits, Clients, SendEvent,
     SendEventWithPriority, AppendToBatch, vars
<1>5. CASE BeginTick \/ EventDone \/ BeginMacrostep \/ BeginRegions \/ QueueEmpty
             \/ TakeInternal \/ EndMacrostep
  BY <1>1, <1>5 DEF BeginTick, EventDone, BeginMacrostep, BeginRegions, QueueEmpty,
     TakeInternal, EndMacrostep, Completed, TypeInv, RoundOK
<1>6. ASSUME ProcessEvent \/ Microstep \/ Dispatch \/ Eventless \/ Deliver \/ RegionEventless
      PROVE  UNCHANGED life /\ life # "new" /\ PlaceInv /\ ActiveInv
  <2>1. UNCHANGED life /\ life \in {"starting", "running"}
    BY <1>6 DEF ProcessEvent, Microstep, Dispatch, RouteToRegions, Eventless, Deliver,
       RegionEventless, Stuck, TypeInv, TypeOK, RoundOK
  <2> QED BY <2>1 DEF FollowInv, Alive
<1>7. ASSUME NEW e \in Event \cup {NoEvent}, NEW ok, NEW t \in PickTransitionHierarchical(current, e, ok),
             UNCHANGED life, life # "new", PlaceInv, ActiveInv,
             UNCHANGED machine \/ Execute(t, e = NoEvent)
      PROVE  Statechart!Next \/ UNCHANGED Configured
  BY <1>1, <1>7, OutsideFires
<1>8. ASSUME NEW r \in Regions, region[r] \in State, NEW e \in Event \cup {NoEvent}, NEW ok,
             NEW t \in RegionTransition(r, e, ok), UNCHANGED life, life # "new", PlaceInv, ActiveInv,
             ExecuteInRegion(r, t)
      PROVE  Statechart!Next \/ UNCHANGED Configured
  BY <1>8, InsideFires
<1>9. NoEvent \notin Event
  BY EventAssumption DEF EventID
<1>10. CASE ProcessEvent
  <2>1. PICK m \in pending, ok \in SUBSET Guard :
          \/ UNCHANGED machine
          \/ \E t \in PickTransitionHierarchical(current, m.event, ok) : Execute(t, FALSE)
    BY <1>10 DEF ProcessEvent
  <2>2. m.event \in Event /\ (m.event = NoEvent) = FALSE
    BY <1>9 DEF TypeInv, TypeOK, EventWithMeta
  <2> QED BY <1>1, <1>6, <1>7, <1>10, <2>1, <2>2
<1>11. CASE Microstep
  <2>1. PICK ok \in SUBSET Guard :
          \E t \in PickTransitionHierarchical(current, NoEvent, ok) : Execute(t, TRUE)
    BY <1>11 DEF Microstep
  <2>2. (NoEvent = NoEvent) = TRUE
    OBVIOUS
  <2> QED BY <1>6, <1>7, <1>11, <2>1, <2>2
<1>12. CASE Dispatch
  <2>1. PICK ok \in SUBSET Guard :
          \/ UNCHANGED machine
          \/ \E t \in PickTransitionHierarchical(current, inHand, ok) : Execute(t, FALSE)
    BY <1>12 DEF Dispatch, Stuck
  <2>2. inHand \in Event /\ (inHand = NoEvent) = FALSE
    BY <1>9, <1>12 DEF Dispatch, FollowInv
  <2> QED BY <1>1, <1>6, <1>7, <1>12, <2>1, <2>2
<1>13. CASE Eventless
  <2>1. PICK ok \in SUBSET Guard :
          \E t \in PickTransitionHierarchical(current, NoEvent, ok) :
            UNCHANGED machine \/ Execute(t, TRUE)
    BY <1>13 DEF Eventless, Stuck
  <2>2. (NoEvent = NoEvent) = TRUE
    OBVIOUS
  <2> QED BY <1>6, <1>7, <1>13, <2>1, <2>2
<1>14. CASE Deliver
  <2>1. PICK r \in todo, ok \in SUBSET Guard :
          UNCHANGED machine \/ \E t \in RegionTransition(r, inHand, ok) : ExecuteInRegion(r, t)
    BY <1>14 DEF Deliver
  <2>2. r \in Regions /\ region[r] \in State /\ inHand \in Event \cup {NoEvent}
    BY <1>14 DEF Deliver, TypeInv, TypeOK, RoundOK
  <2> QED BY <1>1, <1>6, <1>8, <1>14, <2>1, <2>2
<1>15. CASE RegionEventless
  <2>1. PICK r \in OpenRegions, again \in SUBSET Guard :
          UNCHANGED machine \/ \E t \in RegionTransition(r, NoEvent, again) : ExecuteInRegion(r, t)
    BY <1>15 DEF RegionEventless
  <2>2. r \in Regions /\ region[r] \in State
    BY DEF OpenRegions, TypeInv, TypeOK
  <2> QED BY <1>1, <1>6, <1>8, <1>15, <2>1, <2>2
<1> QED BY <1>2, <1>3, <1>4, <1>5, <1>10, <1>11, <1>12, <1>13, <1>14, <1>15
     DEF Next, Lifecycle, Tick, Macrostep

\* The tick-based runtime implements the abstract configuration on every chart
\* in which rt.current stays a leaf and the regions' transitions stay in their
\* region, for every batch capacity, bound on the rounds and number of events.
THEOREM RefinesParallelCorrect ==
  ASSUME CurrentIsLeaf, RegionsStay
  PROVE  Spec => RefinesParallel
<1>1. Init => Statechart!Init
  BY DEF Init, Statechart!Init, Configured
<1>2. Init => FollowInv
  BY DEF Init, FollowInv, Alive
<1>3. TypeInv /\ FollowInv /\ [Next]_vars => FollowInv'
  BY FollowNext
<1>4. TypeInv /\ FollowInv /\ [Next]_vars => [Statechart!Next]_Configured
  BY NextFires
<1> QED BY <1>1, <1>2, <1>3, <1>4, TypeInvCorrect, PTL DEF Spec, RefinesParallel, Statechart!Spec

-----------------------------------------------------------------------------
(***************************************************************************)
(* What the lock of the second macrostep needs to block: a transition with *)
(* a target at the parallel state or above it.                             *)
(***************************************************************************)

\* The charts whose parallel state, once entered, is only left by stopping.
ParallelIsKept ==
  \A p \in Parallel : \A a \in Ancestors(p) : \A i \in DOMAIN Transitions[a] :
    Transitions[a][i].target = NoState

\* The second macrostep finds the embedded runtime in the parallel state.
KeptInv ==
  /\ at # "stuck"
  /\ RegionLockHeld => current \in Parallel

\* In the parallel state the embedded runtime only takes internal transitions.
LEMMA KeptTransition ==
  ASSUME ParallelIsKept, TypeInv, current \in Parallel, NEW e, NEW ok,
         NEW t \in PickTransitionHierarchical(current, e, ok)
  PROVE  t.target = NoState
<1>1. current \in State
  BY DEF TypeInv, TypeOK
<1>2. PICK a \in Ancestors(current) : t \in PickTransition(a, e, ok)
  BY DEF PickTransitionHierarchical, Handlers
<1>3. PICK i \in DOMAIN Transitions[a] : t = Transitions[a][i]
  BY <1>2 DEF PickTransition, Matches, ExactMatches, WildcardMatches
<1> QED BY <1>2, <1>3 DEF ParallelIsKept

\* Every step keeps it.
LEMMA KeptNext ==
  ASSUME CurrentIsLeaf, RegionsStay, ParallelIsKept, TypeInv, FollowInv, KeptInv, [Next]_vars
  PROVE  KeptInv'
<1> USE DEF machine, loop, work, clients, control, RegionLockHeld, InMacrostep
<1>1. CASE Lifecycle \/ Clients \/ UNCHANGED vars
  BY <1>1 DEF Lifecycle, Start, StartEntryFails, CancelParent, CallStop, LoopExits, StopReturns,
     Clients, SendEvent, SendEventWithPriority, AppendToBatch, vars, KeptInv, TypeInv, RoundOK
<1>2. CASE BeginTick \/ ProcessEvent \/ Microstep \/ EventDone \/ BeginMacrostep
  BY <1>2 DEF BeginTick, ProcessEvent, Microstep, EventDone, BeginMacrostep, KeptInv
<1>3. CASE BeginRegions
  <2>1. ASSUME OpenRegions # {} PROVE current \in Parallel
    <3>1. life \in {"starting", "running"}
      BY <1>3 DEF BeginRegions, TypeInv, TypeOK, RoundOK
    <3>2. PICK r \in Regions : region[r] # NoState
      BY <2>1 DEF OpenRegions
    <3>3. PlaceInv /\ Parent[r] \in Parallel /\ Parent[r] \in Ancestors(current)
      BY <3>1, <3>2 DEF FollowInv, Alive, PlaceInv, Regions
    <3> QED BY <3>3, CurrentIsParallel
  <2> QED BY <1>3, <2>1 DEF BeginRegions, KeptInv
<1>4. CASE TakeInternal \/ QueueEmpty \/ EndMacrostep
  BY <1>4 DEF TakeInternal, QueueEmpty, EndMacrostep, Completed, KeptInv
<1>5. ASSUME NEW e, NEW ok, NEW t \in PickTransitionHierarchical(current, e, ok),
             NEW eventless \in BOOLEAN, RegionLockHeld
      PROVE  ~Blocks(t) /\ (Execute(t, eventless) => UNCHANGED current)
  <2>1. t.target = NoState
    BY <1>5, KeptTransition DEF KeptInv
  <2> QED BY <2>1 DEF Blocks, Execute
<1>6. \A t : Blocks(t) => RegionLockHeld
  BY DEF Blocks
<1>7. CASE Dispatch
  <2>1. at = "dispatch" /\ UNCHANGED stage
    BY <1>7 DEF Dispatch
  <2>2. PICK ok \in SUBSET Guard :
          \/ UNCHANGED current /\ RouteToRegions
          \/ \E t \in PickTransitionHierarchical(current, inHand, ok) :
               \/ Blocks(t)
               \/ Execute(t, FALSE) /\ RouteToRegions
    BY <1>7 DEF Dispatch
  <2>3. RouteToRegions /\ (RegionLockHeld => UNCHANGED current)
    BY <1>5, <1>6, <2>2
  <2>4. at' \in {"deliver", "loop"}
    BY <2>3 DEF RouteToRegions
  <2> QED BY <2>1, <2>3, <2>4 DEF KeptInv
<1>8. CASE Eventless
  <2>1. at = "quiet" /\ UNCHANGED stage
    BY <1>8 DEF Eventless
  <2>2. PICK ok \in SUBSET Guard :
          \E t \in PickTransitionHierarchical(current, NoEvent, ok) :
            Blocks(t) \/ (Execute(t, TRUE) /\ at' = "loop")
    BY <1>8 DEF Eventless
  <2>3. at' = "loop" /\ (RegionLockHeld => UNCHANGED current)
    BY <1>5, <1>6, <2>2
  <2> QED BY <2>1, <2>3 DEF KeptInv
<1>9. CASE Deliver \/ RegionEventless
  BY <1>9 DEF Deliver, RegionEventless, ExecuteInRegion, MoveRegion, KeptInv
<1> QED BY <1>1, <1>2, <1>3, <1>4, <1>7, <1>8, <1>9 DEF Next, Tick, Macrostep

\* The tick goroutine never waits for itself, on the charts whose parallel
\* state is only left by stopping: the block needs a transition with a target
\* at the parallel state or above it, taken in the second macrostep.
THEOREM KeptNeverBlocks ==
  ASSUME CurrentIsLeaf, RegionsStay, ParallelIsKept
  PROVE  Spec => [](at # "stuck")
<1>1. Init => KeptInv
  BY DEF Init, KeptInv, RegionLockHeld, InMacrostep
<1>2. Init => FollowInv
  BY DEF Init, FollowInv, Alive
<1>3. TypeInv /\ FollowInv /\ [Next]_vars => FollowInv'
  BY FollowNext
<1>4. TypeInv /\ FollowInv /\ KeptInv /\ [Next]_vars => KeptInv'
  BY KeptNext
<1>5. KeptInv => at # "stuck"
  BY DEF KeptInv
<1> QED BY <1>1, <1>2, <1>3, <1>4, <1>5, TypeInvCorrect, PTL DEF Spec

=============================================================================
