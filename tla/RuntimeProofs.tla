--------------------------- MODULE RuntimeProofs ---------------------------
(***************************************************************************)
(* Invariants of the event-driven runtime, for every chart and every bound *)
(* that satisfy the assumptions of Chart and Runtime.                      *)
(***************************************************************************)
EXTENDS Runtime, ChartProofs

USE DEF IsTree, InitialsLead

-----------------------------------------------------------------------------
(***************************************************************************)
(* Where a selected transition leads.                                      *)
(***************************************************************************)

\* NoState is no pseudo-state.
LEMMA NoStateProper == NoState \notin HistoryState
BY TreeAssumption, PseudoStateAssumption DEF HistoryState

\* Only an internal transition resolves to nothing.
LEMMA ResolveNoState == Resolve(NoState) = {}
BY NoStateProper DEF Resolve, HistoryState

\* The parent of a history state is a compound state with an initial child.
LEMMA HistoryParent ==
  ASSUME NEW h \in HistoryState
  PROVE  /\ Parent[h] \in State
         /\ Initial[Parent[h]] \in State
         /\ Initial[Parent[h]] \notin HistoryState
<1>1. h \in State /\ h # Root
  BY PseudoStateAssumption DEF HistoryState
<1>2. Parent[h] \in State
  BY <1>1, TreeAssumption
<1>3. Children(Parent[h]) # {}
  BY <1>1 DEF Children
<1>4. Initial[Parent[h]] # NoState
  BY <1>2, <1>3, InitialAssumption, NonParallelAssumption
<1> QED BY <1>2, <1>4, InitialAssumption

\* No recorded history is a pseudo-state. This is what keeps a transition
\* from ending in one.
HistoriesProper ==
  \A p \in State : history[p] \notin HistoryState /\ deepHistory[p] \notin HistoryState

\* A transition leads to a state of the chart, and never to a pseudo-state.
LEMMA ResolvedTarget ==
  ASSUME TypeOK, HistoriesProper,
         NEW target \in State \cup {NoState}, NEW to \in Resolve(target)
  PROVE  to \in State \ HistoryState
<1>1. CASE target = NoState
  BY <1>1, ResolveNoState
<1>2. CASE target # NoState /\ target \in HistoryState
  <2> DEFINE p == Parent[target]
  <2>1. p \in State /\ Initial[p] \in State \ HistoryState
    BY <1>2, HistoryParent
  <2>2. FindDeepestInitial(Initial[p]) \in State \ HistoryState
    BY <2>1, DeepestInitialNoHistory, DeepestInitialBelow
  <2>3. HistoryDefault[target] \in (State \ HistoryState) \cup {NoState}
    BY <1>2, PseudoStateAssumption
  <2>4. /\ history[p] \in (State \ HistoryState) \cup {NoState}
        /\ deepHistory[p] \in (State \ HistoryState) \cup {NoState}
    BY <2>1, PseudoStateAssumption, TreeAssumption DEF TypeOK, HistoriesProper, HistoryState
  <2>5. RestoreShallowHistory(target) \in State \ HistoryState
    BY <2>1, <2>3, <2>4 DEF RestoreShallowHistory
  <2>6. RestoreDeepHistory(target) \in State \ HistoryState
    BY <2>2, <2>3, <2>4 DEF RestoreDeepHistory
  <2> QED BY <1>2, <2>5, <2>6 DEF Resolve, HistoryState
<1>3. CASE target # NoState /\ target \notin HistoryState
  BY <1>3 DEF Resolve, HistoryState
<1> QED BY <1>1, <1>2, <1>3

-----------------------------------------------------------------------------
(***************************************************************************)
(* Type correctness, with the pseudo-states kept out of the records.       *)
(***************************************************************************)

\* While a transition is being run, step says which; otherwise it is empty.
StepOK ==
  /\ step.to \notin HistoryState
  /\ phase = "acting" /\ step.to # NoState => step.from = current
  /\ phase = "acting" /\ step.eventless => micro < MaxMicrosteps

TypeInv == TypeOK /\ HistoriesProper /\ StepOK /\ current \notin HistoryState

\* What is exited are states above the one current was at, and no pseudo-state
\* is above another state.
LEMMA ExitedNoHistory ==
  ASSUME TypeInv, NEW to \in State, NEW c \in ExitedStates(current, to)
  PROVE  c \in State \ HistoryState
<1>1. c \in Ancestors(current) /\ current \in State
  BY DEF ExitedStates, TypeInv, TypeOK
<1>2. CASE c = current
  BY <1>1, <1>2 DEF TypeInv
<1>3. CASE c # current
  <2> DEFINE U == {current} \cup (State \ HistoryState)
  <2>1. ClosedUnderParent(U)
    BY <1>1, TreeAssumption, PseudoStateAssumption DEF ClosedUnderParent, Children
  <2>2. Ancestors(current) \subseteq U
    BY <1>1, <2>1, AncestorsLeast
  <2> QED BY <1>1, <1>3, <2>2, AncestorsInState
<1> QED BY <1>2, <1>3

\* The runtime starts at a proper state, with nothing recorded.
LEMMA InitTypeInv == Init => TypeInv
<1> SUFFICES ASSUME Init PROVE TypeInv
  OBVIOUS
<1>1. current \in State \ HistoryState
  <2>1. Root \in State \ HistoryState
    BY TreeAssumption, PseudoStateAssumption
  <2> QED BY <2>1, DeepestInitialBelow, DeepestInitialNoHistory DEF Init
<1>2. HistoriesProper
  BY NoStateProper DEF Init, HistoriesProper
<1>3. NoStep \in Step /\ NoStep.to = NoState
  BY DEF NoStep, Step
<1>4. queue \in Seq(EventID) /\ Len(queue) <= QueueCap
  BY RuntimeAssumption DEF Init
<1>5. TypeOK
  <2>1. step \in Step /\ current \in State
    BY <1>1, <1>3 DEF Init
  <2>2. micro \in 0 .. MaxMicrosteps /\ sent \in 0 .. MaxSends
    BY RuntimeAssumption DEF Init
  <2>3. /\ history \in [State -> State \cup {NoState}]
        /\ deepHistory \in [State -> State \cup {NoState}]
        /\ senders \in [State -> Nat]
        /\ lastConfig \in [State -> SUBSET State]
        /\ doneCount \in [State -> Nat]
    BY DEF Init
  <2> QED BY <1>4, <2>1, <2>2, <2>3 DEF TypeOK, Init
<1>6. StepOK
  BY <1>3, NoStateProper DEF Init, StepOK
<1> QED BY <1>1, <1>2, <1>5, <1>6 DEF TypeInv, Init

QueueOK == queue \in Seq(EventID) /\ Len(queue) <= QueueCap

\* Marking states complete keeps the types; only their parents are marked.
LEMMA CheckFinalStateType ==
  ASSUME TypeOK, NEW leaf \in State, CheckFinalState(leaf)
  PROVE  /\ donePending' \subseteq State
         /\ senders' \in [State -> Nat]
         /\ doneCount' \in [State -> Nat]
<1>1. NewlyDone(leaf) \subseteq State
  BY AncestorsInState DEF NewlyDone, DoneParents
<1> QED BY <1>1 DEF CheckFinalState, TypeOK

\* An action that sends an event keeps the queue within its capacity.
LEMMA RaiseType ==
  ASSUME TypeOK, NEW e \in Event \cup {NoEvent}, Raise(e)
  PROVE  QueueOK'
<1>1. CASE UNCHANGED queue
  BY <1>1 DEF TypeOK, QueueOK
<1>2. CASE e # NoEvent /\ Len(queue) < QueueCap /\ queue' = Append(queue, e)
  <2>1. e \in EventID
    BY <1>2 DEF EventID
  <2>2. queue' \in Seq(EventID) /\ Len(queue') = Len(queue) + 1
    BY <1>2, <2>1 DEF TypeOK
  <2>3. Len(queue) \in Nat
    BY DEF TypeOK
  <2> QED BY <1>2, <2>2, <2>3, RuntimeAssumption DEF QueueOK
<1> QED BY <1>1, <1>2 DEF Raise

\* The first half of a transition keeps the types.
LEMMA BeginType ==
  ASSUME TypeInv, NEW t \in Transition, NEW eventless \in BOOLEAN,
         eventless => MicrostepsLeft, Begin(t, eventless), QueueOK'
  PROVE  TypeInv'
<1>1. t.target \in State \cup {NoState} /\ t.raise \in Event \cup {NoEvent}
  BY DEF Transition
<1>2. CASE BeginExternal(t, eventless)
  <2>1. PICK to \in Resolve(t.target) :
          /\ ExitToLCA(ExitedStates(current, to))
          /\ step' = [from |-> current, to |-> to, restored |-> t.target \in HistoryState,
                      raise |-> t.raise, eventless |-> eventless]
    BY <1>2 DEF BeginExternal
  <2> DEFINE gone == ExitedStates(current, to)
  <2>2. to \in State \ HistoryState
    BY <1>1, ResolvedTarget DEF TypeInv
  <2>3. step' \in Step /\ step'.to = to /\ step'.from = current /\ step'.eventless = eventless
    BY <1>1, <2>1, <2>2 DEF Step, TypeInv, TypeOK
  <2>4. \A c \in gone : c \in State \ HistoryState
    BY <2>1, <2>2, ExitedNoHistory
  <2>5. /\ history' \in [State -> State \cup {NoState}]
        /\ \A p \in State : history'[p] \notin HistoryState
    <3>1. history' = RecordShallowHistory(gone)
      BY <2>1 DEF ExitToLCA
    <3>2. ASSUME NEW p \in State
          PROVE  RecordShallowHistory(gone)[p] \in (State \cup {NoState}) \ HistoryState
      BY <2>4 DEF RecordShallowHistory, TypeInv, TypeOK, HistoriesProper
    <3> QED BY <3>1, <3>2 DEF RecordShallowHistory
  <2>6. /\ active' \subseteq State /\ donePending' \subseteq State
        /\ lastConfig' \in [State -> SUBSET State]
        /\ doneCount' \in [State -> Nat]
    BY <2>1 DEF ExitToLCA, ClearDoneEvents, TypeInv, TypeOK
  <2>7. TypeOK'
    BY <2>3, <2>5, <2>6 DEF Begin, control, QueueOK, TypeInv, TypeOK
  <2>8. HistoriesProper'
    BY <2>5 DEF Begin, HistoriesProper, TypeInv
  <2>9. StepOK'
    BY <2>2, <2>3 DEF StepOK, Begin, MicrostepsLeft
  <2> QED BY <2>7, <2>8, <2>9 DEF TypeInv, Begin
<1>3. CASE BeginInternal(t, eventless)
  <2>1. step' = [NoStep EXCEPT !.raise = t.raise, !.eventless = eventless]
    BY <1>3 DEF BeginInternal
  <2>2. step' \in Step /\ step'.to = NoState /\ step'.eventless = eventless
    BY <1>1, <2>1 DEF Step, NoStep
  <2>3. TypeOK'
    BY <1>3, <2>2 DEF BeginInternal, Begin, control, observed, QueueOK, TypeInv, TypeOK
  <2>4. HistoriesProper'
    BY <1>3 DEF BeginInternal, Begin, HistoriesProper, TypeInv
  <2>5. StepOK'
    BY <2>2, NoStateProper DEF StepOK, Begin, MicrostepsLeft
  <2> QED BY <2>3, <2>4, <2>5 DEF TypeInv, Begin
<1> QED BY <1>2, <1>3 DEF Begin

\* The second half keeps the types, whether or not it enters a state.
LEMMA FinishType ==
  ASSUME TypeInv, Finish
  PROVE  TypeInv'
<1>1. step \in Step /\ step.raise \in Event \cup {NoEvent}
  BY DEF TypeInv, TypeOK, Step
<1>2. NoStep \in Step /\ NoStep.to = NoState
  BY DEF NoStep, Step
<1>3. QueueOK'
  BY <1>1, RaiseType DEF Finish, FinishExternal, FinishInternal, FinishInternalMicrostep, TypeInv
<1>4. step' = NoStep /\ phase' = "micro"
  BY DEF Finish, FinishExternal, FinishInternal, FinishInternalMicrostep
<1>5. StepOK'
  BY <1>2, <1>4, NoStateProper DEF StepOK
<1>6. micro' \in 0 .. MaxMicrosteps
  <2>1. step.eventless => micro + 1 \in 0 .. MaxMicrosteps
    BY RuntimeAssumption DEF TypeInv, TypeOK, StepOK, Finish, FinishExternal, FinishInternal,
       FinishInternalMicrostep
  <2> QED BY <2>1, RuntimeAssumption DEF Finish, FinishExternal, FinishInternal,
      FinishInternalMicrostep
<1>7. CASE FinishExternal
  <2> DEFINE leaf == FindDeepestInitial(step.to)
  <2>1. step.to \in State \ HistoryState
    BY <1>1, <1>7 DEF FinishExternal, TypeInv, StepOK, Step
  <2>2. leaf \in State \ HistoryState
    BY <2>1, DeepestInitialBelow, DeepestInitialNoHistory
  <2>3. EnterFromLCA
    BY <1>7 DEF FinishExternal
  <2>4. current' \in State \ HistoryState
    BY <2>1, <2>2, <2>3 DEF EnterFromLCA, CurrentAfter
  <2>5. /\ donePending' \subseteq State /\ senders' \in [State -> Nat]
        /\ doneCount' \in [State -> Nat]
    BY <2>2, <2>3, CheckFinalStateType DEF EnterFromLCA, TypeInv
  <2>6. active' \subseteq State
    BY <2>3, AncestorsInState DEF EnterFromLCA, TypeInv, TypeOK
  <2>7. /\ deepHistory' \in [State -> State \cup {NoState}]
        /\ \A p \in State : deepHistory'[p] \notin HistoryState
    BY <2>1, <2>3 DEF EnterFromLCA, RecordDeepHistory, TypeInv, TypeOK, HistoriesProper
  <2>8. TypeOK'
    BY <1>2, <1>3, <1>4, <1>6, <1>7, <2>4, <2>5, <2>6, <2>7
    DEF FinishExternal, control, QueueOK, TypeInv, TypeOK
  <2>9. HistoriesProper'
    BY <1>7, <2>7 DEF FinishExternal, HistoriesProper, TypeInv
  <2> QED BY <1>5, <2>4, <2>8, <2>9 DEF TypeInv
<1>8. CASE FinishInternal
  <2>1. /\ donePending' \subseteq State /\ senders' \in [State -> Nat]
        /\ doneCount' \in [State -> Nat]
    BY <1>8, CheckFinalStateType DEF FinishInternal, TypeInv, TypeOK
  <2>2. TypeOK'
    BY <1>2, <1>3, <1>4, <1>6, <1>8, <2>1 DEF FinishInternal, control, QueueOK, TypeInv, TypeOK
  <2> QED BY <1>5, <1>8, <2>2 DEF FinishInternal, TypeInv, HistoriesProper
<1>9. CASE FinishInternalMicrostep
  <2>1. TypeOK'
    BY <1>2, <1>3, <1>4, <1>6, <1>9
    DEF FinishInternalMicrostep, config, control, observed, QueueOK, TypeInv, TypeOK
  <2> QED BY <1>5, <1>9, <2>1 DEF FinishInternalMicrostep, config, TypeInv, HistoriesProper
<1> QED BY <1>7, <1>8, <1>9 DEF Finish

\* Whatever the loop takes up, it begins a transition of the chart.
LEMMA TakenTransition ==
  ASSUME TypeInv, TakeEvent \/ TakeEventless
  PROVE  \E t \in Transition, eventless \in BOOLEAN :
           Begin(t, eventless) /\ (eventless => MicrostepsLeft) /\ phase # "acting"
<1>1. CASE TakeEvent
  <2>1. PICK ok \in SUBSET Guard :
          \E t \in PickTransitionHierarchical(current, Head(queue), ok) : Begin(t, FALSE)
    BY <1>1 DEF TakeEvent
  <2>2. PICK t \in PickTransitionHierarchical(current, Head(queue), ok) : Begin(t, FALSE)
    BY <2>1
  <2>3. t \in Transition
    BY <2>2, PickedTransition DEF TypeInv, TypeOK
  <2> QED BY <1>1, <2>2, <2>3 DEF TakeEvent
<1>2. CASE TakeEventless
  <2>1. PICK ok \in SUBSET Guard :
          \E t \in PickTransitionHierarchical(current, NoEvent, ok) : Begin(t, TRUE)
    BY <1>2 DEF TakeEventless
  <2>2. PICK t \in PickTransitionHierarchical(current, NoEvent, ok) : Begin(t, TRUE)
    BY <2>1
  <2>3. t \in Transition
    BY <2>2, PickedTransition DEF TypeInv, TypeOK
  <2> QED BY <1>2, <2>2, <2>3 DEF TakeEventless
<1> QED BY <1>1, <1>2

\* Every step keeps the types, the queue bound and pseudo-states out of the
\* configuration and the records.
LEMMA NextTypeInv == TypeInv /\ [Next]_vars => TypeInv'
<1> SUFFICES ASSUME TypeInv, [Next]_vars PROVE TypeInv'
  OBVIOUS
<1> USE DEF config, observed, loop, control
<1>1. ASSUME UNCHANGED vars PROVE TypeInv'
  BY <1>1 DEF vars, TypeInv, TypeOK, HistoriesProper, StepOK
<1>2. ASSUME Start PROVE TypeInv'
  <2>1. /\ donePending' \subseteq State /\ senders' \in [State -> Nat]
        /\ doneCount' \in [State -> Nat]
    BY <1>2, CheckFinalStateType DEF Start, TypeInv, TypeOK
  <2>2. active' \subseteq State
    BY <1>2, AncestorsInState DEF Start
  <2> QED BY <1>2, <2>1, <2>2 DEF Start, TypeInv, TypeOK, HistoriesProper, StepOK
<1>3. ASSUME StartFails PROVE TypeInv'
  <2>1. active' \subseteq State
    BY <1>3, AncestorsInState DEF StartFails
  <2> QED BY <1>3, <2>1 DEF StartFails, TypeInv, TypeOK, HistoriesProper, StepOK
<1>4. ASSUME StartLoop PROVE TypeInv'
  BY <1>4 DEF StartLoop, TypeInv, TypeOK, HistoriesProper, StepOK
<1>5. ASSUME CancelParent \/ CallStop \/ StopReturns \/ LoopExits PROVE TypeInv'
  BY <1>5 DEF CancelParent, CallStop, StopReturns, LoopExits, TypeInv, TypeOK,
     HistoriesProper, StepOK
<1>6. ASSUME NEW p \in State, SenderDelivers(p) PROVE TypeInv'
  <2>1. DoneEvent[p] \in EventID
    BY DEF EventID
  <2>2. queue' \in Seq(EventID) /\ Len(queue') <= QueueCap
    BY <1>6, <2>1, RuntimeAssumption DEF SenderDelivers, TypeInv, TypeOK
  <2>3. senders' \in [State -> Nat]
    BY <1>6 DEF SenderDelivers, TypeInv, TypeOK
  <2> QED BY <1>6, <2>2, <2>3 DEF SenderDelivers, TypeInv, TypeOK, HistoriesProper, StepOK
<1>7. ASSUME NEW p \in State, SenderGivesUp(p) PROVE TypeInv'
  <2>1. senders' \in [State -> Nat]
    BY <1>7 DEF SenderGivesUp, TypeInv, TypeOK
  <2> QED BY <1>7, <2>1 DEF SenderGivesUp, TypeInv, TypeOK, HistoriesProper, StepOK
<1>8. ASSUME NEW e \in Event, Send(e) PROVE TypeInv'
  <2>1. e \in EventID
    BY DEF EventID
  <2>2. queue' \in Seq(EventID) /\ Len(queue') <= QueueCap /\ sent' \in 0 .. MaxSends
    BY <1>8, <2>1, RuntimeAssumption DEF Send, TypeInv, TypeOK
  <2> QED BY <1>8, <2>2 DEF Send, TypeInv, TypeOK, HistoriesProper, StepOK
<1>9. ASSUME queue # <<>>, queue' = Tail(queue) PROVE QueueOK'
  <2>1. queue \in Seq(EventID) /\ Len(queue) <= QueueCap
    BY DEF TypeInv, TypeOK
  <2>2. Tail(queue) \in Seq(EventID) /\ Len(Tail(queue)) = Len(queue) - 1
    BY <1>9, <2>1
  <2> QED BY <1>9, <2>1, <2>2, RuntimeAssumption DEF QueueOK
<1>10. ASSUME TakeEvent \/ TakeEventless PROVE TypeInv'
  <2>1. QueueOK'
    BY <1>9, <1>10 DEF TakeEvent, TakeEventless, QueueOK, TypeInv, TypeOK
  <2> QED BY <1>10, <2>1, TakenTransition, BeginType
<1>11. ASSUME IgnoreEvent PROVE TypeInv'
  BY <1>9, <1>11 DEF IgnoreEvent, QueueOK, TypeInv, TypeOK, HistoriesProper, StepOK
<1>12. ASSUME Stable \/ MicrostepLimit PROVE TypeInv'
  BY <1>12, RuntimeAssumption DEF Stable, MicrostepLimit, TypeInv, TypeOK, HistoriesProper, StepOK
<1>13. ASSUME Finish PROVE TypeInv'
  BY <1>13, FinishType
<1> QED
  BY <1>1, <1>2, <1>3, <1>4, <1>5, <1>6, <1>7, <1>8, <1>10, <1>11, <1>12, <1>13
  DEF Next, Lifecycle, Senders, Macrostep

\* Every reachable state has its types, never more than QueueCap events wait,
\* and the microstep counter keeps within its bound.
THEOREM TypeCorrect == Spec => []TypeOK
<1>1. Spec => []TypeInv
  BY InitTypeInv, NextTypeInv, PTL DEF Spec
<1> QED BY <1>1, PTL DEF TypeInv

\* Neither rt.current nor a recorded history is ever a pseudo-state.
LEMMA TypeInvCorrect == Spec => []TypeInv
BY InitTypeInv, NextTypeInv, PTL DEF Spec

-----------------------------------------------------------------------------
(***************************************************************************)
(* What is reported is active, on every chart. In the middle of a          *)
(* transition only the states above the least common ancestor remain.      *)
(***************************************************************************)
ReportedInv ==
  Started =>
    /\ phase # "acting" \/ step.to = NoState => Ancestors(current) \subseteq active
    /\ phase = "acting" /\ step.to # NoState =>
         Ancestors(ComputeLCA(step.from, step.to)) \subseteq active

\* Before Start nothing is reported.
LEMMA InitReportedInv == Init => ReportedInv
BY DEF Init, ReportedInv, Started

\* The exits leave the common ancestors alone.
LEMMA BeginReported ==
  ASSUME TypeInv, ReportedInv, NEW t \in Transition, NEW eventless \in BOOLEAN,
         Begin(t, eventless), phase # "acting"
  PROVE  ReportedInv'
<1>1. CASE BeginExternal(t, eventless)
  <2>1. PICK to \in Resolve(t.target) :
          /\ ExitToLCA(ExitedStates(current, to))
          /\ step' = [from |-> current, to |-> to, restored |-> t.target \in HistoryState,
                      raise |-> t.raise, eventless |-> eventless]
    BY <1>1 DEF BeginExternal
  <2>2. to \in State /\ current \in State
    BY <2>1, ResolvedTarget DEF TypeInv, TypeOK, Transition
  <2>3. step'.from = current /\ step'.to = to
    BY <2>1
  <2>4. active' = active \ (Ancestors(current) \ Ancestors(ComputeLCA(current, to)))
    BY <2>1 DEF ExitToLCA, ExitedStates
  <2>5. Ancestors(ComputeLCA(current, to)) \subseteq Ancestors(current)
    BY <2>2, LCAAboveBoth
  <2>6. Started => Ancestors(current) \subseteq active
    BY DEF ReportedInv
  <2>7. Started' => Ancestors(ComputeLCA(current, to)) \subseteq active'
    BY <2>4, <2>5, <2>6 DEF Begin, control, Started
  <2>8. phase' = "acting" /\ step'.to # NoState
    BY <2>2, <2>3, TreeAssumption DEF Begin
  <2> QED BY <2>3, <2>7, <2>8 DEF ReportedInv
<1>2. CASE BeginInternal(t, eventless)
  <2>1. step'.to = NoState
    BY <1>2 DEF BeginInternal, NoStep
  <2> QED BY <1>2, <2>1 DEF BeginInternal, Begin, control, ReportedInv, Started
<1> QED BY <1>1, <1>2 DEF Begin

\* Every step keeps what is reported active; the two halves of a transition
\* meet at the least common ancestor.
LEMMA NextReportedInv == TypeInv /\ ReportedInv /\ [Next]_vars => ReportedInv'
<1> SUFFICES ASSUME TypeInv, ReportedInv, [Next]_vars PROVE ReportedInv'
  OBVIOUS
<1> USE DEF config, observed, loop, control
<1>1. ASSUME UNCHANGED <<life, phase, step, current, active>> PROVE ReportedInv'
  BY <1>1 DEF ReportedInv, Started
<1>2. ASSUME Start PROVE ReportedInv'
  BY <1>2 DEF Start, ReportedInv, Started
<1>3. ASSUME StartFails PROVE ReportedInv'
  BY <1>3 DEF StartFails, ReportedInv, Started
<1>4. ASSUME StartLoop \/ LoopExits PROVE ReportedInv'
  BY <1>4 DEF StartLoop, LoopExits, ReportedInv, Started
<1>5. ASSUME TakeEvent \/ TakeEventless PROVE ReportedInv'
  BY <1>5, TakenTransition, BeginReported
<1>6. ASSUME Stable \/ MicrostepLimit PROVE ReportedInv'
  BY <1>6 DEF Stable, MicrostepLimit, ReportedInv, Started
<1>7. ASSUME FinishExternal PROVE ReportedInv'
  <2> DEFINE lca == ComputeLCA(step.from, step.to)
             leaf == FindDeepestInitial(step.to)
  <2>1. step.to \in State
    BY <1>7 DEF FinishExternal, TypeInv, TypeOK, Step
  <2>2. leaf \in State /\ step.to \in Ancestors(leaf)
    BY <2>1, DeepestInitialBelow
  <2>3. Ancestors(step.to) \subseteq Ancestors(leaf)
    BY <2>2, AncestorsTransitive
  <2>4. active' = active \cup (Ancestors(leaf) \ Ancestors(lca))
    BY <1>7 DEF FinishExternal, EnterFromLCA
  <2>5. Started => Ancestors(lca) \subseteq active
    BY <1>7 DEF FinishExternal, ReportedInv
  <2>6. Started => Ancestors(leaf) \subseteq active'
    BY <2>4, <2>5
  <2>7. current' \in {step.to, leaf}
    BY <1>7 DEF FinishExternal, EnterFromLCA, CurrentAfter
  <2> QED BY <1>7, <2>3, <2>6, <2>7 DEF FinishExternal, ReportedInv, Started
<1>8. ASSUME FinishInternal \/ FinishInternalMicrostep PROVE ReportedInv'
  BY <1>8 DEF FinishInternal, FinishInternalMicrostep, ReportedInv, Started
<1> QED
  BY <1>1, <1>2, <1>3, <1>4, <1>5, <1>6, <1>7, <1>8
  DEF Next, vars, Lifecycle, Senders, Macrostep, Finish, CancelParent, CallStop, StopReturns,
      SenderDelivers, SenderGivesUp, Send, IgnoreEvent

\* On every chart, whenever rt.mu is free the states IsInState derives from
\* rt.current have all been entered and not been exited.
THEOREM ReportedIsActiveCorrect == Spec => []ReportedIsActive
<1>1. Spec => [](TypeInv /\ ReportedInv)
  BY InitTypeInv, NextTypeInv, InitReportedInv, NextReportedInv, PTL DEF Spec
<1>2. ReportedInv => ReportedIsActive
  BY DEF ReportedInv, ReportedIsActive
<1> QED BY <1>1, <1>2, PTL

-----------------------------------------------------------------------------
(***************************************************************************)
(* The configuration, on charts whose eventless transitions go to atomic   *)
(* states: what is active is exactly the path to rt.current.               *)
(***************************************************************************)
ConfigInv ==
  /\ life = "new" => Children(current) = {}
  /\ EventlessTargetsAtomic /\ Started =>
       /\ phase # "acting" \/ step.to = NoState =>
            active = Ancestors(current) /\ Children(current) = {}
       /\ phase = "acting" /\ step.to # NoState =>
            /\ active = Ancestors(ComputeLCA(step.from, step.to))
            /\ step.eventless => Initial[step.to] = NoState

\* The life of the runtime and its loop: no macrostep before Start or after
\* the loop is gone, and Stop returns only then.
LifeInv ==
  /\ life \in {"new", "failed", "exited"} => phase = "idle"
  /\ ~StopDuringStart =>
       /\ stop # "none" => life \notin {"new", "starting"}
       /\ stop = "returned" => life \in {"failed", "exited"}

\* Every step keeps the order of Start, the loop and Stop.
LEMMA NextLifeInv == TypeInv /\ LifeInv /\ [Next]_vars => LifeInv'
<1> SUFFICES ASSUME TypeInv, LifeInv, [Next]_vars PROVE LifeInv'
  OBVIOUS
<1>1. ASSUME UNCHANGED <<life, stop, phase>> PROVE LifeInv'
  BY <1>1 DEF LifeInv
<1>2. ASSUME Start \/ StartFails \/ StartLoop PROVE LifeInv'
  BY <1>2 DEF Start, StartFails, StartLoop, loop, LifeInv
<1>3. ASSUME CallStop \/ LoopExits PROVE LifeInv'
  BY <1>3 DEF CallStop, LoopExits, loop, LifeInv
<1>4. ASSUME StopReturns PROVE LifeInv'
  BY <1>4 DEF StopReturns, loop, LifeInv, TypeInv, TypeOK
<1>5. ASSUME UNCHANGED <<life, stop>>, life \notin {"new", "failed", "exited"} PROVE LifeInv'
  BY <1>5 DEF LifeInv
<1>6. ASSUME TakeEvent \/ TakeEventless \/ Stable \/ MicrostepLimit \/ Finish PROVE LifeInv'
  BY <1>5, <1>6 DEF TakeEvent, TakeEventless, Begin, Stable, MicrostepLimit, Finish,
     FinishExternal, FinishInternal, FinishInternalMicrostep, control, LifeInv
<1> QED
  BY <1>1, <1>2, <1>3, <1>4, <1>6
  DEF Next, vars, loop, control, Lifecycle, Senders, Macrostep, CancelParent,
      SenderDelivers, SenderGivesUp, Send, IgnoreEvent

\* No macrostep runs before Start or after the loop is gone.
LEMMA LifeInvCorrect == Spec => []LifeInv
<1>1. Init => LifeInv
  BY DEF Init, LifeInv
<1> QED BY <1>1, InitTypeInv, NextTypeInv, NextLifeInv, PTL DEF Spec

\* A leaf of the descent has no children.
LEMMA LeafIsAtomic ==
  ASSUME NEW s \in State
  PROVE  Children(FindDeepestInitial(s)) = {}
<1>1. FindDeepestInitial(s) \in State /\ InitialChild(FindDeepestInitial(s)) = NoState
  BY DeepestInitialBelow
<1> QED BY <1>1, AtomicIffNoInitial, NonParallelAssumption DEF InitialChild

\* Before Start rt.current already is the initial leaf.
LEMMA InitConfigInv == Init => ConfigInv
BY LeafIsAtomic, TreeAssumption DEF Init, ConfigInv, Started

\* The first half of a transition that was selected for the event e.
LEMMA BeginConfig ==
  ASSUME TypeInv, ConfigInv, phase # "acting", NEW ok, NEW e, NEW eventless \in BOOLEAN,
         eventless => e = NoEvent,
         NEW t \in PickTransitionHierarchical(current, e, ok), Begin(t, eventless)
  PROVE  ConfigInv'
<1>1. current \in State
  BY DEF TypeInv, TypeOK
<1>2. t \in Transition
  BY <1>1, PickedTransition
<1>3. CASE BeginExternal(t, eventless)
  <2>1. PICK to \in Resolve(t.target) :
          /\ ExitToLCA(ExitedStates(current, to))
          /\ step' = [from |-> current, to |-> to, restored |-> t.target \in HistoryState,
                      raise |-> t.raise, eventless |-> eventless]
    BY <1>3 DEF BeginExternal
  <2>2. to \in State
    BY <1>2, <2>1, ResolvedTarget DEF TypeInv, Transition
  <2>3. step'.from = current /\ step'.to = to /\ step'.eventless = eventless
    BY <2>1
  <2>4. active' = active \ (Ancestors(current) \ Ancestors(ComputeLCA(current, to)))
    BY <2>1 DEF ExitToLCA, ExitedStates
  <2>5. Ancestors(ComputeLCA(current, to)) \subseteq Ancestors(current)
    BY <1>1, <2>2, LCAAboveBoth
  <2>6. EventlessTargetsAtomic /\ Started => active' = Ancestors(ComputeLCA(current, to))
    BY <2>4, <2>5 DEF ConfigInv
  <2>7. ASSUME EventlessTargetsAtomic, eventless PROVE Initial[to] = NoState
    <3>1. PICK a \in State : \E i \in DOMAIN Transitions[a] :
            t = Transitions[a][i] /\ t.event = NoEvent
      BY <1>1, <2>7, PickedTransition
    <3>2. t.target # NoState
      BY <2>1, ResolveNoState
    <3>3. t.target \notin HistoryState /\ Initial[t.target] = NoState
      BY <2>7, <3>1, <3>2 DEF EventlessTargetsAtomic
    <3>4. to = t.target
      BY <2>1, <3>2, <3>3 DEF Resolve, HistoryState
    <3> QED BY <3>3, <3>4
  <2>8. phase' = "acting" /\ step'.to # NoState /\ Started' = Started
    BY <2>2, <2>3, TreeAssumption DEF Begin, control, Started
  <2> QED BY <2>3, <2>6, <2>7, <2>8 DEF ConfigInv, Begin, control
<1>4. CASE BeginInternal(t, eventless)
  <2>1. step'.to = NoState
    BY <1>4 DEF BeginInternal, NoStep
  <2> QED BY <1>4, <2>1 DEF BeginInternal, Begin, control, ConfigInv, Started
<1> QED BY <1>3, <1>4 DEF Begin

\* The second half of a transition with a target.
LEMMA FinishConfig ==
  ASSUME TypeInv, LifeInv, ConfigInv, FinishExternal
  PROVE  ConfigInv'
<1> DEFINE lca == ComputeLCA(step.from, step.to)
           leaf == FindDeepestInitial(step.to)
<1>1. step.to \in State /\ step.from \in State
  BY DEF FinishExternal, TypeInv, TypeOK, StepOK, Step
<1>2. leaf \in State /\ step.to \in Ancestors(leaf) /\ Children(leaf) = {}
  BY <1>1, DeepestInitialBelow, LeafIsAtomic
<1>3. Ancestors(lca) \subseteq Ancestors(leaf)
  <2>1. Ancestors(lca) \subseteq Ancestors(step.to)
    BY <1>1, LCAAboveBoth
  <2>2. Ancestors(step.to) \subseteq Ancestors(leaf)
    BY <1>2, AncestorsTransitive
  <2> QED BY <2>1, <2>2
<1>4. active' = active \cup (Ancestors(leaf) \ Ancestors(lca))
  BY DEF FinishExternal, EnterFromLCA
<1>5. EventlessTargetsAtomic /\ Started => active' = Ancestors(leaf)
  BY <1>3, <1>4 DEF FinishExternal, ConfigInv
<1>6. current' = IF step.eventless THEN step.to ELSE leaf
  BY DEF FinishExternal, EnterFromLCA, CurrentAfter
<1>7. ASSUME EventlessTargetsAtomic, Started PROVE current' = leaf
  <2>1. step.eventless => Initial[step.to] = NoState
    BY <1>7 DEF FinishExternal, ConfigInv
  <2>2. step.eventless => leaf = step.to
    BY <1>1, <2>1, DeepestInitialAtomic
  <2> QED BY <1>6, <2>2
<1>8. phase' = "micro" /\ Started' = Started /\ life' # "new"
  BY DEF FinishExternal, control, Started, LifeInv
<1> QED BY <1>2, <1>5, <1>7, <1>8 DEF ConfigInv

\* Every step keeps the active states the path to rt.current, less what a
\* transition under way has exited.
LEMMA NextConfigInv == TypeInv /\ LifeInv /\ ConfigInv /\ [Next]_vars => ConfigInv'
<1> SUFFICES ASSUME TypeInv, LifeInv, ConfigInv, [Next]_vars PROVE ConfigInv'
  OBVIOUS
<1> USE DEF config, observed, loop, control
<1>1. ASSUME UNCHANGED <<life, phase, step, current, active>> PROVE ConfigInv'
  BY <1>1 DEF ConfigInv, Started
<1>2. ASSUME Start \/ StartFails \/ StartLoop \/ LoopExits PROVE ConfigInv'
  BY <1>2 DEF Start, StartFails, StartLoop, LoopExits, ConfigInv, Started
<1>3. ASSUME TakeEvent PROVE ConfigInv'
  <2>1. PICK ok \in SUBSET Guard :
          \E t \in PickTransitionHierarchical(current, Head(queue), ok) : Begin(t, FALSE)
    BY <1>3 DEF TakeEvent
  <2> QED BY <1>3, <2>1, BeginConfig DEF TakeEvent
<1>4. ASSUME TakeEventless PROVE ConfigInv'
  <2>1. PICK ok \in SUBSET Guard :
          \E t \in PickTransitionHierarchical(current, NoEvent, ok) : Begin(t, TRUE)
    BY <1>4 DEF TakeEventless
  <2> QED BY <1>4, <2>1, BeginConfig DEF TakeEventless
<1>5. ASSUME Stable \/ MicrostepLimit \/ FinishInternal \/ FinishInternalMicrostep
      PROVE ConfigInv'
  BY <1>5 DEF Stable, MicrostepLimit, FinishInternal, FinishInternalMicrostep, ConfigInv, Started
<1>6. ASSUME FinishExternal PROVE ConfigInv'
  BY <1>6, FinishConfig
<1> QED
  BY <1>1, <1>2, <1>3, <1>4, <1>5, <1>6
  DEF Next, vars, Lifecycle, Senders, Macrostep, Finish, CancelParent, CallStop, StopReturns,
      SenderDelivers, SenderGivesUp, Send, IgnoreEvent

\* Between macrosteps rt.current is an atomic state and the active states are
\* exactly those from the root to it, on every chart whose eventless
\* transitions go to atomic states.
THEOREM StableConfigurationCorrect == Spec => []StableConfiguration
<1>1. TypeInv /\ ConfigInv => StableConfiguration
  BY DEF TypeInv, ConfigInv, StableConfiguration
<1>2. Spec => [](TypeInv /\ ConfigInv)
  BY InitTypeInv, NextTypeInv, InitConfigInv, NextConfigInv, LifeInvCorrect, PTL DEF Spec
<1> QED BY <1>1, <1>2, PTL

\* rt.current is the deepest entered state, as the comments have it, on those
\* charts: only an eventless transition to a compound state or to a history
\* leaves states behind.
THEOREM NoOrphansCorrect == Spec => [](EventlessTargetsAtomic => NoOrphans)
<1>1. StableConfiguration => (EventlessTargetsAtomic => NoOrphans)
  BY DEF StableConfiguration, NoOrphans
<1> QED BY <1>1, StableConfigurationCorrect, PTL

-----------------------------------------------------------------------------
\* When a macrostep has ended below the microstep bound, no unguarded eventless
\* transition is left on the path of rt.current.
SettledInv ==
  life \in {"starting", "running"} /\ phase = "idle" /\ micro < MaxMicrosteps =>
    \A s \in Ancestors(current) : \A i \in DOMAIN Transitions[s] :
      ~ (Transitions[s][i].event = NoEvent /\ Transitions[s][i].guard = NoGuard)

\* The loop asks the whole path before it takes the next event.
LEMMA NextSettledInv == TypeInv /\ LifeInv /\ SettledInv /\ [Next]_vars => SettledInv'
<1> SUFFICES ASSUME TypeInv, LifeInv, SettledInv, [Next]_vars PROVE SettledInv'
  OBVIOUS
<1> USE DEF config, observed, loop, control
<1>1. ASSUME UNCHANGED <<current, phase, micro>>,
             life' \in {"starting", "running"} => life \in {"starting", "running"}
      PROVE  SettledInv'
  BY <1>1 DEF SettledInv
<1>2. ASSUME phase' # "idle" PROVE SettledInv'
  BY <1>2 DEF SettledInv
<1>3. ASSUME Start PROVE SettledInv'
  BY <1>2, <1>3 DEF Start
<1>4. ASSUME StartFails \/ StartLoop \/ LoopExits PROVE SettledInv'
  BY <1>1, <1>4 DEF StartFails, StartLoop, LoopExits
<1>5. ASSUME TakeEvent \/ TakeEventless \/ Finish PROVE SettledInv'
  BY <1>2, <1>5 DEF TakeEvent, TakeEventless, Begin, Finish, FinishExternal,
     FinishInternal, FinishInternalMicrostep
<1>6. ASSUME Stable PROVE SettledInv'
  <2>1. PICK ok \in SUBSET Guard : PickTransitionHierarchical(current, NoEvent, ok) = {}
    BY <1>6 DEF Stable
  <2>2. \A s \in Ancestors(current) : Matches(s, NoEvent, ok) = {}
    BY <2>1, NothingPicked DEF TypeInv, TypeOK
  <2>3. current' = current
    BY <1>6 DEF Stable
  <2> QED BY <2>2, <2>3 DEF SettledInv, Matches, ExactMatches, Passes
<1>7. ASSUME MicrostepLimit PROVE SettledInv'
  BY <1>7 DEF MicrostepLimit, MicrostepsLeft, SettledInv
<1> QED
  BY <1>1, <1>3, <1>4, <1>5, <1>6, <1>7
  DEF Next, vars, Lifecycle, Senders, Macrostep, CancelParent, CallStop, StopReturns,
      SenderDelivers, SenderGivesUp, Send, IgnoreEvent

\* On every chart whose eventless transitions go to atomic states the loop
\* takes the next event only when no unguarded eventless transition of an
\* active state is left, unless the microstep bound cut the macrostep off.
THEOREM RunToCompletionCorrect == Spec => []RunToCompletion
<1>1. Init => SettledInv
  BY DEF Init, SettledInv
<1>2. Spec => [](TypeInv /\ ConfigInv /\ SettledInv)
  BY <1>1, InitTypeInv, NextTypeInv, InitConfigInv, NextConfigInv, LifeInvCorrect,
     NextSettledInv, PTL DEF Spec
<1>3. TypeInv /\ ConfigInv /\ SettledInv => RunToCompletion
  BY DEF ConfigInv, SettledInv, RunToCompletion, Started
<1> QED BY <1>2, <1>3, PTL

-----------------------------------------------------------------------------
\* What is recorded as history: a child that was exited, or the target of a
\* transition that ended below.
LEMMA NextHistoryWithin == TypeInv /\ HistoryWithin /\ [Next]_vars => HistoryWithin'
<1> SUFFICES ASSUME TypeInv, HistoryWithin, [Next]_vars PROVE HistoryWithin'
  OBVIOUS
<1> USE DEF config, observed, loop, control
<1>1. ASSUME UNCHANGED <<history, deepHistory>> PROVE HistoryWithin'
  BY <1>1 DEF HistoryWithin
<1>2. ASSUME NEW t \in Transition, NEW eventless \in BOOLEAN, BeginExternal(t, eventless),
             UNCHANGED deepHistory
      PROVE  HistoryWithin'
  <2>1. PICK to \in Resolve(t.target) : ExitToLCA(ExitedStates(current, to))
    BY <1>2 DEF BeginExternal
  <2>2. to \in State
    BY <2>1, ResolvedTarget DEF TypeInv, Transition
  <2>3. \A c \in ExitedStates(current, to) : c \in State \ HistoryState
    BY <2>2, ExitedNoHistory
  <2>4. history' = RecordShallowHistory(ExitedStates(current, to))
    BY <2>1 DEF ExitToLCA
  <2>5. ASSUME NEW p \in State, history'[p] # NoState
        PROVE  history'[p] \in Children(p) \ HistoryState
    BY <2>3, <2>4, <2>5 DEF RecordShallowHistory, HistoryWithin, Children
  <2> QED BY <1>2, <2>5 DEF HistoryWithin
<1>3. ASSUME NEW t \in Transition, NEW eventless \in BOOLEAN, Begin(t, eventless)
      PROVE  HistoryWithin'
  BY <1>1, <1>2, <1>3 DEF Begin, BeginInternal
<1>4. ASSUME TakeEvent \/ TakeEventless PROVE HistoryWithin'
  BY <1>3, <1>4, TakenTransition
<1>5. ASSUME FinishExternal PROVE HistoryWithin'
  <2>1. step.to \in State \ HistoryState
    BY <1>5 DEF FinishExternal, TypeInv, TypeOK, StepOK, Step
  <2>2. deepHistory' = RecordDeepHistory(step.to, step.restored) /\ UNCHANGED history
    BY <1>5 DEF FinishExternal, EnterFromLCA
  <2>3. ASSUME NEW p \in State, deepHistory'[p] # NoState
        PROVE  /\ p \in Ancestors(deepHistory'[p]) \ {deepHistory'[p]}
               /\ deepHistory'[p] \notin HistoryState
    BY <2>1, <2>2, <2>3 DEF RecordDeepHistory, HistoryWithin
  <2> QED BY <2>2, <2>3 DEF HistoryWithin
<1> QED
  BY <1>1, <1>4, <1>5
  DEF Next, vars, Lifecycle, Senders, Macrostep, Finish, CancelParent, CallStop, StopReturns,
      SenderDelivers, SenderGivesUp, Send, IgnoreEvent, Start, StartFails, StartLoop, LoopExits,
      Stable, MicrostepLimit, FinishInternal, FinishInternalMicrostep

\* On every chart a history leads back below the state it was recorded for,
\* and never to a pseudo-state.
THEOREM HistoryWithinCorrect == Spec => []HistoryWithin
<1>1. Init => HistoryWithin
  BY DEF Init, HistoryWithin
<1>2. Spec => [](TypeInv /\ HistoryWithin)
  BY <1>1, InitTypeInv, NextTypeInv, NextHistoryWithin, PTL DEF Spec
<1> QED BY <1>2, PTL

-----------------------------------------------------------------------------
(***************************************************************************)
(* Done events: the pending flag of a state counts its generated events.   *)
(***************************************************************************)
DoneInv ==
  /\ \A p \in State : doneCount[p] = IF p \in donePending THEN 1 ELSE 0
  /\ Started /\ (phase # "acting" \/ step.to = NoState) /\ current \in Final =>
       DoneParents(current) \subseteq donePending

\* checkFinalState marks and counts the same states, and leaves no completed
\* state of a final leaf unmarked.
LEMMA CheckFinalStateDone ==
  ASSUME TypeInv, NEW leaf \in State, CheckFinalState(leaf),
         \A p \in State : doneCount[p] = IF p \in donePending THEN 1 ELSE 0
  PROVE  /\ \A p \in State : doneCount'[p] = IF p \in donePending' THEN 1 ELSE 0
         /\ leaf \in Final => DoneParents(leaf) \subseteq donePending'
<1> DEFINE done == NewlyDone(leaf)
<1>1. /\ donePending' = donePending \cup done
      /\ doneCount' = [p \in State |-> IF p \in done THEN doneCount[p] + 1 ELSE doneCount[p]]
  BY DEF CheckFinalState
<1>2. done \cap donePending = {}
  BY DEF NewlyDone
<1>3. ASSUME NEW p \in State PROVE doneCount'[p] = IF p \in donePending' THEN 1 ELSE 0
  BY <1>1, <1>2
<1>4. leaf \in Final => DoneParents(leaf) \subseteq donePending'
  BY <1>1 DEF NewlyDone
<1> QED BY <1>3, <1>4

\* The exits clear the flag and the count of the same states.
LEMMA BeginDone ==
  ASSUME DoneInv, TypeInv, NEW t \in Transition, NEW eventless \in BOOLEAN,
         Begin(t, eventless), phase # "acting"
  PROVE  DoneInv'
<1>1. CASE BeginExternal(t, eventless)
  <2>1. PICK to \in Resolve(t.target) :
          /\ ExitToLCA(ExitedStates(current, to))
          /\ step' = [from |-> current, to |-> to, restored |-> t.target \in HistoryState,
                      raise |-> t.raise, eventless |-> eventless]
    BY <1>1 DEF BeginExternal
  <2>2. to \in State
    BY <2>1, ResolvedTarget DEF TypeInv, Transition
  <2>3. phase' = "acting" /\ step'.to # NoState
    BY <2>1, <2>2, TreeAssumption DEF Begin
  <2> DEFINE gone == ExitedStates(current, to)
  <2>4. /\ donePending' = donePending \ gone
        /\ doneCount' = [p \in State |-> IF p \in gone THEN 0 ELSE doneCount[p]]
    BY <2>1 DEF ExitToLCA, ClearDoneEvents
  <2>5. ASSUME NEW p \in State PROVE doneCount'[p] = IF p \in donePending' THEN 1 ELSE 0
    BY <2>4 DEF DoneInv
  <2> QED BY <2>3, <2>5 DEF DoneInv
<1>2. CASE BeginInternal(t, eventless)
  BY <1>2 DEF BeginInternal, Begin, control, observed, DoneInv, Started
<1> QED BY <1>1, <1>2 DEF Begin

\* Every step keeps flags and counts together, and a final leaf announced.
LEMMA NextDoneInv == TypeInv /\ LifeInv /\ DoneInv /\ [Next]_vars => DoneInv'
<1> SUFFICES ASSUME TypeInv, LifeInv, DoneInv, [Next]_vars PROVE DoneInv'
  OBVIOUS
<1> USE DEF config, observed, loop, control
<1>1. ASSUME UNCHANGED <<life, phase, step, current, donePending, doneCount>> PROVE DoneInv'
  BY <1>1 DEF DoneInv, Started
<1>2. ASSUME Start PROVE DoneInv'
  <2>1. current \in State /\ CheckFinalState(current) /\ current' = current
    BY <1>2 DEF Start, TypeInv, TypeOK
  <2> QED BY <2>1, CheckFinalStateDone DEF DoneInv
<1>3. ASSUME StartFails \/ StartLoop \/ LoopExits PROVE DoneInv'
  BY <1>3 DEF StartFails, StartLoop, LoopExits, DoneInv, Started
<1>4. ASSUME TakeEvent \/ TakeEventless PROVE DoneInv'
  BY <1>4, TakenTransition, BeginDone
<1>5. ASSUME Stable \/ MicrostepLimit PROVE DoneInv'
  BY <1>5 DEF Stable, MicrostepLimit, DoneInv, Started
<1>6. ASSUME FinishExternal PROVE DoneInv'
  <2> DEFINE leaf == FindDeepestInitial(step.to)
  <2>1. step.to \in State
    BY <1>6 DEF FinishExternal, TypeInv, TypeOK, Step
  <2>2. leaf \in State
    BY <2>1, DeepestInitialBelow
  <2>3. CheckFinalState(leaf)
    BY <1>6 DEF FinishExternal, EnterFromLCA
  <2>4. ASSUME current' \in Final PROVE current' = leaf
    <3>1. current' = IF step.eventless THEN step.to ELSE leaf
      BY <1>6 DEF FinishExternal, EnterFromLCA, CurrentAfter
    <3>2. step.to \in Final => Initial[step.to] = NoState
      BY <2>1, AtomicIffNoInitial, PseudoStateAssumption, NonParallelAssumption
    <3> QED BY <2>1, <2>4, <3>1, <3>2, DeepestInitialAtomic
  <2> QED BY <2>2, <2>3, <2>4, CheckFinalStateDone DEF DoneInv
<1>7. ASSUME FinishInternal PROVE DoneInv'
  <2>1. current \in State /\ CheckFinalState(current) /\ current' = current
    BY <1>7 DEF FinishInternal, TypeInv, TypeOK
  <2> QED BY <2>1, CheckFinalStateDone DEF DoneInv
<1>8. ASSUME FinishInternalMicrostep PROVE DoneInv'
  <2>1. phase = "acting" /\ step.to = NoState
    BY <1>8 DEF FinishInternalMicrostep
  <2> QED BY <1>8, <2>1 DEF FinishInternalMicrostep, DoneInv, Started
<1> QED
  BY <1>1, <1>2, <1>3, <1>4, <1>5, <1>6, <1>7, <1>8
  DEF Next, vars, Lifecycle, Senders, Macrostep, Finish, CancelParent, CallStop, StopReturns,
      SenderDelivers, SenderGivesUp, Send, IgnoreEvent

\* On every chart a stay in a compound state generates at most one done event,
\* and has generated it when the runtime rests in the final child.
THEOREM DoneExactlyOnceCorrect == Spec => []DoneExactlyOnce
<1>1. Init => DoneInv
  BY DEF Init, DoneInv, Started
<1>2. DoneInv => DoneExactlyOnce
  <2> SUFFICES ASSUME DoneInv PROVE DoneExactlyOnce
    OBVIOUS
  <2>1. DoneParents(current) \subseteq State
    BY AncestorsInState DEF DoneParents
  <2> QED BY <2>1 DEF DoneInv, DoneExactlyOnce
<1>3. Spec => []DoneInv
  BY <1>1, InitTypeInv, NextTypeInv, NextLifeInv, NextDoneInv, LifeInvCorrect, PTL DEF Spec
<1> QED BY <1>2, <1>3, PTL

-----------------------------------------------------------------------------
(***************************************************************************)
(* Shallow history. It is faithful because the active states are the path  *)
(* to rt.current when the exits begin.                                     *)
(***************************************************************************)
ShallowInv ==
  /\ life = "new" => active = {}
  /\ ShallowHistoryFaithful

\* A state that is exited records the child that leaves with it, and a state
\* that is not active keeps its record.
LEMMA ExitShallow ==
  ASSUME TypeInv, ShallowHistoryFaithful, EventlessTargetsAtomic,
         active = Ancestors(current),
         NEW to \in State, ExitToLCA(ExitedStates(current, to)),
         NEW p \in State, p \notin active', Children(p) \cap lastConfig'[p] # {}
  PROVE  history'[p] \in Children(p) \cap lastConfig'[p]
<1> DEFINE gone == ExitedStates(current, to)
           above == Ancestors(ComputeLCA(current, to))
<1>1. current \in State
  BY DEF TypeInv, TypeOK
<1>2. /\ active' = active \ gone
      /\ history' = [q \in State |-> IF \E c \in gone : Parent[c] = q
                                       THEN CHOOSE c \in gone : Parent[c] = q
                                       ELSE history[q]]
      /\ lastConfig'[p] = IF p \in gone THEN {d \in active : p \in Ancestors(d)}
                                        ELSE lastConfig[p]
  BY DEF ExitToLCA, RecordShallowHistory
<1>3. gone = active \ above
  BY DEF ExitedStates
<1>4. \A c \in active : c \in State /\ (Parent[c] # NoState => Parent[c] \in active)
  BY <1>1, AncestorsClosed, AncestorsInState DEF ClosedUnderParent
<1>5. \A c \in above : Parent[c] # NoState => Parent[c] \in above
  <2>1. ComputeLCA(current, to) \in State \cup {NoState}
    BY <1>1, LCAAboveBoth
  <2> QED BY <2>1, AncestorsClosed, AncestorsNoState DEF ClosedUnderParent
<1>6. p # NoState
  BY TreeAssumption
<1>7. CASE p \in gone
  <2>1. PICK c \in Children(p) : c \in active
    BY <1>2, <1>7
  <2>2. c \in gone /\ Parent[c] = p
    BY <1>3, <1>5, <1>6, <1>7, <2>1 DEF Children
  <2>3. history'[p] \in gone /\ Parent[history'[p]] = p
    BY <1>2, <2>2
  <2>4. history'[p] \in State /\ history'[p] \in active
    BY <1>3, <1>4, <2>3
  <2>5. p \in Ancestors(history'[p])
    BY <2>3, <2>4, AncestorsUnfold, AncestorSelf
  <2> QED BY <1>2, <1>7, <2>3, <2>4, <2>5 DEF Children
<1>8. CASE p \notin gone
  <2>1. p \notin active
    BY <1>2, <1>8
  <2>2. ~ \E c \in gone : Parent[c] = p
    BY <1>3, <1>4, <1>6, <2>1
  <2>3. history'[p] = history[p] /\ lastConfig'[p] = lastConfig[p]
    BY <1>2, <1>8, <2>2
  <2> QED BY <2>1, <2>3 DEF ShallowHistoryFaithful
<1> QED BY <1>7, <1>8

\* The only steps that exit states find the path to rt.current active.
LEMMA BeginShallow ==
  ASSUME TypeInv, LifeInv, ConfigInv, ShallowInv, TakeEvent \/ TakeEventless
  PROVE  ShallowInv'
<1>1. PICK t \in Transition, eventless \in BOOLEAN : Begin(t, eventless) /\ phase # "acting"
  BY TakenTransition
<1>2. life \in {"starting", "running"} /\ life' = life
  BY <1>1 DEF TakeEvent, TakeEventless, LifeInv, TypeInv, TypeOK, Begin, control
<1>3. CASE BeginExternal(t, eventless)
  <2>1. PICK to \in Resolve(t.target) : ExitToLCA(ExitedStates(current, to))
    BY <1>3 DEF BeginExternal
  <2>2. to \in State
    BY <2>1, ResolvedTarget DEF TypeInv, Transition
  <2>3. EventlessTargetsAtomic => active = Ancestors(current)
    BY <1>1, <1>2 DEF ConfigInv, Started
  <2>4. ShallowHistoryFaithful'
    BY <2>1, <2>2, <2>3, ExitShallow DEF ShallowInv, ShallowHistoryFaithful
  <2> QED BY <1>2, <2>4 DEF ShallowInv
<1>4. CASE BeginInternal(t, eventless)
  BY <1>2, <1>4 DEF BeginInternal, observed, ShallowInv, ShallowHistoryFaithful
<1> QED BY <1>1, <1>3, <1>4 DEF Begin

\* Every other step leaves the records alone and only enters states.
LEMMA NextShallowInv ==
  TypeInv /\ LifeInv /\ ConfigInv /\ ShallowInv /\ [Next]_vars => ShallowInv'
<1> SUFFICES ASSUME TypeInv, LifeInv, ConfigInv, ShallowInv, [Next]_vars PROVE ShallowInv'
  OBVIOUS
<1> USE DEF config, observed, loop, control
<1>1. ASSUME active \subseteq active', UNCHANGED <<history, lastConfig>>, life' # "new"
      PROVE  ShallowInv'
  BY <1>1 DEF ShallowInv, ShallowHistoryFaithful
<1>2. ASSUME UNCHANGED <<active, history, lastConfig, life>> PROVE ShallowInv'
  BY <1>2 DEF ShallowInv, ShallowHistoryFaithful
<1>3. ASSUME Start \/ StartFails PROVE ShallowInv'
  BY <1>1, <1>3 DEF Start, StartFails, ShallowInv
<1>4. ASSUME StartLoop \/ LoopExits PROVE ShallowInv'
  BY <1>1, <1>4 DEF StartLoop, LoopExits
<1>5. ASSUME TakeEvent \/ TakeEventless PROVE ShallowInv'
  BY <1>5, BeginShallow
<1>6. ASSUME Finish PROVE ShallowInv'
  BY <1>1, <1>2, <1>6 DEF Finish, FinishExternal, EnterFromLCA, FinishInternal,
     FinishInternalMicrostep, LifeInv
<1> QED
  BY <1>2, <1>3, <1>4, <1>5, <1>6
  DEF Next, vars, Lifecycle, Senders, Macrostep, CancelParent, CallStop, StopReturns,
      SenderDelivers, SenderGivesUp, Send, IgnoreEvent, Stable, MicrostepLimit

\* A state left by any route is restored by shallow history to the child that
\* was active when it was last left, on every chart whose eventless
\* transitions go to atomic states.
THEOREM ShallowHistoryFaithfulCorrect == Spec => []ShallowHistoryFaithful
<1>1. Init => ShallowInv
  BY DEF Init, ShallowInv, ShallowHistoryFaithful
<1>2. Spec => [](TypeInv /\ LifeInv /\ ConfigInv /\ ShallowInv)
  BY <1>1, InitTypeInv, NextTypeInv, LifeInvCorrect, InitConfigInv, NextConfigInv,
     NextShallowInv, PTL DEF Spec
<1>3. ShallowInv => ShallowHistoryFaithful
  BY DEF ShallowInv
<1> QED BY <1>2, <1>3, PTL

-----------------------------------------------------------------------------
\* When no client calls Stop inside Start, nothing the runtime still holds -
\* queued events, done-event goroutines - changes the configuration after
\* Stop has returned.
THEOREM StopIsFinalCorrect ==
  ASSUME ~StopDuringStart
  PROVE  Spec => StopIsFinal
<1>1. ASSUME TypeInv, LifeInv, [Next]_vars, stop = "returned"
      PROVE  UNCHANGED <<config, observed>>
  <2>1. life \in {"failed", "exited"} /\ phase = "idle"
    BY <1>1 DEF LifeInv
  <2>2. ~Start /\ ~StartFails /\ ~StartLoop
    BY <2>1 DEF Start, StartFails, StartLoop
  <2>3. ~Macrostep
    BY <2>1 DEF Macrostep, TakeEvent, IgnoreEvent, TakeEventless, Stable, MicrostepLimit,
       Finish, FinishExternal, FinishInternal, FinishInternalMicrostep
  <2> QED
    BY <1>1, <2>2, <2>3 DEF Next, vars, Lifecycle, Senders, CancelParent, CallStop,
       StopReturns, LoopExits, SenderDelivers, SenderGivesUp, Send
<1>2. TypeInv /\ LifeInv /\ [Next]_vars =>
        [stop = "returned" => UNCHANGED <<config, observed>>]_vars
  BY <1>1
<1> QED BY <1>2, TypeInvCorrect, LifeInvCorrect, PTL DEF Spec, StopIsFinal
=============================================================================
