-------------------------- MODULE RefinementProofs --------------------------
(***************************************************************************)
(* The runtime implements the abstract configuration, for every chart      *)
(* whose eventless transitions go to atomic states and every bound.        *)
(***************************************************************************)
EXTENDS RuntimeProofs

USE DEF IsTree, InitialsLead

\* On a path every state but the last has a child on the path.
LEMMA ChildOnPath ==
  ASSUME NEW s \in State, NEW p \in Ancestors(s), p # s
  PROVE  \E c \in Ancestors(s) : c \in Children(p)
<1> DEFINE U == {x \in Ancestors(s) : x = s \/ \E c \in Ancestors(s) : Parent[c] = x}
<1>1. U \in SUBSET State /\ s \in U
  BY AncestorsInState, AncestorSelf
<1>2. ClosedUnderParent(U)
  BY AncestorsClosed DEF ClosedUnderParent
<1>3. Ancestors(s) \subseteq U
  BY <1>1, <1>2, AncestorsLeast
<1> QED BY <1>3, AncestorsInState DEF Children

-----------------------------------------------------------------------------
(***************************************************************************)
(* Which states are exited, which transition is taken, where it leads.     *)
(***************************************************************************)

\* exitToLCA leaves what the abstract transition leaves.
LEMMA LeftIsExited ==
  ASSUME NEW from \in State, NEW to \in State, Configured = Ancestors(from)
  PROVE  Abstract!Left(to) = ExitedStates(from, to)
<1>1. CASE from = to
  <2>1. Ancestors(from) = {from} \cup Ancestors(Parent[from])
    BY AncestorsUnfold
  <2>2. from \notin Ancestors(Parent[from])
    BY TreeAssumption, AncestorsNoState
  <2> QED BY <1>1, <2>1, <2>2 DEF Abstract!Left, ExitedStates, ComputeLCA
<1>2. CASE from # to
  <2>1. ExitedStates(from, to) = Ancestors(from) \ Ancestors(to)
    BY <1>2, LeastCommonAncestor DEF ExitedStates
  <2>2. Ancestors(from) # Ancestors(to)
    BY <1>2, AncestorSelf, AncestorsAntisymmetric
  <2> QED BY <2>1, <2>2 DEF Abstract!Left
<1> QED BY <1>1, <1>2

\* The abstract configuration selects among the same transitions.
LEMMA SelectsTheSame ==
  ASSUME NEW s, NEW e
  PROVE  Abstract!Sure(s, e) = Promise!Sure(s, e) /\ Abstract!Possible(s, e) = Promise!Possible(s, e)
BY DEF Abstract!Sure, Abstract!Possible, Abstract!Answers, Abstract!TriedBefore,
   Promise!Sure, Promise!Possible, Promise!Answers, Promise!TriedBefore

\* What was recorded for a state that has been left is there to be restored.
Remembered ==
  EventlessTargetsAtomic =>
    \A p \in State : p \notin active /\ history[p] # NoState =>
      Children(p) \cap lastConfig[p] # {}

\* restoreHistory leads where the abstract history may lead.
LEMMA ResolvedIsLed ==
  ASSUME TypeInv, HistoryWithin, ShallowHistoryFaithful, Remembered, EventlessTargetsAtomic,
         Configured = active,
         NEW target \in State \cup {NoState}, NEW to \in Resolve(target)
  PROVE  to \in Abstract!Leads(target)
<1> DEFINE p == Parent[target]
<1>1. target # NoState
  BY ResolveNoState
<1>2. to \in State \ HistoryState
  BY ResolvedTarget DEF TypeInv
<1>3. CASE target \notin HistoryState
  BY <1>1, <1>3 DEF Resolve, Abstract!Leads, HistoryState
<1>4. CASE target \in DeepHistory
  <2>1. to = RestoreDeepHistory(target)
    BY <1>1, <1>4, PseudoStateAssumption DEF Resolve
  <2>2. p \in State /\ Initial[p] \in State /\ Children(p) # {}
    <3>1. target \in HistoryState /\ target \in State
      BY <1>4, PseudoStateAssumption DEF HistoryState
    <3>2. target \in Children(p)
      BY <3>1 DEF Children
    <3> QED BY <3>1, <3>2, HistoryParent
  <2>3. to \in Abstract!DeepTargets(target)
    <3>1. CASE deepHistory[p] # NoState
      BY <1>2, <2>1, <2>2, <3>1 DEF RestoreDeepHistory, Abstract!DeepTargets, HistoryWithin
    <3>2. CASE deepHistory[p] = NoState /\ HistoryDefault[target] # NoState
      BY <2>1, <3>2 DEF RestoreDeepHistory, Abstract!DeepTargets, Abstract!FirstTime
    <3>3. CASE deepHistory[p] = NoState /\ HistoryDefault[target] = NoState
      <4>1. to = FindDeepestInitial(Initial[p])
        BY <2>1, <3>3 DEF RestoreDeepHistory
      <4>2. Initial[p] \in Ancestors(to) /\ Children(to) = {}
        BY <2>2, <4>1, DeepestInitialBelow, LeafIsAtomic
      <4>3. Parent[Initial[p]] = p
        BY <2>2, InitialAssumption, TreeAssumption
      <4>4. p \in Ancestors(to)
        BY <1>2, <2>2, <4>2, <4>3, AncestorsClosed, TreeAssumption DEF ClosedUnderParent
      <4> QED BY <1>2, <2>2, <4>2, <4>4 DEF Abstract!DeepTargets
    <3> QED BY <3>1, <3>2, <3>3
  <2> QED BY <1>1, <1>4, <2>3 DEF Abstract!Leads
<1>5. CASE target \in ShallowHistory
  <2>1. target \notin DeepHistory /\ target \in HistoryState
    BY <1>5, PseudoStateAssumption DEF HistoryState
  <2>2. to = RestoreShallowHistory(target)
    BY <1>1, <1>5, <2>1 DEF Resolve
  <2>3. p \in State
    BY <2>1, HistoryParent
  <2>4. to \in Abstract!ShallowTargets(target)
    <3>1. CASE history[p] # NoState
      BY <1>2, <2>2, <2>3, <3>1
      DEF RestoreShallowHistory, Abstract!ShallowTargets, HistoryWithin, ShallowHistoryFaithful,
          Remembered
    <3>2. CASE history[p] = NoState
      <4>1. to \in Abstract!FirstTime(target)
        BY <2>2, <3>2 DEF RestoreShallowHistory, Abstract!FirstTime
      <4>2. p \notin active => Children(p) \cap lastConfig[p] = {}
        BY <2>3, <3>2, TreeAssumption DEF ShallowHistoryFaithful, Children
      <4> QED BY <4>1, <4>2 DEF Abstract!ShallowTargets
    <3> QED BY <3>1, <3>2
  <2> QED BY <1>1, <2>1, <2>4 DEF Abstract!Leads
<1> QED BY <1>3, <1>4, <1>5 DEF HistoryState

-----------------------------------------------------------------------------
(***************************************************************************)
(* The invariants the refinement rests on, besides those of RuntimeProofs. *)
(***************************************************************************)

\* Until Start runs rt.current is what NewRuntime set it to.
Untouched == life = "new" => current = FindDeepestInitial(Root)

\* Only Start leaves that state of the runtime.
LEMMA NextUntouched == LifeInv /\ Untouched /\ [Next]_vars => Untouched'
<1> SUFFICES ASSUME LifeInv, Untouched, [Next]_vars, life' = "new" PROVE UNCHANGED current
  BY DEF Untouched, LifeInv, Next, vars, config, observed, loop, control, Lifecycle, Senders,
     Macrostep, Finish, Start, StartFails, StartLoop, CancelParent, CallStop, StopReturns,
     LoopExits, SenderDelivers, SenderGivesUp, Send, IgnoreEvent, TakeEvent, TakeEventless,
     Begin, Stable, MicrostepLimit, FinishExternal, FinishInternal, FinishInternalMicrostep
<1> QED
  BY DEF Untouched, LifeInv, Next, vars, config, observed, loop, control, Lifecycle, Senders,
     Macrostep, Finish, Start, StartFails, StartLoop, CancelParent, CallStop, StopReturns,
     LoopExits, SenderDelivers, SenderGivesUp, Send, IgnoreEvent, TakeEvent, TakeEventless,
     Begin, Stable, MicrostepLimit, FinishExternal, FinishInternal, FinishInternalMicrostep

\* A state that is left takes one of its children along.
LEMMA ExitRemembered ==
  ASSUME TypeInv, Remembered, EventlessTargetsAtomic, HistoryWithin',
         active = Ancestors(current), Children(current) = {},
         NEW to \in State, ExitToLCA(ExitedStates(current, to)),
         NEW p \in State, p \notin active', history'[p] # NoState
  PROVE  Children(p) \cap lastConfig'[p] # {}
<1> DEFINE gone == ExitedStates(current, to)
<1>1. current \in State
  BY DEF TypeInv, TypeOK
<1>2. /\ active' = active \ gone
      /\ history' = [q \in State |-> IF \E c \in gone : Parent[c] = q
                                       THEN CHOOSE c \in gone : Parent[c] = q
                                       ELSE history[q]]
      /\ lastConfig'[p] = IF p \in gone THEN {d \in active : p \in Ancestors(d)}
                                        ELSE lastConfig[p]
  BY DEF ExitToLCA, RecordShallowHistory
<1>3. gone \subseteq active
  BY DEF ExitedStates
<1>4. CASE p \in gone
  <2>1. history'[p] \in Children(p)
    BY DEF HistoryWithin
  <2>2. PICK c \in Ancestors(current) : c \in Children(p)
    BY <1>1, <1>3, <1>4, <2>1, ChildOnPath
  <2>3. c \in State /\ Parent[c] = p
    BY <2>2 DEF Children
  <2>4. p \in Ancestors(c)
    BY <2>3, AncestorsUnfold, AncestorSelf
  <2> QED BY <1>2, <1>4, <2>2, <2>4
<1>5. CASE p \notin gone
  <2>1. p \notin active
    BY <1>2, <1>5
  <2>2. ~ \E c \in gone : Parent[c] = p
    BY <1>1, <1>3, <2>1, AncestorsClosed, TreeAssumption DEF ClosedUnderParent
  <2>3. history'[p] = history[p] /\ lastConfig'[p] = lastConfig[p]
    BY <1>2, <1>5, <2>2
  <2> QED BY <2>1, <2>3 DEF Remembered
<1> QED BY <1>4, <1>5

\* Every step keeps what is remembered.
LEMMA NextRemembered ==
  ASSUME TypeInv, LifeInv, ConfigInv, ShallowInv, Remembered, HistoryWithin', [Next]_vars
  PROVE  Remembered'
<1> USE DEF config, observed, loop, control
<1>1. ASSUME active \subseteq active', UNCHANGED <<history, lastConfig>> PROVE Remembered'
  BY <1>1 DEF Remembered
<1>2. ASSUME TakeEvent \/ TakeEventless PROVE Remembered'
  <2>1. PICK t \in Transition, eventless \in BOOLEAN : Begin(t, eventless) /\ phase # "acting"
    BY <1>2, TakenTransition
  <2>2. life \in {"starting", "running"}
    BY <1>2 DEF TakeEvent, TakeEventless, LifeInv, TypeInv, TypeOK
  <2>3. CASE BeginExternal(t, eventless)
    <3>1. PICK to \in Resolve(t.target) : ExitToLCA(ExitedStates(current, to))
      BY <2>3 DEF BeginExternal
    <3>2. to \in State
      BY <3>1, ResolvedTarget DEF TypeInv, Transition
    <3>3. EventlessTargetsAtomic => active = Ancestors(current) /\ Children(current) = {}
      BY <2>1, <2>2 DEF ConfigInv, Started
    <3> QED BY <3>1, <3>2, <3>3, ExitRemembered DEF Remembered
  <2>4. CASE BeginInternal(t, eventless)
    BY <1>1, <2>4 DEF BeginInternal
  <2> QED BY <2>1, <2>3, <2>4 DEF Begin
<1>3. ASSUME Start \/ StartFails PROVE Remembered'
  BY <1>1, <1>3 DEF Start, StartFails, ShallowInv
<1>4. ASSUME Finish PROVE Remembered'
  BY <1>1, <1>4 DEF Finish, FinishExternal, EnterFromLCA, FinishInternal, FinishInternalMicrostep
<1> QED
  BY <1>1, <1>2, <1>3, <1>4
  DEF Next, vars, Lifecycle, Senders, Macrostep, CancelParent, CallStop, StopReturns, StartLoop,
      LoopExits, SenderDelivers, SenderGivesUp, Send, IgnoreEvent, Stable, MicrostepLimit

-----------------------------------------------------------------------------
(***************************************************************************)
(* The steps.                                                              *)
(***************************************************************************)
RefinementInv ==
  /\ TypeInv /\ LifeInv /\ ConfigInv /\ ShallowInv /\ HistoryWithin
  /\ Untouched /\ Remembered

\* A transition with a target, selected for e, is a transition of the abstract
\* configuration.
LEMMA BeginFires ==
  ASSUME RefinementInv, EventlessTargetsAtomic, phase # "acting",
         life \in {"starting", "running"},
         NEW e \in EventID \cup {NoEvent}, NEW ok, NEW eventless \in BOOLEAN,
         NEW t \in PickTransitionHierarchical(current, e, ok),
         phase' = "acting", UNCHANGED life, BeginExternal(t, eventless)
  PROVE  Abstract!Next
<1>1. current \in State /\ t \in Transition
  BY PickedTransition DEF RefinementInv, TypeInv, TypeOK
<1>2. PICK to \in Resolve(t.target) :
        ExitToLCA(ExitedStates(current, to)) /\ step'.to = to
  BY DEF BeginExternal
<1>3. to \in State /\ to # NoState
  BY <1>1, <1>2, ResolvedTarget, TreeAssumption DEF Transition, RefinementInv, TypeInv
<1>4. Configured = active /\ active = Ancestors(current)
  BY DEF Configured, RefinementInv, ConfigInv, Started
<1>5. PICK a \in Ancestors(current) :
        /\ \A d \in Ancestors(current) : a \in Ancestors(d) \ {d} => Promise!Sure(d, e) = {}
        /\ \E i \in Promise!Possible(a, e) : t = Transitions[a][i]
  BY <1>1, PickedIsPromised
<1>6. Abstract!Responsible(a, e) /\ \E i \in Abstract!Possible(a, e) : t = Transitions[a][i]
  BY <1>4, <1>5, SelectsTheSame DEF Abstract!Responsible
<1>7. to \in Abstract!Leads(t.target)
  BY <1>1, <1>2, <1>4, ResolvedIsLed DEF Transition, RefinementInv, ShallowInv
<1>8. Configured' = Ancestors(FindDeepestInitial(to))
  BY <1>2, <1>3 DEF Configured
<1>9. lastConfig' = [p \in State |->
                       IF p \in Abstract!Left(to) THEN {d \in Configured : p \in Ancestors(d)}
                                                  ELSE lastConfig[p]]
  BY <1>1, <1>2, <1>3, <1>4, LeftIsExited DEF ExitToLCA
<1>10. Abstract!Fire(a, e)
  BY <1>5, <1>6, <1>7, <1>8, <1>9 DEF Abstract!Fire
<1> QED BY <1>4, <1>5, <1>10 DEF Abstract!Next

\* The first half of every transition fires one or stutters.
LEMMA TakeRefines ==
  ASSUME RefinementInv, EventlessTargetsAtomic, TakeEvent \/ TakeEventless
  PROVE  Abstract!Next \/ UNCHANGED <<Configured, lastConfig>>
<1>1. life \in {"starting", "running"}
  BY DEF TakeEvent, TakeEventless, RefinementInv, LifeInv, TypeInv, TypeOK
<1>2. phase # "acting"
  BY DEF TakeEvent, TakeEventless
<1>3. ASSUME NEW e \in EventID \cup {NoEvent}, NEW ok, NEW eventless \in BOOLEAN,
             NEW t \in PickTransitionHierarchical(current, e, ok), Begin(t, eventless)
      PROVE  Abstract!Next \/ UNCHANGED <<Configured, lastConfig>>
  <2>1. phase' = "acting" /\ UNCHANGED life
    BY <1>3 DEF Begin, control
  <2>2. CASE BeginExternal(t, eventless)
    BY <1>1, <1>2, <2>1, <2>2, BeginFires
  <2>3. CASE BeginInternal(t, eventless)
    BY <1>1, <1>2, <2>1, <2>3 DEF BeginInternal, NoStep, observed, Configured
  <2> QED BY <1>3, <2>2, <2>3 DEF Begin
<1>4. CASE TakeEvent
  <2>1. Head(queue) \in EventID
    BY <1>4 DEF TakeEvent, RefinementInv, TypeInv, TypeOK
  <2> QED BY <1>3, <1>4, <2>1 DEF TakeEvent
<1>5. CASE TakeEventless
  BY <1>3, <1>5 DEF TakeEventless
<1> QED BY <1>4, <1>5

\* The second half enters what the first has promised.
LEMMA FinishRefines ==
  ASSUME RefinementInv, ConfigInv', EventlessTargetsAtomic, FinishExternal
  PROVE  UNCHANGED <<Configured, lastConfig>>
<1> DEFINE leaf == FindDeepestInitial(step.to)
<1>1. /\ phase = "acting" /\ step.to # NoState /\ step.to \in State
      /\ phase' = "micro" /\ UNCHANGED <<life, lastConfig>>
      /\ current' = IF step.eventless THEN step.to ELSE leaf
  BY DEF FinishExternal, EnterFromLCA, CurrentAfter, control, RefinementInv, TypeInv, TypeOK, Step
<1>2. life \in {"starting", "running"}
  BY <1>1 DEF RefinementInv, LifeInv, TypeInv, TypeOK
<1>3. step.eventless => Initial[step.to] = NoState
  BY <1>1, <1>2 DEF RefinementInv, ConfigInv, Started
<1>4. current' = leaf
  BY <1>1, <1>3, DeepestInitialAtomic
<1>5. active' = Ancestors(current')
  BY <1>1, <1>2 DEF ConfigInv, Started
<1> QED BY <1>1, <1>2, <1>4, <1>5 DEF Configured

\* Every step of the runtime is one of the abstract configuration or none.
LEMMA NextRefines ==
  ASSUME RefinementInv, RefinementInv', EventlessTargetsAtomic, [Next]_vars
  PROVE  Abstract!Next \/ UNCHANGED <<Configured, lastConfig>>
<1> USE DEF config, observed, loop, control
<1>1. ASSUME UNCHANGED <<life, phase, step, active, lastConfig>>
      PROVE  UNCHANGED <<Configured, lastConfig>>
  BY <1>1 DEF Configured
<1>2. ASSUME Start PROVE Abstract!Next
  <2>1. Configured = {} /\ Configured' = Ancestors(FindDeepestInitial(Root)) /\ UNCHANGED lastConfig
    BY <1>2 DEF Start, Configured, RefinementInv, Untouched, LifeInv
  <2> QED BY <2>1 DEF Abstract!Next, Abstract!Enter
<1>3. ASSUME StartFails \/ StartLoop \/ LoopExits PROVE UNCHANGED <<Configured, lastConfig>>
  BY <1>3 DEF StartFails, StartLoop, LoopExits, Configured
<1>4. ASSUME TakeEvent \/ TakeEventless
      PROVE  Abstract!Next \/ UNCHANGED <<Configured, lastConfig>>
  BY <1>4, TakeRefines
<1>5. ASSUME FinishExternal PROVE UNCHANGED <<Configured, lastConfig>>
  BY <1>5, FinishRefines DEF RefinementInv
<1>6. ASSUME Stable \/ MicrostepLimit \/ FinishInternal \/ FinishInternalMicrostep
      PROVE  UNCHANGED <<Configured, lastConfig>>
  BY <1>6 DEF Stable, MicrostepLimit, FinishInternal, FinishInternalMicrostep, Configured
<1> QED
  BY <1>1, <1>2, <1>3, <1>4, <1>5, <1>6
  DEF Next, vars, Lifecycle, Senders, Macrostep, Finish, CancelParent, CallStop, StopReturns,
      SenderDelivers, SenderGivesUp, Send, IgnoreEvent

\* The runtime implements the abstract configuration on every chart whose
\* eventless transitions go to atomic states, for every queue capacity,
\* microstep bound and number of events, with Stop at any moment.
THEOREM RefinesConfigurationCorrect ==
  ASSUME EventlessTargetsAtomic
  PROVE  Spec => RefinesConfiguration
<1>1. Init => RefinementInv /\ Abstract!Init
  <2>1. Init => Untouched /\ Remembered /\ HistoryWithin /\ ShallowInv /\ LifeInv
    BY DEF Init, Untouched, Remembered, HistoryWithin, ShallowInv, ShallowHistoryFaithful, LifeInv
  <2>2. Init => Abstract!Init
    BY DEF Init, Abstract!Init, Configured
  <2> QED BY <2>1, <2>2, InitTypeInv, InitConfigInv DEF RefinementInv
<1>2. RefinementInv /\ [Next]_vars => RefinementInv'
  <2> SUFFICES ASSUME RefinementInv, [Next]_vars PROVE RefinementInv'
    OBVIOUS
  <2>1. TypeInv' /\ LifeInv' /\ ConfigInv' /\ ShallowInv' /\ HistoryWithin' /\ Untouched'
    BY NextTypeInv, NextLifeInv, NextConfigInv, NextShallowInv, NextHistoryWithin, NextUntouched
    DEF RefinementInv
  <2>2. Remembered'
    BY <2>1, NextRemembered DEF RefinementInv
  <2> QED BY <2>1, <2>2 DEF RefinementInv
<1>3. RefinementInv /\ RefinementInv' /\ [Next]_vars => [Abstract!Next]_(Abstract!vars)
  BY NextRefines DEF Abstract!vars
<1> QED BY <1>1, <1>2, <1>3, PTL DEF Spec, RefinesConfiguration, Abstract!Spec

=============================================================================
