---------------------------- MODULE RegionProofs ----------------------------
(***************************************************************************)
(* Invariants of the parallel state's regions, for every chart, every set  *)
(* of clients and every bound that satisfy the assumptions of Chart and    *)
(* Regions.                                                                *)
(***************************************************************************)
EXTENDS Regions, ChartProofs

USE DEF IsTree, InitialsLead

\* Regions and final states are states of the chart.
LEMMA RegionFacts ==
  /\ Region \subseteq State /\ Par \in State /\ Loop \notin Region
  /\ Nobody \notin Region
  /\ \A r \in Region : Parent[r] = Par /\ FindDeepestInitial(r) \in State
BY RegionsAssumption, InitialAssumption, DeepestInitialBelow DEF Region, Children, Actor

\* A transition that is selected has a state, or none, as its target, and its
\* action sends a client's event, or none.
LEMMA SelectedFacts ==
  ASSUME NEW s \in State, NEW e, NEW ok, NEW t \in PickTransitionHierarchical(s, e, ok)
  PROVE  t.target \in State \cup {NoState} /\ t.raise \in Event \cup {NoEvent}
BY PickedTransition DEF Transition

\* What is sent is an event, to actors.
LEMMA SendingType ==
  ASSUME NEW e \in EventID \cup {NoEvent}, NEW dest \in SUBSET Actor
  PROVE  Sending(e, dest) \in [event : EventID \cup {NoEvent}, left : SUBSET Actor]
BY DEF Sending

\* An event in the chart's vocabulary.
LEMMA EventFacts == Event \subseteq EventID /\ \A p \in State : DoneEvent[p] \in EventID
BY DEF EventID

-----------------------------------------------------------------------------
(***************************************************************************)
(* Type correctness.                                                       *)
(***************************************************************************)

\* Only an event is ever on its way, and a transition knows its states.
FlightOK == \A o \in Sender : flight[o].left # {} => flight[o].event \in EventID

StepOK ==
  \A a \in Actor :
    /\ pc[a] \in {"exiting", "acting"} => step[a].from \in State
    /\ pc[a] \in {"selected", "exiting"} => step[a].to \in State

TypeInv == TypeOK /\ FlightOK /\ StepOK

\* The initial state is well typed.
LEMMA TypeInit == Init => TypeInv
<1> SUFFICES ASSUME Init PROVE TypeInv
  OBVIOUS
<1>1. \A a \in Actor : mailbox[a] \in Seq(EventID) /\ Len(mailbox[a]) <= Cap
  BY RegionsAssumption DEF Init
<1>2. mailbox \in [Actor -> Seq(EventID)]
  BY <1>1 DEF Init
<1>3. place \in [Region -> State]
  BY RegionFacts DEF Init
<1>4. flight \in [Sender -> [event : EventID \cup {NoEvent}, left : SUBSET Actor]]
  BY DEF Init, Nothing
<1>5. step \in [Actor -> Step] /\ pc \in [Actor -> PC]
  BY DEF Init, Step, NoStep, PC
<1>6. 0 \in 0 .. MaxSends
  BY RegionsAssumption
<1>7. FlightOK /\ StepOK
  BY DEF Init, FlightOK, StepOK, Nothing
<1> QED BY <1>1, <1>2, <1>3, <1>4, <1>5, <1>6, <1>7, RegionFacts DEF Init, TypeOK, TypeInv

\* The destinations a sender may choose are actors.
LEMMA RouteType ==
  TypeOK => Route \subseteq Actor /\ \A dest \in Routes : dest \in {Route, {}} /\ dest \subseteq Actor
BY DEF TypeOK, Route, Routes, Actor

\* Start and the beginning of the regions.
LEMMA StartingTypes ==
  ASSUME TypeInv,
         \/ Start \/ Starting \/ Cancel \/ StopReturns \/ LoopEnds
         \/ \E r \in Region : RegionStarts(r) \/ RegionEnters(r) \/ Leave(r)
  PROVE  TypeInv'
<1> USE DEF TypeInv, TypeOK, FlightOK, StepOK, PC
<1>1. CASE Start
  BY <1>1, AncestorsInState DEF Start, locks, announced
<1>2. CASE Spawn
  <2>1. pc' \in [Actor -> PC]
    BY <1>2 DEF Spawn
  <2> QED BY <1>2, <2>1, RegionFacts DEF Spawn, locks, announced
<1>3. CASE StartReturns
  BY <1>3 DEF StartReturns, locks, announced
<1>4. CASE StartGivesUp
  BY <1>4 DEF StartGivesUp, locks, announced
<1>5. CASE Cancel
  BY <1>5 DEF Cancel, locks, announced
<1>6. CASE StopReturns
  BY <1>6 DEF StopReturns, locks, announced
<1>7. CASE LoopEnds
  BY <1>7 DEF LoopEnds, control, locks, announced
<1>8. ASSUME NEW r \in Region, RegionStarts(r) PROVE TypeInv'
  BY <1>8 DEF RegionStarts, control, locks, announced
<1>9. ASSUME NEW r \in Region, RegionEnters(r) PROVE TypeInv'
  BY <1>9, AncestorsInState DEF RegionEnters, control, locks, announced
<1>10. ASSUME NEW r \in Region, Leave(r) PROVE TypeInv'
  BY <1>10 DEF Leave, control, locks, announced
<1>11. CASE CleanUp
  BY <1>11 DEF CleanUp, locks, announced
<1> QED BY <1>1, <1>2, <1>3, <1>4, <1>5, <1>6, <1>7, <1>8, <1>9, <1>10, <1>11 DEF Starting

\* What somebody starts to send.
LEMMA FlightAfter ==
  ASSUME TypeInv, NEW o \in Sender, NEW e \in EventID \cup {NoEvent},
         NEW dest \in SUBSET Actor,
         flight' = [flight EXCEPT ![o] = Sending(e, dest)]
  PROVE  FlightOK' /\ flight' \in [Sender -> [event : EventID \cup {NoEvent}, left : SUBSET Actor]]
<1>1. flight \in [Sender -> [event : EventID \cup {NoEvent}, left : SUBSET Actor]]
  BY DEF TypeInv, TypeOK
<1>2. \A q \in Sender : flight'[q] = IF q = o THEN Sending(e, dest) ELSE flight[q]
  BY <1>1
<1>3. Sending(e, dest).left # {} => Sending(e, dest).event \in EventID
  BY DEF Sending
<1>4. FlightOK'
  BY <1>2, <1>3 DEF TypeInv, FlightOK
<1> QED BY <1>1, <1>4, SendingType

\* Whoever sends.
LEMMA SendingTypes ==
  ASSUME TypeInv,
         \/ \E c \in Client, e \in Event : ClientSends(c, e)
         \/ \E p \in State : DoneBegins(p)
         \/ \E o \in Sender : SenderStep(o)
  PROVE  TypeInv'
<1>0. \A dest \in Routes : dest \subseteq Actor
  BY RouteType DEF TypeInv
<1>1. ASSUME NEW c \in Client, NEW e \in Event, ClientSends(c, e) PROVE TypeInv'
  <2>1. PICK dest \in Routes \cup {{r} : r \in regions} :
          flight' = [flight EXCEPT ![c] = Sending(e, dest)]
    BY <1>1 DEF ClientSends
  <2>2. dest \in SUBSET Actor /\ c \in Sender
    BY <1>0 DEF TypeInv, TypeOK, Actor, Sender
  <2>3. FlightOK' /\ flight' \in [Sender -> [event : EventID \cup {NoEvent}, left : SUBSET Actor]]
    BY <2>1, <2>2, FlightAfter, EventFacts
  <2>4. sent' \in 0 .. MaxSends
    BY <1>1, RegionsAssumption DEF ClientSends, TypeInv, TypeOK
  <2> QED BY <1>1, <2>3, <2>4 DEF ClientSends, TypeInv, TypeOK, StepOK, control, locks, announced
<1>2. ASSUME NEW p \in State, DoneBegins(p) PROVE TypeInv'
  <2>1. PICK dest \in IF p = Par THEN {{Loop}} ELSE Routes :
          flight' = [flight EXCEPT ![DoneEvent[p]] = Sending(DoneEvent[p], dest)]
    BY <1>2 DEF DoneBegins
  <2>2. dest \in SUBSET Actor /\ DoneEvent[p] \in Sender
    BY <1>0, <2>1 DEF Actor, Sender
  <2>3. FlightOK' /\ flight' \in [Sender -> [event : EventID \cup {NoEvent}, left : SUBSET Actor]]
    BY <2>1, <2>2, FlightAfter, EventFacts
  <2>4. dones' \in [State -> Nat]
    BY <1>2 DEF DoneBegins, TypeInv, TypeOK
  <2> QED BY <1>2, <2>3, <2>4 DEF DoneBegins, TypeInv, TypeOK, StepOK, control, locks
<1>3. ASSUME NEW o \in Sender, NEW d \in Actor, Deliver(o, d) PROVE TypeInv'
  <2>1. flight[o].event \in EventID
    BY <1>3 DEF Deliver, TypeInv, FlightOK
  <2>2. mailbox[d] \in Seq(EventID) /\ Len(mailbox[d]) \in Nat /\ Len(mailbox[d]) <= Cap
        /\ Len(mailbox[d]) # Cap
    BY <1>3 DEF Deliver, Full, TypeInv, TypeOK
  <2>3. /\ Append(mailbox[d], flight[o].event) \in Seq(EventID)
        /\ Len(Append(mailbox[d], flight[o].event)) <= Cap
    BY <2>1, <2>2, RegionsAssumption
  <2>4. mailbox' = [mailbox EXCEPT ![d] = Append(mailbox[d], flight[o].event)]
    BY <1>3 DEF Deliver
  <2>5. mailbox' \in [Actor -> Seq(EventID)] /\ \A a \in Actor : Len(mailbox'[a]) <= Cap
    BY <2>3, <2>4 DEF TypeInv, TypeOK
  <2>6. FlightOK' /\ flight' \in [Sender -> [event : EventID \cup {NoEvent}, left : SUBSET Actor]]
    BY <1>3 DEF Deliver, TypeInv, TypeOK, FlightOK
  <2> QED BY <1>3, <2>5, <2>6 DEF Deliver, TypeInv, TypeOK, StepOK, control, locks, announced
<1>4. ASSUME NEW o \in Sender, NEW d \in Actor, Skip(o, d) PROVE TypeInv'
  BY <1>4 DEF Skip, TypeInv, TypeOK, FlightOK, StepOK, control, locks, announced
<1>5. ASSUME NEW o \in Sender, GiveUp(o) PROVE TypeInv'
  BY <1>5 DEF GiveUp, TypeInv, TypeOK, FlightOK, StepOK, control, locks, announced
<1> QED BY <1>1, <1>2, <1>3, <1>4, <1>5 DEF SenderStep

\* Taking an event out of a mailbox.
LEMMA MailboxTail ==
  ASSUME TypeInv, NEW a \in Actor, mailbox[a] # <<>>,
         mailbox' = [mailbox EXCEPT ![a] = Tail(@)]
  PROVE  /\ mailbox' \in [Actor -> Seq(EventID)]
         /\ \A b \in Actor : Len(mailbox'[b]) <= Cap
<1>1. mailbox[a] \in Seq(EventID) /\ Len(mailbox[a]) <= Cap
  BY DEF TypeInv, TypeOK
<1>2. Tail(mailbox[a]) \in Seq(EventID) /\ Len(Tail(mailbox[a])) <= Cap
  BY <1>1, RegionsAssumption
<1> QED BY <1>2 DEF TypeInv, TypeOK

\* The steps of a transition.
LEMMA TransitionTypes ==
  ASSUME TypeInv, NEW a \in Actor,
         \/ TakeEvent(a) \/ IgnoreEvent(a) \/ ExitStates(a) \/ ActionSends(a)
         \/ EnterStates(a) \/ EndInternal(a) \/ LoopReads
  PROVE  TypeInv'
<1>0. (\A dest \in Routes : dest \subseteq Actor) /\ a \in Sender /\ Position(a) \in State
  BY RouteType DEF TypeInv, TypeOK, Sender, Position, Actor
<1>1. CASE IgnoreEvent(a)
  <2>1. /\ mailbox' \in [Actor -> Seq(EventID)]
        /\ \A b \in Actor : Len(mailbox'[b]) <= Cap
    BY <1>1, MailboxTail DEF IgnoreEvent
  <2> QED BY <1>1, <2>1 DEF IgnoreEvent, TypeInv, TypeOK, FlightOK, StepOK, control, locks, announced
<1>2. CASE TakeEvent(a)
  <2>1. /\ mailbox' \in [Actor -> Seq(EventID)]
        /\ \A b \in Actor : Len(mailbox'[b]) <= Cap
    BY <1>2, MailboxTail DEF TakeEvent
  <2>2. PICK ok \in SUBSET Guard :
          \E t \in PickTransitionHierarchical(Position(a), Head(mailbox[a]), ok) :
            /\ step' = [step EXCEPT ![a] = [from |-> Position(a), to |-> t.target,
                                            raise |-> t.raise]]
            /\ pc' = [pc EXCEPT ![a] = Selected(a, t.target)]
    BY <1>2 DEF TakeEvent
  <2>3. PICK t \in PickTransitionHierarchical(Position(a), Head(mailbox[a]), ok) :
            /\ step' = [step EXCEPT ![a] = [from |-> Position(a), to |-> t.target,
                                            raise |-> t.raise]]
            /\ pc' = [pc EXCEPT ![a] = Selected(a, t.target)]
    BY <2>2
  <2>4. t.target \in State \cup {NoState} /\ t.raise \in Event \cup {NoEvent}
    BY <1>0, SelectedFacts
  <2>5. step' \in [Actor -> Step] /\ pc' \in [Actor -> PC] /\ StepOK'
    BY <1>0, <2>3, <2>4 DEF TypeInv, TypeOK, StepOK, Step, PC, Selected
  <2> QED BY <1>2, <2>1, <2>5 DEF TakeEvent, TypeInv, TypeOK, FlightOK, control, locks, announced
<1>3. CASE ExitStates(a)
  <2>1. active' \subseteq State /\ donePending' \subseteq State /\ doneCount' \in Nat
    BY <1>3 DEF ExitStates, TypeInv, TypeOK
  <2> QED BY <1>3, <2>1 DEF ExitStates, TypeInv, TypeOK, FlightOK, StepOK, PC, control, locks
<1>6. CASE ActionSends(a)
  <2>1. PICK dest \in Routes : flight' = [flight EXCEPT ![a] = Sending(step[a].raise, dest)]
    BY <1>6 DEF ActionSends
  <2>2. step[a].raise \in EventID \cup {NoEvent} /\ dest \in SUBSET Actor
    BY <1>0, EventFacts DEF TypeInv, TypeOK, Step
  <2>3. FlightOK' /\ flight' \in [Sender -> [event : EventID \cup {NoEvent}, left : SUBSET Actor]]
    BY <1>0, <2>1, <2>2, FlightAfter
  <2>4. step' \in [Actor -> Step] /\ StepOK'
    BY <1>6 DEF ActionSends, TypeInv, TypeOK, StepOK, Step
  <2> QED BY <1>6, <2>3, <2>4 DEF ActionSends, TypeInv, TypeOK, control, locks, announced
<1>7. CASE LoopReads
  <2>1. Loop \in Actor /\ current \in State /\ pc[Loop] \in {"selected", "entered"}
    BY <1>7 DEF LoopReads, Actor, TypeInv, TypeOK
  <2>2. /\ step' = [step EXCEPT ![Loop] = [step[Loop] EXCEPT !.from = current]]
        /\ pc' = [pc EXCEPT ![Loop] = IF @ = "selected" THEN "exiting" ELSE "check"]
    BY <1>7 DEF LoopReads
  <2>3. step[Loop] \in Step /\ [step[Loop] EXCEPT !.from = current] \in Step
        /\ [step[Loop] EXCEPT !.from = current].to = step[Loop].to
        /\ [step[Loop] EXCEPT !.from = current].from = current
    BY <2>1 DEF TypeInv, TypeOK, Step
  <2>4. step' \in [Actor -> Step] /\ pc' \in [Actor -> PC]
    BY <2>1, <2>2, <2>3 DEF TypeInv, TypeOK, PC
  <2>5. StepOK'
    BY <2>1, <2>2, <2>3 DEF TypeInv, TypeOK, StepOK
  <2> QED BY <1>7, <2>4, <2>5 DEF LoopReads, TypeInv, TypeOK, FlightOK, control, locks, announced
<1>4. CASE EnterStates(a)
  <2>1. step[a].to \in State
    BY <1>4 DEF EnterStates, Acted, TypeInv, TypeOK, Step
  <2>2. active' \subseteq State
    BY <1>4, AncestorsInState DEF EnterStates, TypeInv, TypeOK
  <2>3. current' \in State /\ place' \in [Region -> State]
    BY <1>4, <2>1 DEF EnterStates, PlaceAfter, TypeInv, TypeOK, Actor
  <2>4. step' \in [Actor -> Step] /\ pc' \in [Actor -> PC] /\ StepOK'
    BY <1>4 DEF EnterStates, TypeInv, TypeOK, StepOK, Step, NoStep, PC
  <2> QED BY <1>4, <2>2, <2>3, <2>4 DEF EnterStates, TypeInv, TypeOK, FlightOK, control, locks, announced
<1>5. CASE EndInternal(a)
  <2>1. step' \in [Actor -> Step] /\ pc' \in [Actor -> PC] /\ StepOK'
    BY <1>5 DEF EndInternal, TypeInv, TypeOK, StepOK, Step, NoStep, PC
  <2> QED BY <1>5, <2>1 DEF EndInternal, TypeInv, TypeOK, FlightOK, control, locks, announced
<1> QED BY <1>1, <1>2, <1>3, <1>4, <1>5, <1>6, <1>7

\* The steps of generateDoneEvent.
LEMMA DoneTypes ==
  ASSUME TypeInv,
         \/ \E a \in Actor : Announce(a)
         \/ \E r \in Region : Claim(r) \/ BeginReading(r)
         \/ \E r \in Region, c \in Region :
              ReadFinal(r, c) \/ ReadLast(r, c) \/ ReadUnfinished(r, c)
  PROVE  TypeInv'
<1>1. ASSUME NEW a \in Actor, Announce(a) PROVE TypeInv'
  <2>1. PICK done \in {Completed(a) \ donePending} :
          /\ donePending' = donePending \cup done
          /\ dones' = [p \in State |-> IF p \in done THEN dones[p] + 1 ELSE dones[p]]
    BY <1>1 DEF Announce
  <2>2. Completed(a) \subseteq State
    <3>1. CASE a = Loop
      BY <3>1, AncestorsInState DEF Completed, DoneParents
    <3>2. CASE a # Loop
      <4>1. place[a] \in State
        BY <3>2 DEF TypeInv, TypeOK, Actor
      <4> QED BY <3>2, <4>1, TreeAssumption DEF Completed
    <3> QED BY <3>1, <3>2
  <2>3. donePending' \subseteq State /\ dones' \in [State -> Nat]
    BY <2>1, <2>2 DEF TypeInv, TypeOK
  <2>4. pc' \in [Actor -> PC] /\ step' \in [Actor -> Step] /\ StepOK'
    BY <1>1 DEF Announce, TypeInv, TypeOK, StepOK, PC, Step, NoStep
  <2> QED BY <1>1, <2>3, <2>4 DEF Announce, TypeInv, TypeOK, FlightOK, control, locks
<1>2. ASSUME NEW r \in Region, Claim(r) PROVE TypeInv'
  <2>1. pc' \in [Actor -> PC] /\ StepOK'
    BY <1>2 DEF Claim, TypeInv, TypeOK, StepOK, PC
  <2>2. doneMu' \in Region \cup {Nobody} /\ unread' \subseteq Region /\ UNCHANGED awaited
    BY <1>2 DEF Claim, TypeInv, TypeOK, locks
  <2> QED BY <1>2, <2>1, <2>2 DEF Claim, TypeInv, TypeOK, FlightOK, control, announced
<1>3. ASSUME NEW r \in Region, NEW c \in Region, ReadFinal(r, c) PROVE TypeInv'
  BY <1>3 DEF ReadFinal, TypeInv, TypeOK, FlightOK, StepOK, control, announced
<1>4. ASSUME NEW r \in Region, NEW c \in Region, ReadLast(r, c) PROVE TypeInv'
  <2>0. Par \in State
    BY RegionFacts
  <2>1. dones' \in [State -> Nat] /\ donePending' \subseteq State /\ doneCount' \in Nat
    <3>1. dones \in [State -> Nat] /\ donePending \subseteq State /\ doneCount \in Nat
      BY DEF TypeInv, TypeOK
    <3>2. /\ dones' = [dones EXCEPT ![Par] = @ + 1]
          /\ donePending' = donePending \cup {Par} /\ doneCount' = doneCount + 1
      BY <1>4 DEF ReadLast
    <3> QED BY <2>0, <3>1, <3>2
  <2>2. pc' \in [Actor -> PC] /\ StepOK'
    BY <1>4 DEF ReadLast, TypeInv, TypeOK, StepOK, PC
  <2>3. /\ doneMu' = Nobody /\ unread' = {} /\ awaited' = Nobody
        /\ UNCHANGED <<life, cancelled, stopped, regions, current, place, mailbox, step,
                       flight, sent, active>>
    BY <1>4 DEF ReadLast, control
  <2> QED BY <2>1, <2>2, <2>3 DEF TypeInv, TypeOK, FlightOK
<1>5. ASSUME NEW r \in Region, NEW c \in Region, ReadUnfinished(r, c) PROVE TypeInv'
  <2>1. pc' \in [Actor -> PC] /\ StepOK'
    BY <1>5 DEF ReadUnfinished, TypeInv, TypeOK, StepOK, PC
  <2> QED BY <1>5, <2>1 DEF ReadUnfinished, TypeInv, TypeOK, FlightOK, control, announced
<1>6. ASSUME NEW r \in Region, BeginReading(r) PROVE TypeInv'
  <2>1. pc' \in [Actor -> PC] /\ StepOK'
    BY <1>6 DEF BeginReading, TypeInv, TypeOK, StepOK, PC
  <2>2. awaited' \in Region
    BY <1>6 DEF BeginReading, TypeInv, TypeOK
  <2> QED BY <1>6, <2>1, <2>2 DEF BeginReading, TypeInv, TypeOK, FlightOK, control, announced
<1> QED BY <1>1, <1>2, <1>3, <1>4, <1>5, <1>6

\* Every step of the module is of one of these kinds.
LEMMA NextKinds ==
  ASSUME Next
  PROVE  \/ \/ Start \/ Starting \/ Cancel \/ StopReturns \/ LoopEnds
            \/ \E r \in Region : RegionStarts(r) \/ RegionEnters(r) \/ Leave(r)
         \/ \/ \E c \in Client, e \in Event : ClientSends(c, e)
            \/ \E p \in State : DoneBegins(p)
            \/ \E o \in Sender : SenderStep(o)
         \/ \/ LoopReads
            \/ \E a \in Actor : \/ TakeEvent(a) \/ IgnoreEvent(a) \/ ExitStates(a)
                               \/ ActionSends(a) \/ EnterStates(a) \/ EndInternal(a)
         \/ \/ \E a \in Actor : Announce(a)
            \/ \E r \in Region : Claim(r) \/ BeginReading(r)
            \/ \E r \in Region, c \in Region :
                 ReadFinal(r, c) \/ ReadLast(r, c) \/ ReadUnfinished(r, c)
BY DEF Next, Goroutines, Environment, RegionStep, ActorStep

\* Every step keeps the types.
LEMMA TypeNext == TypeInv /\ [Next]_vars => TypeInv'
<1> SUFFICES ASSUME TypeInv, [Next]_vars PROVE TypeInv'
  OBVIOUS
<1>1. CASE Next
  <2>1. CASE LoopReads
    BY <2>1, TransitionTypes DEF Actor
  <2> QED BY <1>1, <2>1, NextKinds, StartingTypes, SendingTypes, TransitionTypes, DoneTypes
<1>2. CASE UNCHANGED vars
  BY <1>2 DEF vars, control, locks, announced, TypeInv, TypeOK, FlightOK, StepOK
<1> QED BY <1>1, <1>2

\* The types hold in every behaviour.
LEMMA TypeInvCorrect == Spec => []TypeInv
BY TypeInit, TypeNext, PTL DEF Spec

\* Types are kept; in particular no channel ever holds more than its capacity.
THEOREM RegionTypeCorrect == Spec => []TypeOK
<1>1. TypeInv => TypeOK
  BY DEF TypeInv
<1> QED BY <1>1, TypeInvCorrect, PTL

-----------------------------------------------------------------------------
(***************************************************************************)
(* The completion of the parallel state.                                   *)
(***************************************************************************)

\* What rt.current and a region's own state can be after a transition: atomic,
\* and never final right below the parallel state.
GoodTarget(s) == Children(s) = {} /\ (s \in Final => Par \notin DoneParents(s))

PlaceInv ==
  /\ \A r \in Region : Children(place[r]) = {}
  /\ current = Par \/ GoodTarget(current)
  /\ \A a \in Actor : pc[a] \in {"selected", "exiting", "acting"} /\ step[a].to # NoState =>
       GoodTarget(step[a].to)
  /\ pc[Loop] = "check" => step[Loop].from = Par \/ GoodTarget(step[Loop].from)
  /\ \A r \in Region : pc[r] = "exiting" => step[r].from = place[r]
  /\ life = "new" \/ (life = "starting" /\ regions = {}) => \A a \in Actor : pc[a] = "off"

\* The holder of doneEventsMu is the region that reads, while the parallel
\* state is not announced; a region it has read is in a final state, and not
\* on its way out of it.
LockInv ==
  /\ \A r \in Region : pc[r] \in {"claimed", "reading"} <=> doneMu = r
  /\ doneMu # Nobody =>
       /\ Par \notin donePending
       /\ \A c \in Region \ unread :
            place[c] \in Final /\ ~ (pc[c] = "acting" /\ step[c].to # NoState)
  /\ doneCount = IF Par \in donePending THEN 1 ELSE 0

DoneInv == TypeInv /\ PlaceInv /\ LockInv

\* The descent from a region ends in an atomic state.
LEMMA RegionStartsAtomic ==
  ASSUME NEW r \in Region
  PROVE  Children(FindDeepestInitial(r)) = {}
<1> DEFINE d == FindDeepestInitial(r)
<1>1. d \in State /\ r \in Ancestors(d) /\ InitialChild(d) = NoState
  BY RegionFacts, DeepestInitialBelow
<1>2. d # Par
  <2>1. SUFFICES ASSUME r \in Ancestors(Par) PROVE FALSE
    BY <1>1
  <2> QED BY <2>1, RegionFacts, TreeAssumption
<1>3. d \notin Parallel
  BY <1>2, RegionsAssumption
<1> QED BY <1>1, <1>3, InitialAssumption DEF InitialChild

\* A selected transition's target is one the region can rest in.
LEMMA SelectedTarget ==
  ASSUME NEW s \in State, NEW e, NEW ok, NEW t \in PickTransitionHierarchical(s, e, ok),
         t.target # NoState
  PROVE  GoodTarget(t.target)
BY PickedTransition, TargetAssumption DEF GoodTarget

\* Leaving an atomic state for another atomic state exits at least it.
LEMMA SomethingExited ==
  ASSUME NEW from \in State, NEW to \in State, Children(to) = {}, Children(from) = {}
  PROVE  ExitedStates(from, to) # {}
<1>1. SUFFICES from \notin Ancestors(ComputeLCA(from, to))
  BY AncestorSelf DEF ExitedStates
<1>2. CASE from = to
  <2>1. ComputeLCA(from, to) = Parent[from]
    BY <1>2 DEF ComputeLCA
  <2> QED BY <2>1, AncestorsNoState, TreeAssumption
<1>3. CASE from # to
  <2>1. SUFFICES ASSUME from \in Ancestors(ComputeLCA(from, to)) PROVE FALSE
    OBVIOUS
  <2>2. from \in Ancestors(to)
    BY <2>1, LCAAboveBoth
  <2> DEFINE U == {u \in State : u # from}
  <2>3. ClosedUnderParent(U)
    BY TreeAssumption DEF ClosedUnderParent, Children
  <2>4. Ancestors(to) \subseteq U
    BY <1>3, <2>3, AncestorsLeast
  <2> QED BY <2>2, <2>4
<1> QED BY <1>2, <1>3

\* A region that exits states has doneEventsMu to itself.
LEMMA ExitTakesLock ==
  ASSUME TypeInv, PlaceInv, NEW r \in Region, ExitStates(r)
  PROVE  doneMu = Nobody
<1>1. pc[r] = "exiting" /\ r \in Actor
  BY DEF ExitStates, Actor
<1>2. step[r].from = place[r] /\ place[r] \in State /\ Children(place[r]) = {}
  BY <1>1 DEF PlaceInv, TypeInv, TypeOK
<1>3. step[r].to \in State /\ step[r].to # NoState
  BY <1>1, TreeAssumption DEF TypeInv, StepOK
<1>4. Children(step[r].to) = {}
  BY <1>1, <1>3 DEF PlaceInv, GoodTarget
<1>5. ExitedStates(step[r].from, step[r].to) # {}
  BY <1>2, <1>3, <1>4, SomethingExited
<1> QED BY <1>5 DEF ExitStates

\* Initially.
LEMMA DoneInit == Init => PlaceInv /\ LockInv
<1> SUFFICES ASSUME Init PROVE PlaceInv /\ LockInv
  OBVIOUS
<1>1. PlaceInv
  BY RegionStartsAtomic DEF Init, PlaceInv, NoStep, Actor
<1>2. LockInv
  BY RegionFacts DEF Init, LockInv, Actor
<1> QED BY <1>1, <1>2

\* What the transition search returned.
LEMMA TakenTransition ==
  ASSUME TypeInv, NEW a \in Actor, TakeEvent(a)
  PROVE  \E t \in Transition :
             /\ \E ok : t \in PickTransitionHierarchical(Position(a), Head(mailbox[a]), ok)
             /\ Position(a) \in State
             /\ step' = [step EXCEPT ![a] = [from |-> Position(a), to |-> t.target,
                                             raise |-> t.raise]]
             /\ pc' = [pc EXCEPT ![a] = Selected(a, t.target)]
             /\ pc'[a] \in {"acting", "selected", "exiting"}
             /\ t.target # NoState => pc'[a] # "acting"
<1>1. Position(a) \in State
  BY DEF TypeInv, TypeOK, Position, Actor
<1>2. pc \in [Actor -> PC]
  BY DEF TypeInv, TypeOK
<1> QED BY <1>1, <1>2, PickedTransition DEF TakeEvent, Selected

\* Every step keeps the places.
LEMMA PlaceNext == TypeInv /\ PlaceInv /\ [Next]_vars => PlaceInv'
<1> SUFFICES ASSUME TypeInv, PlaceInv, [Next]_vars PROVE PlaceInv'
  OBVIOUS
<1>0. /\ pc \in [Actor -> PC] /\ step \in [Actor -> Step] /\ Region \subseteq Actor
      /\ Loop \in Actor /\ Loop \notin Region
  BY RegionFacts DEF TypeInv, TypeOK, Actor
<1>1. ASSUME NEW a \in Actor, TakeEvent(a) PROVE PlaceInv'
  <2>1. PICK t \in Transition :
             /\ \E ok : t \in PickTransitionHierarchical(Position(a), Head(mailbox[a]), ok)
             /\ Position(a) \in State
             /\ step' = [step EXCEPT ![a] = [from |-> Position(a), to |-> t.target,
                                             raise |-> t.raise]]
             /\ pc' = [pc EXCEPT ![a] = Selected(a, t.target)]
             /\ pc'[a] \in {"acting", "selected", "exiting"}
             /\ t.target # NoState => pc'[a] # "acting"
    BY <1>1, TakenTransition
  <2>2. t.target # NoState => GoodTarget(t.target)
    BY <2>1, SelectedTarget
  <2>3. a \in Region => Position(a) = place[a]
    BY RegionFacts DEF Position
  <2>4. UNCHANGED <<place, current>>
    BY <1>1 DEF TakeEvent
  <2>5. \A b \in Actor : pc'[b] \in {"selected", "exiting", "acting"} /\ step'[b].to # NoState =>
          GoodTarget(step'[b].to)
    BY <1>0, <2>1, <2>2 DEF PlaceInv
  <2>6. \A r \in Region : pc'[r] = "exiting" => step'[r].from = place'[r]
    BY <1>0, <2>1, <2>3, <2>4 DEF PlaceInv
  <2>8. pc'[Loop] = "check" => pc[Loop] = "check" /\ step'[Loop] = step[Loop]
    BY <1>0, <2>1 DEF Selected
  <2>7. pc[a] # "off" /\ UNCHANGED <<life, regions>>
    BY <1>1 DEF TakeEvent, control
  <2> QED BY <2>4, <2>5, <2>6, <2>7, <2>8 DEF PlaceInv
<1>2. ASSUME NEW a \in Actor, ExitStates(a) PROVE PlaceInv'
  BY <1>0, <1>2 DEF ExitStates, PlaceInv, control
<1>10. ASSUME NEW a \in Actor, ActionSends(a) PROVE PlaceInv'
  <2>1. /\ pc[a] = "acting" /\ UNCHANGED <<place, current, pc, life, regions>>
        /\ \A b \in Actor : pc[b] # "acting" => step'[b] = step[b]
    BY <1>0, <1>10 DEF ActionSends, control
  <2>2. \A b \in Actor : step'[b].to = step[b].to
    BY <1>0, <1>10 DEF ActionSends, Step
  <2> QED BY <1>0, <2>1, <2>2 DEF PlaceInv
<1>11. CASE LoopReads
  <2>1. /\ pc[Loop] \in {"selected", "entered"} /\ UNCHANGED <<place, current, life, regions>>
        /\ pc' = [pc EXCEPT ![Loop] = IF @ = "selected" THEN "exiting" ELSE "check"]
        /\ step' = [step EXCEPT ![Loop].from = current]
    BY <1>11 DEF LoopReads, control
  <2>2. step'[Loop].to = step[Loop].to /\ step'[Loop].from = current
    BY <1>0, <2>1 DEF Step
  <2>3. \A b \in Actor : b # Loop => pc'[b] = pc[b] /\ step'[b] = step[b]
    BY <1>0, <2>1
  <2>4. pc'[Loop] \in {"exiting", "check"} /\ (pc'[Loop] = "exiting" => pc[Loop] = "selected")
    BY <1>0, <2>1
  <2> QED BY <1>0, <2>1, <2>2, <2>3, <2>4 DEF PlaceInv
<1>3. ASSUME NEW a \in Actor, EnterStates(a) PROVE PlaceInv'
  <2>1. GoodTarget(step[a].to)
    BY <1>3 DEF EnterStates, Acted, PlaceInv
  <2>2. current' = step[a].to /\ place' = PlaceAfter(a, step[a].to)
    BY <1>3 DEF EnterStates
  <2>3. \A r \in Region : place'[r] = IF r = a THEN step[a].to ELSE place[r]
    BY <2>2, RegionFacts DEF PlaceAfter, TypeInv, TypeOK
  <2>4. \A b \in Actor : b # a => pc'[b] = pc[b] /\ step'[b] = step[b]
    BY <1>0, <1>3 DEF EnterStates
  <2>5. pc'[a] \in {"entered", "check", "idle"} /\ (a = Loop => pc'[a] = "entered")
    BY <1>0, <1>3 DEF EnterStates
  <2>6. \A r \in Region : Children(place'[r]) = {}
    BY <2>1, <2>3 DEF PlaceInv, GoodTarget
  <2>7. \A b \in Actor : pc'[b] \in {"selected", "exiting", "acting"} /\ step'[b].to # NoState =>
          GoodTarget(step'[b].to)
    BY <2>4, <2>5 DEF PlaceInv
  <2>8. \A r \in Region : pc'[r] = "exiting" => step'[r].from = place'[r]
    BY <1>0, <2>3, <2>4, <2>5 DEF PlaceInv
  <2>9. pc[a] # "off" /\ UNCHANGED <<life, regions>>
    BY <1>3 DEF EnterStates, Acted, control
  <2>10. pc'[Loop] = "check" => step'[Loop].from = Par \/ GoodTarget(step'[Loop].from)
    BY <1>0, <2>4, <2>5 DEF PlaceInv
  <2> QED BY <2>1, <2>2, <2>6, <2>7, <2>8, <2>9, <2>10 DEF PlaceInv
<1>4. ASSUME NEW a \in Actor, IgnoreEvent(a) PROVE PlaceInv'
  BY <1>4 DEF IgnoreEvent, PlaceInv, control
<1>5. ASSUME NEW a \in Actor, EndInternal(a) PROVE PlaceInv'
  BY <1>0, <1>5 DEF EndInternal, Acted, NoStep, PlaceInv, control
<1>6. ASSUME \/ Start \/ Starting \/ Cancel \/ StopReturns \/ LoopEnds
             \/ \E r \in Region : RegionStarts(r) \/ RegionEnters(r) \/ Leave(r)
      PROVE  PlaceInv'
  <2>1. /\ UNCHANGED <<place, current, step>>
        /\ \A a \in Actor : pc'[a] \in {"selected", "exiting", "acting"} => pc'[a] = pc[a]
        /\ pc'[Loop] = "check" => pc[Loop] = "check"
    BY <1>0, <1>6 DEF Start, Starting, Spawn, StartReturns, StartGivesUp, CleanUp, Cancel,
       StopReturns, LoopEnds, RegionStarts, RegionEnters, Leave
  <2>2. (life = "new" \/ (life = "starting" /\ regions = {}) => \A a \in Actor : pc[a] = "off")'
    BY <1>0, <1>6, RegionsAssumption DEF Start, Starting, Spawn, StartReturns, StartGivesUp,
       CleanUp, Cancel, StopReturns, LoopEnds, RegionStarts, RegionEnters, Leave, PlaceInv,
       control, Actor
  <2> QED BY <1>0, <2>1, <2>2 DEF PlaceInv
<1>7. ASSUME \/ \E c \in Client, e \in Event : ClientSends(c, e)
             \/ \E p \in State : DoneBegins(p)
             \/ \E o \in Sender : SenderStep(o)
      PROVE  PlaceInv'
  <2>1. UNCHANGED <<place, current, step, pc, life, regions>>
    BY <1>7 DEF ClientSends, DoneBegins, SenderStep, Deliver, Skip, GiveUp, control
  <2> QED BY <2>1 DEF PlaceInv
<1>8. ASSUME \/ \E r \in Region : Claim(r) \/ BeginReading(r)
             \/ \E r \in Region, c \in Region :
                  ReadFinal(r, c) \/ ReadLast(r, c) \/ ReadUnfinished(r, c)
      PROVE  PlaceInv'
  <2>1. /\ UNCHANGED <<place, current, step>>
        /\ \A a \in Actor : pc'[a] \in {"selected", "exiting", "acting", "check"} => pc'[a] = pc[a]
    BY <1>0, <1>8 DEF Claim, BeginReading, ReadFinal, ReadLast, ReadUnfinished
  <2>2. UNCHANGED <<life, regions>> /\ (pc' # pc => \E a \in Actor : pc[a] # "off")
    BY <1>0, <1>8 DEF Claim, BeginReading, ReadFinal, ReadLast, ReadUnfinished, control
  <2> QED BY <1>0, <2>1, <2>2 DEF PlaceInv
<1>12. ASSUME NEW a \in Actor, Announce(a) PROVE PlaceInv'
  <2>1. /\ UNCHANGED <<place, current, life, regions>> /\ pc[a] = "check"
        /\ pc'[a] \in {"idle", "claim"}
        /\ \A b \in Actor : b # a => pc'[b] = pc[b] /\ step'[b] = step[b]
    BY <1>0, <1>12 DEF Announce, control
  <2> QED BY <1>0, <2>1 DEF PlaceInv
<1>9. CASE UNCHANGED vars
  BY <1>9 DEF vars, control, PlaceInv
<1> QED BY <1>1, <1>2, <1>3, <1>4, <1>5, <1>6, <1>7, <1>8, <1>9, <1>10, <1>11, <1>12, NextKinds

\* The loop announces nothing for the parallel state.
LEMMA CompletedNotPar ==
  ASSUME TypeInv, PlaceInv, NEW a \in Actor, pc[a] = "check"
  PROVE  Par \notin Completed(a)
<1>1. Par \notin Final
  BY RegionsAssumption, PseudoStateAssumption DEF Region
<1> QED BY <1>1 DEF Completed, PlaceInv, GoodTarget

\* Every step keeps the lock's discipline.
LEMMA LockNext == DoneInv /\ [Next]_vars => LockInv'
<1> SUFFICES ASSUME DoneInv, [Next]_vars PROVE LockInv'
  OBVIOUS
<1>0. /\ pc \in [Actor -> PC] /\ step \in [Actor -> Step] /\ Region \subseteq Actor
      /\ place \in [Region -> State] /\ Loop \notin Region /\ Nobody \notin Region
      /\ doneMu \in Region \cup {Nobody}
  BY RegionFacts DEF DoneInv, TypeInv, TypeOK, Actor
<1> USE DEF DoneInv
<1>1. ASSUME NEW a \in Actor, TakeEvent(a) PROVE LockInv'
  <2>1. PICK t \in Transition :
             /\ \E ok : t \in PickTransitionHierarchical(Position(a), Head(mailbox[a]), ok)
             /\ Position(a) \in State
             /\ step' = [step EXCEPT ![a] = [from |-> Position(a), to |-> t.target,
                                             raise |-> t.raise]]
             /\ pc' = [pc EXCEPT ![a] = Selected(a, t.target)]
             /\ pc'[a] \in {"acting", "selected", "exiting"}
             /\ t.target # NoState => pc'[a] # "acting"
    BY <1>1, TakenTransition
  <2>2. UNCHANGED <<place, locks, donePending, doneCount>>
    BY <1>1 DEF TakeEvent, announced
  <2>3. pc[a] = "idle"
    BY <1>1 DEF TakeEvent
  <2>4. \A r \in Region : pc'[r] \in {"claimed", "reading"} <=> pc[r] \in {"claimed", "reading"}
    BY <1>0, <2>1, <2>3
  <2>5. \A c \in Region : pc'[c] = "acting" /\ step'[c].to # NoState =>
          pc[c] = "acting" /\ step[c].to # NoState
    BY <1>0, <2>1
  <2> QED BY <2>2, <2>4, <2>5 DEF LockInv, locks
<1>14. ASSUME NEW a \in Actor, ActionSends(a) PROVE LockInv'
  <2>1. /\ UNCHANGED <<place, pc, locks, donePending, doneCount>>
        /\ \A b \in Actor : step'[b].to = step[b].to
    BY <1>0, <1>14 DEF ActionSends, announced, Step
  <2> QED BY <1>0, <2>1 DEF LockInv, locks
<1>15. CASE LoopReads
  <2>1. /\ UNCHANGED <<place, locks, donePending, doneCount>>
        /\ \A r \in Region : pc'[r] = pc[r] /\ step'[r] = step[r]
    BY <1>0, <1>15 DEF LoopReads, announced
  <2> QED BY <2>1 DEF LockInv, locks
<1>2. ASSUME NEW a \in Actor, ExitStates(a) PROVE LockInv'
  <2>1. PICK gone \in {ExitedStates(step[a].from, step[a].to)} :
          /\ gone = {} \/ doneMu = Nobody
          /\ donePending' = donePending \ gone
          /\ doneCount' = IF Par \in gone THEN 0 ELSE doneCount
    BY <1>2 DEF ExitStates
  <2>2. /\ pc[a] = "exiting" /\ pc' = [pc EXCEPT ![a] = "acting"]
        /\ UNCHANGED <<place, locks, step>>
    BY <1>2 DEF ExitStates
  <2>3. \A r \in Region : pc'[r] \in {"claimed", "reading"} <=> pc[r] \in {"claimed", "reading"}
    BY <1>0, <2>2
  <2>4. doneMu # Nobody => a = Loop
    BY <1>2, ExitTakesLock DEF Actor
  <2>5. doneMu # Nobody => Par \notin donePending'
    BY <2>1 DEF LockInv
  <2>6. doneMu # Nobody => \A c \in Region : pc'[c] = pc[c]
    BY <1>0, <2>2, <2>4
  <2>7. doneCount' = IF Par \in donePending' THEN 1 ELSE 0
    BY <2>1 DEF LockInv
  <2> QED BY <2>2, <2>3, <2>5, <2>6, <2>7 DEF LockInv, locks
<1>3. ASSUME NEW a \in Actor, EnterStates(a) PROVE LockInv'
  <2>1. /\ pc[a] = "acting" /\ step[a].to # NoState
        /\ pc' = [pc EXCEPT ![a] = pc'[a]] /\ pc'[a] \in {"entered", "check", "idle"}
        /\ step' = [step EXCEPT ![a] = NoStep]
        /\ place' = PlaceAfter(a, step[a].to)
        /\ UNCHANGED <<locks, donePending, doneCount>>
    BY <1>0, <1>3 DEF EnterStates, Acted, announced
  <2>2. \A r \in Region : pc'[r] \in {"claimed", "reading"} <=> pc[r] \in {"claimed", "reading"}
    BY <1>0, <2>1
  <2>3. \A c \in Region : c # a => place'[c] = place[c]
    BY <1>0, <2>1 DEF PlaceAfter
  <2>4. \A c \in Region : c # a => pc'[c] = pc[c] /\ step'[c] = step[c]
    BY <1>0, <2>1
  <2>5. doneMu # Nobody => a \notin Region \ unread
    BY <2>1 DEF LockInv
  <2> QED BY <2>1, <2>2, <2>3, <2>4, <2>5 DEF LockInv, locks
<1>4. ASSUME NEW a \in Actor, IgnoreEvent(a) PROVE LockInv'
  BY <1>4 DEF IgnoreEvent, LockInv, locks, announced
<1>5. ASSUME NEW a \in Actor, EndInternal(a) PROVE LockInv'
  <2>1. /\ pc[a] = "acting"
        /\ pc' = [pc EXCEPT ![a] = pc'[a]] /\ pc'[a] \in {"entered", "check", "idle"}
        /\ step' = [step EXCEPT ![a] = NoStep]
        /\ UNCHANGED <<place, locks, donePending, doneCount>>
    BY <1>0, <1>5 DEF EndInternal, Acted, announced
  <2>2. \A r \in Region : pc'[r] \in {"claimed", "reading"} <=> pc[r] \in {"claimed", "reading"}
    BY <1>0, <2>1
  <2>3. \A c \in Region : pc'[c] = "acting" => pc[c] = "acting" /\ step'[c] = step[c]
    BY <1>0, <2>1
  <2> QED BY <2>1, <2>2, <2>3 DEF LockInv, locks
<1>6. ASSUME \/ Start \/ Starting \/ Cancel \/ StopReturns \/ LoopEnds
             \/ \E r \in Region : RegionStarts(r) \/ RegionEnters(r) \/ Leave(r)
      PROVE  LockInv'
  <2>1. UNCHANGED <<place, step, locks, donePending, doneCount>>
    BY <1>6 DEF Start, Starting, Spawn, StartReturns, StartGivesUp, CleanUp, Cancel,
       StopReturns, LoopEnds, RegionStarts, RegionEnters, Leave, announced
  <2>2. ~Spawn => \A r \in Region :
          /\ pc'[r] \in {"claimed", "reading"} <=> pc[r] \in {"claimed", "reading"}
          /\ pc'[r] = "acting" => pc[r] = "acting"
    BY <1>0, <1>6 DEF Start, Starting, StartReturns, StartGivesUp, CleanUp, Cancel,
       StopReturns, LoopEnds, RegionStarts, RegionEnters, Leave
  <2>3. Spawn => \A r \in Region : pc'[r] \notin {"acting", "claimed", "reading"}
    BY <1>0 DEF Spawn
  <2>4. Spawn => \A r \in Region : pc[r] \notin {"claimed", "reading"}
    BY <1>0 DEF Spawn, PlaceInv
  <2>5. \A r \in Region :
          /\ pc'[r] \in {"claimed", "reading"} <=> pc[r] \in {"claimed", "reading"}
          /\ pc'[r] = "acting" => pc[r] = "acting"
    BY <2>2, <2>3, <2>4
  <2> QED BY <2>1, <2>5 DEF LockInv, locks
<1>7. ASSUME \/ \E c \in Client, e \in Event : ClientSends(c, e)
             \/ \E p \in State : DoneBegins(p)
             \/ \E o \in Sender : SenderStep(o)
      PROVE  LockInv'
  <2>1. UNCHANGED <<place, step, pc, locks, donePending, doneCount>>
    BY <1>7 DEF ClientSends, DoneBegins, SenderStep, Deliver, Skip, GiveUp, announced
  <2> QED BY <2>1 DEF LockInv, locks
<1>8. ASSUME NEW a \in Actor, Announce(a) PROVE LockInv'
  <2>1. /\ donePending' = donePending \cup (Completed(a) \ donePending)
        /\ pc[a] = "check" /\ pc' = [pc EXCEPT ![a] = pc'[a]] /\ pc'[a] \in {"idle", "claim"}
        /\ UNCHANGED <<place, locks, doneCount>>
        /\ \A b \in Actor : b # a => step'[b] = step[b]
    BY <1>0, <1>8 DEF Announce
  <2>2. Par \in donePending' <=> Par \in donePending
    BY <2>1, CompletedNotPar
  <2>3. \A r \in Region :
          /\ pc'[r] \in {"claimed", "reading"} <=> pc[r] \in {"claimed", "reading"}
          /\ pc'[r] = "acting" => pc[r] = "acting" /\ step'[r] = step[r]
    BY <1>0, <2>1
  <2> QED BY <2>1, <2>2, <2>3 DEF LockInv, locks
<1>9. ASSUME NEW r \in Region, Claim(r) PROVE LockInv'
  <2>1. pc[r] = "claim" /\ doneMu = Nobody /\ UNCHANGED <<place, step, donePending, doneCount>>
    BY <1>9 DEF Claim, announced
  <2>2. ASSUME pc' = [pc EXCEPT ![r] = "idle"], UNCHANGED locks PROVE LockInv'
    BY <1>0, <2>1, <2>2 DEF LockInv, locks
  <2>3. ASSUME Par \notin donePending, doneMu' = r, unread' = Region,
               pc' = [pc EXCEPT ![r] = "claimed"]
        PROVE  LockInv'
    BY <1>0, <2>1, <2>3 DEF LockInv
  <2> QED BY <1>9, <2>2, <2>3 DEF Claim
<1>16. ASSUME NEW r \in Region, BeginReading(r) PROVE LockInv'
  <2>1. /\ pc[r] = "claimed" /\ pc' = [pc EXCEPT ![r] = "reading"]
        /\ UNCHANGED <<place, step, doneMu, unread, donePending, doneCount>>
    BY <1>16 DEF BeginReading, announced
  <2>2. \A q \in Region :
          /\ pc'[q] \in {"claimed", "reading"} <=> pc[q] \in {"claimed", "reading"}
          /\ pc'[q] = "acting" => pc[q] = "acting"
    BY <1>0, <2>1
  <2> QED BY <2>1, <2>2 DEF LockInv
<1>10. ASSUME NEW r \in Region, NEW c \in Region, ReadFinal(r, c) PROVE LockInv'
  <2>1. /\ ~HoldsMu(c) /\ place[c] \in Final /\ unread' = unread \ {c}
        /\ UNCHANGED <<place, pc, step, doneMu, donePending, doneCount>>
    BY <1>10 DEF ReadFinal, announced
  <2> QED BY <2>1 DEF LockInv, HoldsMu
<1>11. ASSUME NEW r \in Region, NEW c \in Region, ReadLast(r, c) PROVE LockInv'
  <2>1. /\ pc[r] = "reading" /\ doneMu' = Nobody /\ pc' = [pc EXCEPT ![r] = "idle"]
        /\ donePending' = donePending \cup {Par} /\ doneCount' = doneCount + 1
    BY <1>11 DEF ReadLast
  <2>2. doneMu = r /\ Par \notin donePending
    BY <1>0, <2>1 DEF LockInv
  <2>3. doneCount' = 1
    BY <2>1, <2>2 DEF LockInv
  <2> QED BY <1>0, <2>1, <2>2, <2>3 DEF LockInv
<1>12. ASSUME NEW r \in Region, NEW c \in Region, ReadUnfinished(r, c) PROVE LockInv'
  <2>1. /\ pc[r] = "reading" /\ doneMu' = Nobody /\ pc' = [pc EXCEPT ![r] = "idle"]
        /\ UNCHANGED <<donePending, doneCount>>
    BY <1>12 DEF ReadUnfinished, announced
  <2>2. doneMu = r
    BY <1>0, <2>1 DEF LockInv
  <2> QED BY <1>0, <2>1, <2>2 DEF LockInv
<1>13. CASE UNCHANGED vars
  BY <1>13 DEF vars, locks, announced, LockInv
<1> QED BY <1>1, <1>2, <1>3, <1>4, <1>5, <1>6, <1>7, <1>8, <1>9, <1>10, <1>11, <1>12, <1>13,
           <1>14, <1>15, <1>16, NextKinds

\* The discipline holds in every behaviour.
LEMMA DoneInvCorrect == Spec => []DoneInv
<1>1. Init => DoneInv
  BY TypeInit, DoneInit DEF DoneInv
<1>2. DoneInv /\ [Next]_vars => DoneInv'
  BY TypeNext, PlaceNext, LockNext DEF DoneInv
<1> QED BY <1>1, <1>2, PTL DEF Spec

\* The count of announcements grows in one kind of step only.
LEMMA DoneCountGrows ==
  ASSUME DoneInv, doneCount' > doneCount,
         \/ Start \/ Starting \/ Cancel \/ StopReturns \/ LoopEnds
         \/ \E r \in Region : RegionStarts(r) \/ RegionEnters(r) \/ Leave(r)
         \/ \E c \in Client, e \in Event : ClientSends(c, e)
         \/ \E p \in State : DoneBegins(p)
         \/ \E o \in Sender : SenderStep(o)
         \/ LoopReads
         \/ \E a \in Actor : \/ TakeEvent(a) \/ IgnoreEvent(a) \/ ExitStates(a)
                            \/ ActionSends(a) \/ EnterStates(a) \/ EndInternal(a)
         \/ \E a \in Actor : Announce(a)
         \/ \E r \in Region : Claim(r) \/ BeginReading(r)
         \/ \E r \in Region, c \in Region :
              ReadFinal(r, c) \/ ReadLast(r, c) \/ ReadUnfinished(r, c)
  PROVE  \E r \in Region, c \in Region : ReadLast(r, c)
<1>1. doneCount \in Nat
  BY DEF DoneInv, TypeInv, TypeOK
<1>2. ~ UNCHANGED doneCount /\ doneCount' # 0
  BY <1>1
<1>3. ASSUME NEW a \in Actor, ExitStates(a) PROVE UNCHANGED doneCount \/ doneCount' = 0
  BY <1>3 DEF ExitStates
<1> QED BY <1>2, <1>3
      DEF Start, Starting, Spawn, StartReturns, StartGivesUp, CleanUp, Cancel, StopReturns,
          LoopEnds, LoopReads, RegionStarts, RegionEnters, Leave, ClientSends, DoneBegins,
          SenderStep, Deliver, Skip, GiveUp, TakeEvent, IgnoreEvent, ActionSends, EnterStates,
          EndInternal, Announce, Claim, BeginReading, ReadFinal, ReadUnfinished, announced

\* When the completion of the parallel state is announced every region is in a
\* final state at that very moment.
THEOREM RegionDoneIsTrue == Spec => DoneIsTrue
<1>1. DoneInv /\ [Next]_vars =>
        [doneCount' > doneCount => \A r \in Region : place[r] \in Final]_vars
  <2> SUFFICES ASSUME DoneInv, Next, doneCount' > doneCount
               PROVE  \A r \in Region : place[r] \in Final
    OBVIOUS
  <2>1. doneCount \in Nat
    BY DEF DoneInv, TypeInv, TypeOK
  <2>2. PICK r \in Region, c \in Region : ReadLast(r, c)
    BY <2>1, NextKinds, DoneCountGrows
  <2>3. doneMu = r /\ doneMu # Nobody /\ unread = {c} /\ place[c] \in Final
    BY <2>2, RegionFacts DEF ReadLast, DoneInv, LockInv
  <2> QED BY <2>3 DEF DoneInv, LockInv
<1> QED BY <1>1, DoneInvCorrect, PTL DEF Spec, DoneIsTrue

-----------------------------------------------------------------------------
(***************************************************************************)
(* Where events can go.                                                    *)
(***************************************************************************)

\* A transition that answers to an event names it, or any event.
LEMMA SelectedByHandler ==
  ASSUME NEW s \in State, NEW e \in EventID, NEW ok,
         NEW t \in PickTransitionHierarchical(s, e, ok)
  PROVE  \E h \in Ancestors(s) : \E i \in DOMAIN Transitions[h] :
           /\ h \in State /\ t = Transitions[h][i]
           /\ t.event = e \/ t.event = AnyEvent
<1>1. PICK h \in Ancestors(s) : t \in PickTransition(h, e, ok)
  BY DEF PickTransitionHierarchical, Handlers
<1>2. PICK i \in Matches(h, e, ok) : t = Transitions[h][i]
  BY <1>1 DEF PickTransition
<1> QED BY <1>1, <1>2, AncestorsInState DEF Matches, ExactMatches, WildcardMatches

RootEvent == EarlyEvent \cup {DoneEvent[Par]}

\* What the root queue can hold, and what a region can receive.
LifeRule ==
  /\ life \in {"new", "starting", "cleaning", "failed"} => pc[Loop] = "off"
  /\ regions = {} => life \notin {"cleaning", "running"}
  /\ (life = "new" \/ (life = "starting" /\ regions = {})) => \A p \in State : dones[p] = 0

RootRule ==
  life # "failed" =>
    /\ \A i \in DOMAIN mailbox[Loop] : mailbox[Loop][i] \in RootEvent
    /\ \A o \in Sender : Loop \in flight[o].left => flight[o].event \in RootEvent

RegionRule ==
  \A r \in Region :
    /\ \A i \in DOMAIN mailbox[r] : mailbox[r][i] # DoneEvent[Par]
    /\ \A o \in Sender : r \in flight[o].left => flight[o].event # DoneEvent[Par]

RouteInv == LifeRule /\ RootRule /\ RegionRule

\* Initially.
LEMMA RouteInit == Init => RouteInv
BY RegionFacts DEF Init, RouteInv, LifeRule, RootRule, RegionRule, Nothing, Actor

\* A new send obeys the rule if its event and its destinations do.
LEMMA FlightKept ==
  ASSUME TypeInv, RouteInv, NEW o \in Sender, NEW e, NEW dest,
         flight' = [flight EXCEPT ![o] = Sending(e, dest)],
         UNCHANGED mailbox,
         e # NoEvent /\ Loop \in dest /\ life' # "failed" => e \in RootEvent,
         e # NoEvent /\ dest \cap Region # {} => e # DoneEvent[Par],
         life' # "failed" => life # "failed"
  PROVE  RootRule' /\ RegionRule'
<1>1. flight \in [Sender -> [event : EventID \cup {NoEvent}, left : SUBSET Actor]]
  BY DEF TypeInv, TypeOK
<1>2. \A q \in Sender : flight'[q] = IF q = o THEN Sending(e, dest) ELSE flight[q]
  BY <1>1
<1>3. /\ Sending(e, dest).event = e
      /\ Sending(e, dest).left = IF e = NoEvent THEN {} ELSE dest
  BY DEF Sending
<1> QED BY <1>2, <1>3 DEF RouteInv, RootRule, RegionRule

\* Taking an event out keeps the rule.
LEMMA TailKept ==
  ASSUME NEW a \in Actor, mailbox[a] # <<>>, mailbox \in [Actor -> Seq(EventID)],
         mailbox' = [mailbox EXCEPT ![a] = Tail(@)], NEW b \in Actor
  PROVE  \A i \in DOMAIN mailbox'[b] : \E j \in DOMAIN mailbox[b] : mailbox'[b][i] = mailbox[b][j]
<1>1. CASE a # b
  BY <1>1
<1>2. CASE a = b
  <2>1. mailbox'[b] = Tail(mailbox[b]) /\ mailbox[b] \in Seq(EventID) /\ mailbox[b] # <<>>
    BY <1>2
  <2>2. \A i \in DOMAIN Tail(mailbox[b]) :
          i + 1 \in DOMAIN mailbox[b] /\ Tail(mailbox[b])[i] = mailbox[b][i + 1]
    BY <2>1
  <2> QED BY <2>1, <2>2
<1> QED BY <1>1, <1>2

\* Moving events from senders to mailboxes and out of them keeps the rule.
LEMMA MailKept ==
  ASSUME RouteInv, life' # "failed" => life # "failed", Loop \in Actor, Region \subseteq Actor,
         \A b \in Actor : \A i \in DOMAIN mailbox'[b] :
           \/ \E j \in DOMAIN mailbox[b] : mailbox'[b][i] = mailbox[b][j]
           \/ \E o \in Sender : b \in flight[o].left /\ mailbox'[b][i] = flight[o].event,
         \A q \in Sender : flight'[q].event = flight[q].event /\ flight'[q].left \subseteq flight[q].left
  PROVE  RootRule' /\ RegionRule'
<1>1. RootRule'
  BY DEF RouteInv, RootRule
<1>2. RegionRule'
  BY DEF RouteInv, RegionRule
<1> QED BY <1>1, <1>2

\* Every step keeps the routing.
LEMMA RouteNext == TypeInv /\ PlaceInv /\ RouteInv /\ [Next]_vars => RouteInv'
<1> SUFFICES ASSUME TypeInv, PlaceInv, RouteInv, [Next]_vars PROVE RouteInv'
  OBVIOUS
<1>0. /\ pc \in [Actor -> PC] /\ step \in [Actor -> Step] /\ Loop \in Actor /\ Region \subseteq Actor
      /\ mailbox \in [Actor -> Seq(EventID)] /\ regions \in {{}, Region}
      /\ flight \in [Sender -> [event : EventID \cup {NoEvent}, left : SUBSET Actor]]
      /\ Loop \notin Region /\ Par \in State /\ Region # {}
  BY RegionFacts, RegionsAssumption DEF TypeInv, TypeOK, Actor
<1>r. /\ Loop \in Route => regions = {}
      /\ \A dest \in Routes : dest \in {Route, {}}
      /\ \A a \in Actor : pc[a] # "off" /\ regions = {} => life = "failed"
      /\ \A e \in Event \cup {NoEvent} : e # DoneEvent[Par]
  BY <1>0, EventAssumption DEF Route, Routes, PlaceInv, RouteInv, LifeRule, TypeInv, TypeOK, EventID
<1>1. ASSUME NEW a \in Actor, TakeEvent(a) PROVE RouteInv'
  <2>1. /\ pc[a] = "idle" /\ pc' = [pc EXCEPT ![a] = pc'[a]]
        /\ mailbox[a] # <<>> /\ mailbox' = [mailbox EXCEPT ![a] = Tail(@)]
        /\ UNCHANGED <<life, regions, flight, dones>>
    BY <1>0, <1>1 DEF TakeEvent, control, announced
  <2>2. \A b \in Actor : \A i \in DOMAIN mailbox'[b] :
          \E j \in DOMAIN mailbox[b] : mailbox'[b][i] = mailbox[b][j]
    BY <1>0, <2>1, TailKept
  <2>3. RootRule' /\ RegionRule'
    BY <1>0, <2>1, <2>2, MailKept
  <2>4. LifeRule'
    BY <1>0, <2>1 DEF RouteInv, LifeRule
  <2> QED BY <2>3, <2>4 DEF RouteInv
<1>2. ASSUME NEW a \in Actor, ActionSends(a) PROVE RouteInv'
  <2>1. PICK dest \in Routes :
          /\ pc[a] = "acting" /\ flight' = [flight EXCEPT ![a] = Sending(step[a].raise, dest)]
          /\ UNCHANGED <<life, regions, mailbox, pc, dones>>
    BY <1>2 DEF ActionSends, control, announced
  <2>2. step[a].raise \in Event \cup {NoEvent}
    BY <1>0 DEF Step
  <2>3. life # "failed" => Loop \notin dest
    BY <1>r, <2>1
  <2>4. a \in Sender
    BY DEF Sender
  <2>5. RootRule' /\ RegionRule'
    BY <1>r, <2>1, <2>2, <2>3, <2>4, FlightKept
  <2> QED BY <2>1, <2>5 DEF RouteInv, LifeRule
<1>18. ASSUME NEW a \in Actor, ExitStates(a) \/ (a = Loop /\ LoopReads) PROVE RouteInv'
  <2>1. /\ pc[a] # "off" /\ pc' = [pc EXCEPT ![a] = pc'[a]]
        /\ UNCHANGED <<life, regions, mailbox, flight, dones>>
    BY <1>0, <1>18 DEF ExitStates, LoopReads, control, announced
  <2>2. LifeRule'
    BY <1>0, <2>1 DEF RouteInv, LifeRule
  <2> QED BY <2>1, <2>2 DEF RouteInv, RootRule, RegionRule
<1>3. ASSUME NEW a \in Actor, EnterStates(a) \/ EndInternal(a) PROVE RouteInv'
  <2>1. /\ pc[a] = "acting" /\ pc' = [pc EXCEPT ![a] = pc'[a]]
        /\ UNCHANGED <<life, regions, mailbox, flight, dones>>
    BY <1>0, <1>3 DEF EnterStates, EndInternal, Acted, control, announced
  <2>2. LifeRule'
    BY <1>0, <2>1 DEF RouteInv, LifeRule
  <2> QED BY <2>1, <2>2 DEF RouteInv, RootRule, RegionRule
<1>4. ASSUME NEW a \in Actor, IgnoreEvent(a) PROVE RouteInv'
  <2>1. /\ mailbox[a] # <<>> /\ mailbox' = [mailbox EXCEPT ![a] = Tail(@)]
        /\ UNCHANGED <<life, regions, pc, flight, dones>>
    BY <1>4 DEF IgnoreEvent, control, announced
  <2>2. \A b \in Actor : \A i \in DOMAIN mailbox'[b] :
          \E j \in DOMAIN mailbox[b] : mailbox'[b][i] = mailbox[b][j]
    BY <1>0, <2>1, TailKept
  <2>3. RootRule' /\ RegionRule'
    BY <1>0, <2>1, <2>2, MailKept
  <2> QED BY <2>1, <2>3 DEF RouteInv, LifeRule
<1>5. ASSUME NEW a \in Actor, Announce(a) PROVE RouteInv'
  <2>1. /\ pc[a] = "check" /\ pc' = [pc EXCEPT ![a] = pc'[a]]
        /\ UNCHANGED <<life, regions, mailbox, flight>>
    BY <1>0, <1>5 DEF Announce, control
  <2>2. ~(life = "new" \/ (life = "starting" /\ regions = {}))
    BY <2>1 DEF PlaceInv
  <2>3. LifeRule'
    BY <1>0, <2>1, <2>2 DEF RouteInv, LifeRule
  <2> QED BY <2>1, <2>3 DEF RouteInv, RootRule, RegionRule
<1>6. ASSUME \/ \E r \in Region : Claim(r) \/ BeginReading(r)
             \/ \E r \in Region, c \in Region : ReadFinal(r, c) \/ ReadUnfinished(r, c)
             \/ \E r \in Region : RegionStarts(r) \/ RegionEnters(r) \/ Leave(r)
      PROVE  RouteInv'
  <2>1. /\ pc'[Loop] = pc[Loop]
        /\ UNCHANGED <<life, regions, mailbox, flight, dones>>
    BY <1>0, <1>6 DEF Claim, BeginReading, ReadFinal, ReadUnfinished, RegionStarts, RegionEnters, Leave,
       control, announced
  <2> QED BY <2>1 DEF RouteInv, LifeRule, RootRule, RegionRule
<1>7. ASSUME NEW r \in Region, NEW c \in Region, ReadLast(r, c) PROVE RouteInv'
  <2>1. /\ pc[r] = "reading" /\ pc'[Loop] = pc[Loop]
        /\ UNCHANGED <<life, regions, mailbox, flight>>
    BY <1>0, <1>7 DEF ReadLast, control
  <2>2. ~(life = "new" \/ (life = "starting" /\ regions = {}))
    BY <1>0, <2>1 DEF PlaceInv
  <2>3. LifeRule'
    BY <2>1, <2>2 DEF RouteInv, LifeRule
  <2> QED BY <2>1, <2>3 DEF RouteInv, RootRule, RegionRule
<1>8. ASSUME Start \/ Starting \/ Cancel \/ StopReturns PROVE RouteInv'
  <2>1. UNCHANGED <<mailbox, flight, dones>>
    BY <1>8 DEF Start, Starting, Spawn, StartReturns, StartGivesUp, CleanUp, Cancel, StopReturns,
       announced
  <2>2. /\ life' \in {"new", "starting", "cleaning", "failed"} => pc'[Loop] = "off"
        /\ regions' = {} => life' \notin {"cleaning", "running"}
        /\ life' # "failed" => life # "failed"
        /\ (life' = "new" \/ (life' = "starting" /\ regions' = {})) =>
             (life = "new" \/ (life = "starting" /\ regions = {}))
    BY <1>0, <1>8 DEF Start, Starting, Spawn, StartReturns, StartGivesUp, CleanUp, Cancel,
       StopReturns, RouteInv, LifeRule
  <2>3. LifeRule'
    BY <2>1, <2>2 DEF RouteInv, LifeRule
  <2> QED BY <2>1, <2>2, <2>3 DEF RouteInv, RootRule, RegionRule
<1>9. CASE LoopEnds
  BY <1>0, <1>9 DEF LoopEnds, RouteInv, LifeRule, RootRule, RegionRule, control, announced
<1>10. ASSUME NEW c \in Client, NEW e \in Event, ClientSends(c, e) PROVE RouteInv'
  <2>1. PICK dest \in Routes \cup {{r} : r \in regions} :
          flight' = [flight EXCEPT ![c] = Sending(e, dest)]
    BY <1>10 DEF ClientSends
  <2>2. /\ regions = {} => e \in EarlyEvent
        /\ UNCHANGED <<life, regions, mailbox, pc, dones>>
    BY <1>10 DEF ClientSends, control, announced
  <2>3. Loop \in dest => regions = {}
    <3>1. CASE dest \in Routes
      BY <1>r, <3>1
    <3>2. CASE dest \in {{r} : r \in regions}
      BY <1>0, <3>2
    <3> QED BY <2>1, <3>1, <3>2
  <2>4. c \in Sender
    BY DEF Sender
  <2>5. RootRule' /\ RegionRule'
    BY <1>r, <2>1, <2>2, <2>3, <2>4, FlightKept DEF RootEvent
  <2> QED BY <2>2, <2>5 DEF RouteInv, LifeRule
<1>11. ASSUME NEW p \in State, DoneBegins(p) PROVE RouteInv'
  <2>1. PICK dest \in IF p = Par THEN {{Loop}} ELSE Routes :
        /\ flight' = [flight EXCEPT ![DoneEvent[p]] = Sending(DoneEvent[p], dest)]
        /\ dones[p] > 0 /\ UNCHANGED <<life, regions, mailbox, pc>>
    BY <1>11 DEF DoneBegins, control
  <2>2. dones[p] # 0
    BY <2>1
  <2>3. ~(life = "new" \/ (life = "starting" /\ regions = {}))
    BY <2>2 DEF RouteInv, LifeRule
  <2>4. life # "failed" /\ Loop \in dest => DoneEvent[p] \in RootEvent
    <3>1. CASE p = Par
      BY <3>1 DEF RootEvent
    <3>2. CASE p # Par
      <4>1. Loop \in dest => regions = {}
        BY <1>r, <2>1, <3>2
      <4>2. regions = {} => life = "failed"
        BY <2>3 DEF RouteInv, LifeRule, TypeInv, TypeOK
      <4> QED BY <4>1, <4>2
    <3> QED BY <3>1, <3>2
  <2>5. dest \cap Region # {} => DoneEvent[p] # DoneEvent[Par]
    BY <1>0, <2>1, EventAssumption
  <2>6. DoneEvent[p] \in Sender
    BY DEF Sender
  <2>7. RootRule' /\ RegionRule'
    BY <2>1, <2>4, <2>5, <2>6, FlightKept
  <2> QED BY <2>1, <2>3, <2>7 DEF RouteInv, LifeRule
<1>12. ASSUME NEW o \in Sender, NEW d \in Actor, Deliver(o, d) PROVE RouteInv'
  <2>1. /\ d \in flight[o].left
        /\ mailbox' = [mailbox EXCEPT ![d] = Append(@, flight[o].event)]
        /\ flight' = [flight EXCEPT ![o].left = @ \ {d}]
        /\ UNCHANGED <<life, regions, pc, dones>>
    BY <1>12 DEF Deliver, control, announced
  <2>2. flight[o].event \in EventID
    BY <2>1 DEF TypeInv, FlightOK
  <2>3. \A b \in Actor : \A i \in DOMAIN mailbox'[b] :
          \/ \E j \in DOMAIN mailbox[b] : mailbox'[b][i] = mailbox[b][j]
          \/ b = d /\ mailbox'[b][i] = flight[o].event
    <3> SUFFICES ASSUME NEW b \in Actor
                 PROVE  \A i \in DOMAIN mailbox'[b] :
                          \/ \E j \in DOMAIN mailbox[b] : mailbox'[b][i] = mailbox[b][j]
                          \/ b = d /\ mailbox'[b][i] = flight[o].event
      OBVIOUS
    <3>1. CASE b # d
      BY <1>0, <2>1, <3>1
    <3>2. CASE b = d
      <4>1. mailbox[b] \in Seq(EventID) /\ mailbox'[b] = Append(mailbox[b], flight[o].event)
        BY <1>0, <2>1, <3>2
      <4> QED BY <2>2, <3>2, <4>1
    <3> QED BY <3>1, <3>2
  <2>4. \A q \in Sender : flight'[q].event = flight[q].event /\ flight'[q].left \subseteq flight[q].left
    BY <1>0, <2>1
  <2>5. RootRule' /\ RegionRule'
    BY <1>0, <2>1, <2>3, <2>4, MailKept
  <2> QED BY <2>1, <2>5 DEF RouteInv, LifeRule
<1>13. ASSUME NEW o \in Sender, GiveUp(o) \/ \E d \in Actor : Skip(o, d) PROVE RouteInv'
  <2>1. UNCHANGED <<life, regions, mailbox, pc, dones>>
    BY <1>13 DEF GiveUp, Skip, control, announced
  <2>2. \A q \in Sender : flight'[q].event = flight[q].event /\ flight'[q].left \subseteq flight[q].left
    <3>1. CASE GiveUp(o)
      BY <1>0, <3>1 DEF GiveUp
    <3>2. ASSUME NEW d \in Actor, Skip(o, d)
          PROVE  \A q \in Sender : flight'[q].event = flight[q].event /\ flight'[q].left \subseteq flight[q].left
      BY <1>0, <3>2 DEF Skip
    <3> QED BY <1>13, <3>1, <3>2
  <2>3. RootRule' /\ RegionRule'
    BY <1>0, <2>1, <2>2, MailKept
  <2> QED BY <2>1, <2>3 DEF RouteInv, LifeRule
<1>14. CASE UNCHANGED vars
  BY <1>14 DEF vars, control, announced, RouteInv, LifeRule, RootRule, RegionRule
<1>15. ASSUME NEW a \in Actor, \/ TakeEvent(a) \/ IgnoreEvent(a) \/ ExitStates(a)
                               \/ ActionSends(a) \/ EnterStates(a) \/ EndInternal(a)
                               \/ Announce(a)
       PROVE  RouteInv'
  BY <1>1, <1>2, <1>3, <1>4, <1>5, <1>15, <1>18
<1>16. ASSUME NEW o \in Sender, SenderStep(o) PROVE RouteInv'
  BY <1>12, <1>13, <1>16 DEF SenderStep
<1>17. CASE Next
  <2>1. CASE Start \/ Starting \/ Cancel \/ StopReturns \/ LoopEnds
    BY <1>8, <1>9, <2>1
  <2>2. CASE \E r \in Region : RegionStarts(r) \/ RegionEnters(r) \/ Leave(r)
    BY <1>6, <2>2
  <2>3. CASE \/ \E c \in Client, e \in Event : ClientSends(c, e)
             \/ \E p \in State : DoneBegins(p)
             \/ \E o \in Sender : SenderStep(o)
    BY <1>10, <1>11, <1>16, <2>3
  <2>4. CASE \E a \in Actor : \/ TakeEvent(a) \/ IgnoreEvent(a) \/ ExitStates(a)
                             \/ ActionSends(a) \/ EnterStates(a) \/ EndInternal(a)
                             \/ Announce(a)
    BY <1>15, <2>4
  <2>7. CASE LoopReads
    BY <1>0, <1>18, <2>7
  <2>5. CASE \E r \in Region : Claim(r) \/ BeginReading(r)
    BY <1>6, <2>5
  <2>6. CASE \E r \in Region, c \in Region :
               ReadFinal(r, c) \/ ReadLast(r, c) \/ ReadUnfinished(r, c)
    BY <1>6, <1>7, <2>6
  <2> QED BY <1>17, <2>1, <2>2, <2>3, <2>4, <2>5, <2>6, <2>7, NextKinds
<1> QED BY <1>14, <1>17

\* Every step keeps the senders away from the channels of regions that are no
\* longer in the map.
LEMMA ClosedNext == TypeInv /\ NoSendOnClosed /\ [Next]_vars => NoSendOnClosed'
<1> SUFFICES ASSUME TypeInv, NoSendOnClosed, [Next]_vars PROVE NoSendOnClosed'
  OBVIOUS
<1>0. /\ flight \in [Sender -> [event : EventID \cup {NoEvent}, left : SUBSET Actor]]
      /\ Region # {} /\ Loop \notin Region
  BY RegionFacts, RegionsAssumption DEF TypeInv, TypeOK
<1>1. ASSUME NEW o \in Sender, NEW e, NEW dest, regions = {} => dest \cap Region = {},
             flight' = [flight EXCEPT ![o] = Sending(e, dest)], UNCHANGED regions
      PROVE  NoSendOnClosed'
  <2>1. \A q \in Sender : flight'[q] = IF q = o THEN Sending(e, dest) ELSE flight[q]
    BY <1>0, <1>1
  <2>2. Sending(e, dest).left \subseteq dest
    BY DEF Sending
  <2> QED BY <1>1, <2>1, <2>2 DEF NoSendOnClosed
<1>2. ASSUME NEW dest \in Routes, regions = {} PROVE dest \cap Region = {}
  BY <1>0, <1>2 DEF Routes, Route
<1>3. ASSUME NEW c \in Client, NEW e \in Event, ClientSends(c, e) PROVE NoSendOnClosed'
  <2>1. PICK dest \in Routes \cup {{r} : r \in regions} :
          flight' = [flight EXCEPT ![c] = Sending(e, dest)]
    BY <1>3 DEF ClientSends
  <2>2. regions = {} => dest \cap Region = {}
    BY <1>2, <2>1
  <2>3. UNCHANGED regions /\ c \in Sender
    BY <1>3 DEF ClientSends, control, Sender
  <2> QED BY <1>1, <2>1, <2>2, <2>3
<1>4. ASSUME NEW p \in State, DoneBegins(p) PROVE NoSendOnClosed'
  <2>1. PICK dest \in IF p = Par THEN {{Loop}} ELSE Routes :
          flight' = [flight EXCEPT ![DoneEvent[p]] = Sending(DoneEvent[p], dest)]
    BY <1>4 DEF DoneBegins
  <2>2. regions = {} => dest \cap Region = {}
    BY <1>0, <1>2, <2>1
  <2>3. UNCHANGED regions /\ DoneEvent[p] \in Sender
    BY <1>4 DEF DoneBegins, control, Sender
  <2> QED BY <1>1, <2>1, <2>2, <2>3
<1>5. ASSUME NEW a \in Actor, ActionSends(a) PROVE NoSendOnClosed'
  <2>1. PICK dest \in Routes : flight' = [flight EXCEPT ![a] = Sending(step[a].raise, dest)]
    BY <1>5 DEF ActionSends
  <2>2. UNCHANGED regions /\ a \in Sender
    BY <1>5 DEF ActionSends, control, Sender
  <2> QED BY <1>1, <1>2, <2>1, <2>2
<1>6. ASSUME NEW o \in Sender, SenderStep(o) PROVE NoSendOnClosed'
  <2>1. \/ flight' = [flight EXCEPT ![o].left = {}]
        \/ \E d \in Actor : flight' = [flight EXCEPT ![o].left = @ \ {d}]
    BY <1>6 DEF SenderStep, GiveUp, Deliver, Skip
  <2>2. \A q \in Sender : flight'[q].left \subseteq flight[q].left
    BY <1>0, <2>1
  <2>3. UNCHANGED regions
    BY <1>6 DEF SenderStep, GiveUp, Deliver, Skip, control
  <2> QED BY <2>2, <2>3 DEF NoSendOnClosed
<1>7. CASE Starting
  <2>1. UNCHANGED flight /\ (Spawn \/ StartReturns \/ StartGivesUp \/ CleanUp)
    BY <1>7 DEF Starting, Spawn, StartReturns, StartGivesUp, CleanUp
  <2>2. CASE Spawn
    BY <1>0, <2>2 DEF Spawn, NoSendOnClosed
  <2>3. CASE StartReturns \/ StartGivesUp
    BY <2>1, <2>3 DEF StartReturns, StartGivesUp, NoSendOnClosed
  <2>4. CASE CleanUp
    BY <2>1, <2>4 DEF CleanUp, NoSendOnClosed
  <2> QED BY <2>1, <2>2, <2>3, <2>4
<1>8. ASSUME UNCHANGED <<regions, flight>> PROVE NoSendOnClosed'
  BY <1>8 DEF NoSendOnClosed
<1>9. ASSUME \/ Start \/ Cancel \/ StopReturns \/ LoopEnds \/ LoopReads
             \/ \E r \in Region : \/ RegionStarts(r) \/ RegionEnters(r) \/ Leave(r)
                                 \/ Claim(r) \/ BeginReading(r)
             \/ \E a \in Actor : \/ TakeEvent(a) \/ IgnoreEvent(a) \/ ExitStates(a)
                                \/ EnterStates(a) \/ EndInternal(a) \/ Announce(a)
             \/ \E r \in Region, c \in Region :
                  ReadFinal(r, c) \/ ReadLast(r, c) \/ ReadUnfinished(r, c)
      PROVE  NoSendOnClosed'
  BY <1>8, <1>9 DEF Start, Cancel, StopReturns, LoopEnds, LoopReads, RegionStarts, RegionEnters,
     Leave, Claim, BeginReading, TakeEvent, IgnoreEvent, ExitStates, EnterStates, EndInternal,
     Announce, ReadFinal, ReadLast, ReadUnfinished, control
<1>10. CASE UNCHANGED vars
  BY <1>8, <1>10 DEF vars, control
<1> QED BY <1>3, <1>4, <1>5, <1>6, <1>7, <1>9, <1>10, NextKinds

\* No send can meet a channel that cleanupParallelRegions has closed.
THEOREM NoSendOnClosedCorrect == Spec => []NoSendOnClosed
<1>1. Init => TypeInv /\ NoSendOnClosed
  BY TypeInit DEF Init, Nothing, NoSendOnClosed
<1>2. TypeInv /\ NoSendOnClosed /\ [Next]_vars => (TypeInv /\ NoSendOnClosed)'
  BY TypeNext, ClosedNext
<1> QED BY <1>1, <1>2, PTL DEF Spec

-----------------------------------------------------------------------------
(***************************************************************************)
(* Neither twice nor not at all.                                           *)
(***************************************************************************)

\* A transition whose target is below the parallel state began below it, and is
\* none of the loop's.
InsideInv ==
  /\ \A a \in Actor : pc[a] \in {"exiting", "acting"} /\ step[a].to # NoState =>
       (Par \in Ancestors(step[a].to) => Par \in Ancestors(step[a].from) \ {step[a].from})
  /\ pc[Loop] \in {"selected", "exiting"} => Par \notin Ancestors(step[Loop].to)

\* A region that will not look at the others again before its next transition.
Resting(r) == pc[r] = "idle" \/ (pc[r] = "acting" /\ step[r].to = NoState)

NotMissed ==
  Par \in active /\ regions = Region /\ (\A r \in Region : Resting(r) /\ place[r] \in Final)
    => Par \in donePending

\* No transition enters the parallel state.
LEMMA ParNotEntered ==
  ASSUME TypeInv, InsideInv, NEW a \in Actor, pc[a] = "acting", step[a].to # NoState
  PROVE  Par \notin Ancestors(step[a].to) \ Ancestors(ComputeLCA(step[a].from, step[a].to))
<1> DEFINE from == step[a].from
           to == step[a].to
<1>1. from \in State /\ to \in State
  BY DEF TypeInv, TypeOK, StepOK, Step
<1>2. SUFFICES ASSUME Par \in Ancestors(to) PROVE Par \in Ancestors(ComputeLCA(from, to))
  OBVIOUS
<1>3. Par \in Ancestors(from) /\ Par # from
  BY <1>2 DEF InsideInv
<1>4. CASE from = to
  <2>1. ComputeLCA(from, to) = Parent[from]
    BY <1>4 DEF ComputeLCA
  <2> QED BY <1>1, <1>3, <2>1, AncestorsUnfold
<1>5. CASE from # to
  <2> DEFINE C == Ancestors(from) \cap Ancestors(to)
  <2>1. ComputeLCA(from, to) = Innermost(C)
    BY <1>5 DEF ComputeLCA
  <2>2. Par \in C
    BY <1>2, <1>3
  <2>3. C \subseteq Ancestors(Innermost(C))
    BY <1>1, <2>2, InnermostExists
  <2> QED BY <2>1, <2>2, <2>3
<1> QED BY <1>4, <1>5

\* What the root queue holds selects no transition into the parallel state.
LEMMA RootSelects ==
  ASSUME NEW s \in State, NEW e \in RootEvent, NEW ok,
         NEW t \in PickTransitionHierarchical(s, e, ok), t.target # NoState
  PROVE  Par \notin Ancestors(t.target)
<1>1. e \in EventID
  BY RegionsAssumption, RegionFacts DEF RootEvent, EventID
<1>2. PICK h \in Ancestors(s) : \E i \in DOMAIN Transitions[h] :
        /\ h \in State /\ t = Transitions[h][i]
        /\ t.event = e \/ t.event = AnyEvent
  BY <1>1, SelectedByHandler
<1> QED BY <1>2, TargetAssumption DEF RootEvent

\* What the loop takes is what the root queue holds.
LEMMA LoopHears ==
  ASSUME TypeInv, RouteInv, TakeEvent(Loop)
  PROVE  Head(mailbox[Loop]) \in RootEvent
<1>1. pc[Loop] = "idle" /\ mailbox[Loop] # <<>>
  BY DEF TakeEvent
<1>2. life # "failed"
  BY <1>1 DEF RouteInv, LifeRule
<1>3. mailbox[Loop] \in Seq(EventID)
  BY DEF TypeInv, TypeOK, Actor
<1>4. 1 \in DOMAIN mailbox[Loop] /\ Head(mailbox[Loop]) = mailbox[Loop][1]
  BY <1>1, <1>3
<1> QED BY <1>2, <1>4 DEF RouteInv, RootRule

\* A selected transition into the parallel state starts inside it.
LEMMA SelectedInside ==
  ASSUME NEW s \in State, NEW e, NEW ok, NEW t \in PickTransitionHierarchical(s, e, ok),
         t.target # NoState, Par \in Ancestors(t.target)
  PROVE  Par \in Ancestors(s) \ {s}
<1>1. PICK h \in Ancestors(s) : t \in PickTransition(h, e, ok)
  BY DEF PickTransitionHierarchical, Handlers
<1>2. PICK i \in Matches(h, e, ok) : t = Transitions[h][i]
  BY <1>1 DEF PickTransition
<1>3. h \in State /\ i \in DOMAIN Transitions[h]
  BY <1>2, AncestorsInState DEF Matches, ExactMatches, WildcardMatches
<1>4. Par \in Ancestors(h) /\ Par # h
  BY <1>2, <1>3, TargetAssumption
<1>5. Par \in Ancestors(s)
  BY <1>1, <1>4, AncestorsTransitive
<1>6. s # Par
  <2>1. SUFFICES ASSUME h \in Ancestors(Par) PROVE FALSE
    BY <1>1
  <2> QED BY <1>3, <1>4, <2>1, AncestorsAntisymmetric, RegionFacts
<1> QED BY <1>5, <1>6

OnceInv == DoneInv /\ RouteInv /\ InsideInv /\ NotMissed

\* Initially.
LEMMA OnceInit == Init => InsideInv /\ NotMissed
BY RegionsAssumption DEF Init, InsideInv, NotMissed, Actor

\* Every step keeps where transitions begin.
LEMMA InsideNext == DoneInv /\ RouteInv /\ InsideInv /\ [Next]_vars => InsideInv'
<1> SUFFICES ASSUME DoneInv, RouteInv, InsideInv, [Next]_vars PROVE InsideInv'
  OBVIOUS
<1>0. pc \in [Actor -> PC] /\ step \in [Actor -> Step] /\ Loop \in Actor
  BY DEF DoneInv, TypeInv, TypeOK, Actor
<1>1. ASSUME NEW a \in Actor, TakeEvent(a) PROVE InsideInv'
  <2>1. PICK t \in Transition :
             /\ \E ok : t \in PickTransitionHierarchical(Position(a), Head(mailbox[a]), ok)
             /\ Position(a) \in State
             /\ step' = [step EXCEPT ![a] = [from |-> Position(a), to |-> t.target,
                                             raise |-> t.raise]]
             /\ pc' = [pc EXCEPT ![a] = Selected(a, t.target)]
             /\ pc'[a] \in {"acting", "selected", "exiting"}
             /\ t.target # NoState => pc'[a] # "acting"
    BY <1>1, TakenTransition DEF DoneInv
  <2>2. t.target # NoState /\ Par \in Ancestors(t.target) =>
          Par \in Ancestors(Position(a)) \ {Position(a)}
    BY <2>1, SelectedInside
  <2>3. a = Loop /\ t.target # NoState => Par \notin Ancestors(t.target)
    BY <1>1, <2>1, LoopHears, RootSelects DEF DoneInv
  <2>4. pc'[a] \in {"selected", "exiting"} => t.target # NoState
    BY <1>0, <2>1 DEF Selected
  <2>5. step'[a].from = Position(a) /\ step'[a].to = t.target
    BY <1>0, <2>1
  <2>6. \A b \in Actor : b # a => pc'[b] = pc[b] /\ step'[b] = step[b]
    BY <1>0, <2>1
  <2>7. \A b \in Actor : pc'[b] \in {"exiting", "acting"} /\ step'[b].to # NoState =>
          (Par \in Ancestors(step'[b].to) => Par \in Ancestors(step'[b].from) \ {step'[b].from})
    BY <2>2, <2>5, <2>6 DEF InsideInv
  <2>8. pc'[Loop] \in {"selected", "exiting"} => Par \notin Ancestors(step'[Loop].to)
    <3>1. CASE a = Loop
      BY <2>3, <2>4, <2>5, <3>1
    <3>2. CASE a # Loop
      BY <1>0, <2>6, <3>2 DEF InsideInv
    <3> QED BY <3>1, <3>2
  <2> QED BY <2>7, <2>8 DEF InsideInv
<1>2. ASSUME NEW a \in Actor, ExitStates(a) PROVE InsideInv'
  BY <1>0, <1>2 DEF ExitStates, InsideInv
<1>8. ASSUME NEW a \in Actor, ActionSends(a) PROVE InsideInv'
  <2>1. UNCHANGED pc /\ \A b \in Actor : step'[b].to = step[b].to /\ step'[b].from = step[b].from
    BY <1>0, <1>8 DEF ActionSends, Step
  <2> QED BY <1>0, <2>1 DEF InsideInv
<1>9. CASE LoopReads
  <2>1. pc'[Loop] \in {"exiting", "check"} /\ step'[Loop].to = step[Loop].to
    BY <1>0, <1>9 DEF LoopReads, Step
  <2>2. pc'[Loop] = "exiting" => pc[Loop] = "selected"
    BY <1>0, <1>9 DEF LoopReads
  <2>3. \A b \in Actor : b # Loop => pc'[b] = pc[b] /\ step'[b] = step[b]
    BY <1>0, <1>9 DEF LoopReads
  <2>4. pc'[Loop] = "exiting" => Par \notin Ancestors(step'[Loop].to)
    BY <2>1, <2>2 DEF InsideInv
  <2>5. \A b \in Actor : pc'[b] \in {"exiting", "acting"} /\ step'[b].to # NoState =>
          (Par \in Ancestors(step'[b].to) => Par \in Ancestors(step'[b].from) \ {step'[b].from})
    BY <2>1, <2>3, <2>4 DEF InsideInv
  <2> QED BY <2>1, <2>4, <2>5 DEF InsideInv
<1>3. ASSUME NEW a \in Actor, EnterStates(a) \/ EndInternal(a) \/ IgnoreEvent(a) PROVE InsideInv'
  <2>1. /\ pc' = [pc EXCEPT ![a] = pc'[a]]
        /\ pc'[a] = pc[a] \/ pc'[a] \notin {"selected", "exiting", "acting"}
        /\ \A b \in Actor : b # a \/ IgnoreEvent(a) => step'[b] = step[b]
    BY <1>0, <1>3 DEF EnterStates, EndInternal, IgnoreEvent
  <2>2. IgnoreEvent(a) \/ pc'[a] \notin {"selected", "exiting", "acting"}
    BY <1>0, <1>3 DEF EnterStates, EndInternal
  <2> QED BY <1>0, <2>1, <2>2 DEF InsideInv
<1>4. ASSUME \/ Start \/ Starting \/ Cancel \/ StopReturns \/ LoopEnds
             \/ \E r \in Region : RegionStarts(r) \/ RegionEnters(r) \/ Leave(r)
      PROVE  InsideInv'
  <2>1. /\ UNCHANGED step
        /\ \A a \in Actor : pc'[a] \in {"selected", "exiting", "acting"} => pc'[a] = pc[a]
    BY <1>0, <1>4 DEF Start, Starting, Spawn, StartReturns, StartGivesUp, CleanUp, Cancel,
       StopReturns, LoopEnds, RegionStarts, RegionEnters, Leave
  <2> QED BY <1>0, <2>1 DEF InsideInv
<1>5. ASSUME \/ \E c \in Client, e \in Event : ClientSends(c, e)
             \/ \E p \in State : DoneBegins(p)
             \/ \E o \in Sender : SenderStep(o)
      PROVE  InsideInv'
  <2>1. UNCHANGED <<step, pc>>
    BY <1>5 DEF ClientSends, DoneBegins, SenderStep, Deliver, Skip, GiveUp
  <2> QED BY <2>1 DEF InsideInv
<1>6. ASSUME \/ \E a \in Actor : Announce(a)
             \/ \E r \in Region : Claim(r) \/ BeginReading(r)
             \/ \E r \in Region, c \in Region :
                  ReadFinal(r, c) \/ ReadLast(r, c) \/ ReadUnfinished(r, c)
      PROVE  InsideInv'
  <2>1. \A a \in Actor :
          /\ pc'[a] \in {"selected", "exiting", "acting"} => pc'[a] = pc[a]
          /\ pc'[a] = pc[a] /\ pc[a] # "check" => step'[a] = step[a]
    BY <1>0, <1>6 DEF Announce, Claim, BeginReading, ReadFinal, ReadLast, ReadUnfinished
  <2> QED BY <1>0, <2>1 DEF InsideInv
<1>7. CASE UNCHANGED vars
  BY <1>7 DEF vars, InsideInv
<1> QED BY <1>1, <1>2, <1>3, <1>4, <1>5, <1>6, <1>7, <1>8, <1>9, NextKinds

\* Whatever the regions do, the last one to finish is going to see the others.
LEMMA NotMissedNext == OnceInv /\ [Next]_vars => NotMissed'
<1> SUFFICES ASSUME OnceInv, [Next]_vars,
                    Par \in active', regions' = Region,
                    \A r \in Region : Resting(r)' /\ place'[r] \in Final
             PROVE  Par \in donePending'
  BY DEF NotMissed
<1>0. /\ pc \in [Actor -> PC] /\ step \in [Actor -> Step] /\ place \in [Region -> State]
      /\ Region \subseteq Actor /\ Loop \notin Region
  BY RegionFacts DEF OnceInv, DoneInv, TypeInv, TypeOK, Actor
<1> USE DEF OnceInv, Resting
<1>1. ASSUME Par \in active, regions = Region, donePending \subseteq donePending',
             \A r \in Region : Resting(r) /\ place[r] \in Final
      PROVE  Par \in donePending'
  BY <1>1 DEF NotMissed
<1>2. ASSUME NEW a \in Actor, TakeEvent(a) PROVE Par \in donePending'
  <2>1. /\ UNCHANGED <<active, regions, place, donePending>> /\ pc[a] = "idle"
        /\ pc' = [pc EXCEPT ![a] = pc'[a]] /\ step' = [step EXCEPT ![a] = step'[a]]
    BY <1>0, <1>2 DEF TakeEvent, control, announced
  <2>2. \A r \in Region : Resting(r)
    BY <1>0, <2>1
  <2> QED BY <1>1, <2>1, <2>2
<1>3. ASSUME NEW a \in Actor, ExitStates(a) PROVE Par \in donePending'
  <2>1. PICK gone \in {ExitedStates(step[a].from, step[a].to)} :
          active' = active \ gone /\ donePending' = donePending \ gone
    BY <1>3 DEF ExitStates
  <2>2. /\ pc[a] = "exiting" /\ pc' = [pc EXCEPT ![a] = "acting"]
        /\ UNCHANGED <<place, regions, step>>
    BY <1>3 DEF ExitStates, control
  <2>3. step[a].to # NoState
    BY <2>2, TreeAssumption DEF DoneInv, TypeInv, StepOK
  <2>4. a \notin Region
    BY <1>0, <2>2, <2>3
  <2>5. \A r \in Region : Resting(r) /\ place[r] \in Final
    BY <1>0, <2>2, <2>4
  <2> QED BY <2>1, <2>2, <2>5 DEF NotMissed
<1>18. ASSUME NEW a \in Actor, ActionSends(a) PROVE Par \in donePending'
  <2>1. /\ UNCHANGED <<active, regions, place, pc, donePending>>
        /\ \A b \in Actor : step'[b].to = step[b].to
    BY <1>0, <1>18 DEF ActionSends, control, announced, Step
  <2>2. \A r \in Region : Resting(r)
    BY <1>0, <2>1
  <2> QED BY <1>1, <2>1, <2>2
<1>19. CASE LoopReads
  <2>1. /\ UNCHANGED <<active, regions, place, donePending>>
        /\ \A r \in Region : pc'[r] = pc[r] /\ step'[r] = step[r]
    BY <1>0, <1>19 DEF LoopReads, control, announced
  <2> QED BY <1>1, <2>1
<1>4. ASSUME NEW a \in Actor, EnterStates(a) PROVE Par \in donePending'
  <2>1. /\ pc[a] = "acting" /\ step[a].to # NoState
        /\ active' = active \cup (Ancestors(step[a].to)
                                    \ Ancestors(ComputeLCA(step[a].from, step[a].to)))
        /\ place' = PlaceAfter(a, step[a].to)
        /\ pc' = [pc EXCEPT ![a] = IF a = Loop THEN "entered"
                                   ELSE IF step[a].to \in Final THEN "check" ELSE "idle"]
        /\ step' = [step EXCEPT ![a] = NoStep]
        /\ UNCHANGED <<regions, donePending>>
    BY <1>4 DEF EnterStates, Acted, control, announced
  <2>2. Par \in active
    BY <2>1, ParNotEntered DEF DoneInv
  <2>3. a \notin Region
    BY <1>0, <2>1 DEF PlaceAfter
  <2>4. \A r \in Region : Resting(r) /\ place[r] \in Final
    BY <1>0, <2>1, <2>3 DEF PlaceAfter, Actor
  <2> QED BY <1>1, <2>1, <2>2, <2>4
<1>5. ASSUME NEW a \in Actor, IgnoreEvent(a) PROVE Par \in donePending'
  BY <1>1, <1>5 DEF IgnoreEvent, control, announced
<1>6. ASSUME NEW a \in Actor, EndInternal(a) PROVE Par \in donePending'
  <2>1. /\ pc[a] = "acting" /\ step[a].to = NoState
        /\ pc' = [pc EXCEPT ![a] = pc'[a]] /\ step' = [step EXCEPT ![a] = NoStep]
        /\ UNCHANGED <<active, regions, place, donePending>>
    BY <1>0, <1>6 DEF EndInternal, Acted, control, announced
  <2>2. \A r \in Region : Resting(r)
    BY <1>0, <2>1
  <2> QED BY <1>1, <2>1, <2>2
<1>7. ASSUME \/ \E c \in Client, e \in Event : ClientSends(c, e)
             \/ \E p \in State : DoneBegins(p)
             \/ \E o \in Sender : SenderStep(o)
      PROVE  Par \in donePending'
  <2>1. UNCHANGED <<active, regions, place, pc, step, donePending>>
    BY <1>7 DEF ClientSends, DoneBegins, SenderStep, Deliver, Skip, GiveUp, control, announced
  <2> QED BY <1>1, <2>1
<1>8. CASE Spawn
  <2>1. PICK r \in Region : TRUE
    BY RegionsAssumption
  <2> QED BY <1>0, <1>8, <2>1 DEF Spawn
<1>20. CASE CleanUp
  BY <1>20, RegionsAssumption DEF CleanUp
<1>9. ASSUME Start \/ StartReturns \/ StartGivesUp \/ Cancel \/ StopReturns \/ LoopEnds
      PROVE  Par \in donePending'
  <2>1. /\ UNCHANGED <<place, step, donePending>>
        /\ \A r \in Region : pc'[r] = pc[r]
        /\ Par \in active /\ regions = Region
    BY <1>0, <1>9, RegionsAssumption
       DEF Start, StartReturns, StartGivesUp, Cancel, StopReturns, LoopEnds, control, announced
  <2> QED BY <1>1, <2>1
<1>10. ASSUME NEW r \in Region, RegionStarts(r) \/ Leave(r) PROVE Par \in donePending'
  BY <1>0, <1>10 DEF RegionStarts, Leave
<1>11. ASSUME NEW r \in Region, RegionEnters(r) PROVE Par \in donePending'
  BY <1>0, <1>11 DEF RegionEnters
<1>12. ASSUME NEW a \in Actor, Announce(a) PROVE Par \in donePending'
  <2>1. /\ pc' = [pc EXCEPT ![a] = IF a = Loop THEN "idle" ELSE "claim"]
        /\ step' = [step EXCEPT ![a] = NoStep]
        /\ UNCHANGED <<active, regions, place>> /\ donePending \subseteq donePending'
    BY <1>12 DEF Announce, control
  <2>2. a = Loop
    BY <1>0, <2>1 DEF Actor
  <2>3. \A r \in Region : pc'[r] = pc[r] /\ step'[r] = step[r]
    BY <1>0, <2>1, <2>2
  <2> QED BY <1>1, <2>1, <2>3
<1>13. ASSUME NEW r \in Region, Claim(r) PROVE Par \in donePending'
  BY <1>0, <1>13 DEF Claim, announced
<1>21. ASSUME NEW r \in Region, BeginReading(r) PROVE Par \in donePending'
  BY <1>0, <1>21 DEF BeginReading
<1>14. ASSUME NEW r \in Region, NEW c \in Region, ReadFinal(r, c) PROVE Par \in donePending'
  BY <1>0, <1>14 DEF ReadFinal
<1>15. ASSUME NEW r \in Region, NEW c \in Region, ReadLast(r, c) PROVE Par \in donePending'
  BY <1>15 DEF ReadLast
<1>16. ASSUME NEW r \in Region, NEW c \in Region, ReadUnfinished(r, c) PROVE Par \in donePending'
  BY <1>16 DEF ReadUnfinished, control
<1>17. CASE UNCHANGED vars
  BY <1>1, <1>17 DEF vars, control, announced
<1> QED BY <1>2, <1>3, <1>4, <1>5, <1>6, <1>7, <1>8, <1>9, <1>10, <1>11, <1>12, <1>13, <1>14,
           <1>15, <1>16, <1>17, <1>18, <1>19, <1>20, <1>21, NextKinds DEF Starting

\* Regions that finish at the same moment neither both announce the completion
\* of the parallel state nor leave it to each other.
THEOREM RegionDoneOnce == Spec => []ParallelDoneOnce
<1>1. Init => OnceInv
  BY TypeInit, DoneInit, RouteInit, OnceInit DEF OnceInv, DoneInv
<1>2. OnceInv /\ [Next]_vars => OnceInv'
  BY TypeNext, PlaceNext, LockNext, RouteNext, InsideNext, NotMissedNext DEF OnceInv, DoneInv
<1>3. OnceInv => ParallelDoneOnce
  BY DEF OnceInv, DoneInv, LockInv, NotMissed, Resting, ParallelDoneOnce
<1> QED BY <1>1, <1>2, <1>3, PTL DEF Spec

=============================================================================
