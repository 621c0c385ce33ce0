------------------------------ MODULE Runtime ------------------------------
(***************************************************************************)
(* The event-driven Runtime of statechart.go on a chart without parallel   *)
(* states: the buffered event queue, the event loop goroutine and its      *)
(* macrosteps, history, the done events delivered by goroutines of their   *)
(* own, Start, Stop and the cancellation of the context.                   *)
(*                                                                         *)
(* Grain of atomicity. rt.mu is held from the moment the loop takes an     *)
(* event until the macrostep ends, so nothing else reads or writes the     *)
(* configuration in between; what does interleave with a macrostep is the  *)
(* queue and the context. A transition is therefore two steps: selecting   *)
(* it and running the exit actions, then running its own action (which may *)
(* send an event, and block on a full queue) and the entry actions.        *)
(***************************************************************************)
EXTENDS Chart

CONSTANTS
  QueueCap,         \* capacity of eventQueue (100 in NewRuntime)
  MaxMicrosteps,    \* MAX_MICROSTEPS
  MaxSends,         \* bound: the number of events clients send
  StopDuringStart   \* may a client call Stop while Start is still running?

ASSUME RuntimeAssumption ==
  /\ QueueCap \in Nat \ {0}
  /\ MaxMicrosteps \in Nat \ {0}
  /\ MaxSends \in Nat
  /\ StopDuringStart \in BOOLEAN

\* Parallel states hand over to region goroutines, which are not in this module.
ASSUME NonParallelAssumption == Parallel = {}

VARIABLES
  life,         \* new, starting (inside Start), running, exited, failed
  cancelled,    \* rt.ctx.Done() is closed
  stop,         \* a client's call of Stop: none, waiting, returned
  current,      \* rt.current
  history,      \* rt.history: last exited child, NoState if absent
  deepHistory,  \* rt.deepHistory: last element of the recorded path
  donePending,  \* rt.doneEventsPending
  queue,        \* rt.eventQueue
  senders,      \* senders[p]: goroutines trying to deliver p's done event
  phase,        \* the holder of rt.mu: idle, acting (in a transition), micro
  step,         \* the transition being run when acting
  micro,        \* i of the loop in processMicrosteps
  sent,         \* events sent by clients so far, for the bound
  active,       \* observed: states entered by an entry action and not exited
  lastConfig,   \* observed: lastConfig[p] is what was active in p at p's exit
  doneCount     \* observed: done events of p generated since p was entered

config == <<current, active, history, deepHistory, donePending>>
observed == <<lastConfig, doneCount>>
loop == <<phase, step, micro>>
control == <<life, cancelled, stop>>
vars == <<config, observed, loop, control, queue, senders, sent>>

Step == [from : State \cup {NoState}, to : State \cup {NoState},
         restored : BOOLEAN, raise : Event \cup {NoEvent}, eventless : BOOLEAN]

NoStep == [from |-> NoState, to |-> NoState, restored |-> FALSE,
           raise |-> NoEvent, eventless |-> FALSE]

TypeOK ==
  /\ life \in {"new", "starting", "running", "exited", "failed"}
  /\ cancelled \in BOOLEAN
  /\ stop \in {"none", "waiting", "returned"}
  /\ current \in State
  /\ history \in [State -> State \cup {NoState}]
  /\ deepHistory \in [State -> State \cup {NoState}]
  /\ donePending \subseteq State
  /\ queue \in Seq(EventID)
  /\ Len(queue) <= QueueCap
  /\ senders \in [State -> Nat]
  /\ phase \in {"idle", "acting", "micro"}
  /\ step \in Step
  /\ micro \in 0 .. MaxMicrosteps
  /\ sent \in 0 .. MaxSends
  /\ active \subseteq State
  /\ lastConfig \in [State -> SUBSET State]
  /\ doneCount \in [State -> Nat]

Init ==
  /\ life = "new" /\ cancelled = FALSE /\ stop = "none"
  /\ current = FindDeepestInitial(Root)
  /\ history = [p \in State |-> NoState]
  /\ deepHistory = [p \in State |-> NoState]
  /\ donePending = {}
  /\ queue = <<>>
  /\ senders = [p \in State |-> 0]
  /\ phase = "idle" /\ step = NoStep /\ micro = 0
  /\ sent = 0
  /\ active = {}
  /\ lastConfig = [p \in State |-> {}]
  /\ doneCount = [p \in State |-> 0]

-----------------------------------------------------------------------------
(***************************************************************************)
(* History. The errors of restoreHistory need a compound state without an  *)
(* initial child, which InitialAssumption excludes.                        *)
(***************************************************************************)
RestoreShallowHistory(h) ==
  CASE history[Parent[h]] # NoState -> history[Parent[h]]
    [] history[Parent[h]] = NoState /\ HistoryDefault[h] # NoState -> HistoryDefault[h]
    [] OTHER -> Initial[Parent[h]]

RestoreDeepHistory(h) ==
  CASE deepHistory[Parent[h]] # NoState -> deepHistory[Parent[h]]
    [] deepHistory[Parent[h]] = NoState /\ HistoryDefault[h] # NoState -> HistoryDefault[h]
    [] OTHER -> FindDeepestInitial(Initial[Parent[h]])

\* The state a transition with this target really goes to; none if internal.
Resolve(target) ==
  CASE target = NoState -> {}
    [] target \in DeepHistory -> {RestoreDeepHistory(target)}
    [] target \in ShallowHistory -> {RestoreShallowHistory(target)}
    [] OTHER -> {target}

\* Faulty variant: a history once recorded is not updated.
RecordShallowHistoryOnce(gone) ==
  [p \in State |-> IF history[p] = NoState /\ \E c \in gone : Parent[c] = p
                     THEN CHOOSE c \in gone : Parent[c] = p
                     ELSE history[p]]

\* recordShallowHistory, called for every exited state with its parent.
RecordShallowHistory(gone) ==
  [p \in State |-> IF \E c \in gone : Parent[c] = p
                     THEN CHOOSE c \in gone : Parent[c] = p
                     ELSE history[p]]

\* Faulty variant: the target is recorded for itself, too.
RecordDeepHistoryOfSelf(to, restored) ==
  IF restored THEN deepHistory
  ELSE [p \in State |-> IF p \in Ancestors(to) THEN to ELSE deepHistory[p]]

\* recordDeepHistory, called for every proper ancestor of the explicit target.
RecordDeepHistory(to, restored) ==
  IF restored THEN deepHistory
  ELSE [p \in State |-> IF p \in Ancestors(to) \ {to} THEN to ELSE deepHistory[p]]

\* Faulty variant: the flags survive the exit.
ClearNoDoneEvents(gone) == donePending

\* clearDoneEvent, called for every exited state.
ClearDoneEvents(gone) == donePending \ gone

-----------------------------------------------------------------------------
(***************************************************************************)
(* exitToLCA and checkFinalState.                                          *)
(***************************************************************************)
\* Faulty variant: the least common ancestor is exited with the rest.
ExitedStatesAndLCA(from, to) ==
  (Ancestors(from) \ Ancestors(ComputeLCA(from, to))) \cup ({ComputeLCA(from, to)} \cap State)

ExitedStates(from, to) == Ancestors(from) \ Ancestors(ComputeLCA(from, to))

ExitToLCA(gone) ==
  /\ active' = active \ gone
  /\ history' = RecordShallowHistory(gone)
  /\ donePending' = ClearDoneEvents(gone)
  /\ lastConfig' = [p \in State |->
                      IF p \in gone THEN {d \in active : p \in Ancestors(d)}
                                    ELSE lastConfig[p]]
  /\ doneCount' = [p \in State |-> IF p \in gone THEN 0 ELSE doneCount[p]]

\* The states generateDoneEvent finds complete and not yet announced.
NewlyDone(leaf) == IF leaf \in Final THEN DoneParents(leaf) \ donePending ELSE {}

CheckFinalState(leaf) ==
  LET done == NewlyDone(leaf)
  IN  /\ donePending' = donePending \cup done
      /\ senders' = [p \in State |-> IF p \in done THEN senders[p] + 1 ELSE senders[p]]
      /\ doneCount' = [p \in State |-> IF p \in done THEN doneCount[p] + 1
                                                     ELSE doneCount[p]]

-----------------------------------------------------------------------------
(***************************************************************************)
(* Starting.                                                               *)
(***************************************************************************)

\* Every entry action of the initial path succeeds; checkFinalState and the
\* first round of microsteps follow inside Start. Nothing is recorded.
Start ==
  /\ life = "new"
  /\ life' = "starting" /\ phase' = "micro"
  /\ active' = Ancestors(current)
  /\ CheckFinalState(current)
  /\ UNCHANGED <<cancelled, stop, current, history, deepHistory, queue, step,
                 micro, sent, lastConfig>>

\* The entry action of s returns an error and Start gives up: rt.ctx is set,
\* so a second Start is refused.
StartFails ==
  /\ life = "new"
  /\ life' = "failed"
  /\ \E s \in Ancestors(current) : active' = Ancestors(s) \ {s}
  /\ UNCHANGED <<cancelled, stop, current, history, deepHistory, donePending,
                 queue, senders, loop, sent, observed>>

\* Start releases rt.mu and spawns the event loop.
StartLoop ==
  /\ life = "starting" /\ phase = "idle"
  /\ life' = "running"
  /\ UNCHANGED <<config, observed, loop, cancelled, stop, queue, senders, sent>>

-----------------------------------------------------------------------------
(***************************************************************************)
(* Sending. The select of SendEvent takes a ready case at random, so an    *)
(* event may enter the queue after the context is cancelled, too. A sender *)
(* whose queue is full waits, which is no step.                            *)
(***************************************************************************)
Send(e) ==
  /\ life # "new" /\ sent < MaxSends
  /\ Len(queue) < QueueCap
  /\ queue' = Append(queue, e)
  /\ sent' = sent + 1
  /\ UNCHANGED <<config, observed, loop, control, senders>>

\* A done-event goroutine delivers its event.
SenderDelivers(p) ==
  /\ senders[p] > 0
  /\ Len(queue) < QueueCap
  /\ queue' = Append(queue, DoneEvent[p])
  /\ senders' = [senders EXCEPT ![p] = @ - 1]
  /\ UNCHANGED <<config, observed, loop, control, sent>>

\* Faulty variant: the goroutine has no deadline of its own.
SenderWaitsOn(p) ==
  /\ senders[p] > 0
  /\ cancelled
  /\ senders' = [senders EXCEPT ![p] = @ - 1]
  /\ UNCHANGED <<config, observed, loop, control, queue, sent>>

\* Its 100 ms are over while the queue is full, or the context is cancelled:
\* the event is lost, and stays marked as pending.
SenderGivesUp(p) ==
  /\ senders[p] > 0
  /\ Len(queue) = QueueCap \/ cancelled
  /\ senders' = [senders EXCEPT ![p] = @ - 1]
  /\ UNCHANGED <<config, observed, loop, control, queue, sent>>

-----------------------------------------------------------------------------
(***************************************************************************)
(* The macrostep.                                                          *)
(***************************************************************************)

\* The first half of a transition: its real target and the exit actions.
BeginExternal(t, eventless) ==
  \E to \in Resolve(t.target) :
    /\ \E gone \in {ExitedStates(current, to)} : ExitToLCA(gone)
    /\ step' = [from |-> current, to |-> to, restored |-> t.target \in HistoryState,
                raise |-> t.raise, eventless |-> eventless]

BeginInternal(t, eventless) ==
  /\ t.target = NoState
  /\ step' = [NoStep EXCEPT !.raise = t.raise, !.eventless = eventless]
  /\ UNCHANGED <<active, history, donePending, observed>>

Begin(t, eventless) ==
  /\ phase' = "acting"
  /\ BeginExternal(t, eventless) \/ BeginInternal(t, eventless)
  /\ UNCHANGED <<current, deepHistory, micro, senders, control, sent>>

\* Faulty variant: an event nothing handles is deferred.
DeferEvent ==
  /\ life = "running" /\ phase = "idle" /\ queue # <<>>
  /\ \E ok \in SUBSET Guard : PickTransitionHierarchical(current, Head(queue), ok) = {}
  /\ queue' = Append(Tail(queue), Head(queue))
  /\ UNCHANGED <<config, observed, loop, control, senders, sent>>

\* The loop receives the next event and no transition is enabled.
IgnoreEvent ==
  /\ life = "running" /\ phase = "idle" /\ queue # <<>>
  /\ \E ok \in SUBSET Guard : PickTransitionHierarchical(current, Head(queue), ok) = {}
  /\ queue' = Tail(queue)
  /\ UNCHANGED <<config, observed, loop, control, senders, sent>>

\* The loop receives the next event and takes a transition.
TakeEvent ==
  /\ life = "running" /\ phase = "idle" /\ queue # <<>>
  /\ \E ok \in SUBSET Guard :
       \E t \in PickTransitionHierarchical(current, Head(queue), ok) : Begin(t, FALSE)
  /\ queue' = Tail(queue)

\* Faulty variants: the bound is tested with <=; one pass only.
MicrostepsLeftInclusive == micro <= MaxMicrosteps
OneMicrostepLeft == micro < 1

\* The condition of the loop in processMicrosteps.
MicrostepsLeft == micro < MaxMicrosteps

\* processMicrosteps finds an enabled eventless transition.
TakeEventless ==
  /\ phase = "micro" /\ MicrostepsLeft
  /\ \E ok \in SUBSET Guard :
       \E t \in PickTransitionHierarchical(current, NoEvent, ok) : Begin(t, TRUE)
  /\ UNCHANGED queue

\* No eventless transition is enabled: the macrostep is over.
Stable ==
  /\ phase = "micro" /\ MicrostepsLeft
  /\ \E ok \in SUBSET Guard : PickTransitionHierarchical(current, NoEvent, ok) = {}
  /\ phase' = "idle" /\ micro' = 0
  /\ UNCHANGED <<config, observed, step, control, queue, senders, sent>>

\* The loop bound is reached: the macrostep is over, silently. (micro keeps
\* its last value until the next transition, which tells this case apart.)
MicrostepLimit ==
  /\ phase = "micro" /\ ~MicrostepsLeft
  /\ phase' = "idle"
  /\ UNCHANGED <<config, observed, step, micro, control, queue, senders, sent>>

\* Faulty variant: the select has no case for the runtime's own context.
RaiseOrBlock(e) ==
  \/ e = NoEvent /\ UNCHANGED queue
  \/ e # NoEvent /\ Len(queue) < QueueCap /\ queue' = Append(queue, e)

\* A transition's action calls SendEvent on the loop's own goroutine: it waits
\* for room in the queue, and gives up only when the context is cancelled.
Raise(e) ==
  \/ (e = NoEvent \/ cancelled) /\ UNCHANGED queue
  \/ e # NoEvent /\ Len(queue) < QueueCap /\ queue' = Append(queue, e)

\* Faulty variant: the target is kept for events, too.
CurrentIsTarget(to, eventless) == to

\* After the last state is entered rt.current is the leaf; processMicrosteps
\* then overwrites it with the transition's target.
CurrentAfter(to, eventless) == IF eventless THEN to ELSE FindDeepestInitial(to)

EnterFromLCA ==
  LET lca == ComputeLCA(step.from, step.to)
      leaf == FindDeepestInitial(step.to)
  IN  /\ active' = active \cup (Ancestors(leaf) \ Ancestors(lca))
      /\ deepHistory' = RecordDeepHistory(step.to, step.restored)
      /\ current' = CurrentAfter(step.to, step.eventless)
      /\ CheckFinalState(leaf)

\* The rest of a transition that has a target.
FinishExternal ==
  /\ phase = "acting" /\ step.to # NoState
  /\ Raise(step.raise)
  /\ EnterFromLCA
  /\ phase' = "micro" /\ step' = NoStep
  /\ micro' = IF step.eventless THEN micro + 1 ELSE 0
  /\ UNCHANGED <<history, lastConfig, control, sent>>

\* The rest of an internal transition taken for an event.
FinishInternal ==
  /\ phase = "acting" /\ step.to = NoState /\ ~step.eventless
  /\ Raise(step.raise)
  /\ CheckFinalState(current)
  /\ phase' = "micro" /\ step' = NoStep /\ micro' = 0
  /\ UNCHANGED <<current, active, history, deepHistory, lastConfig, control, sent>>

\* The rest of an internal eventless transition.
FinishInternalMicrostep ==
  /\ phase = "acting" /\ step.to = NoState /\ step.eventless
  /\ Raise(step.raise)
  /\ phase' = "micro" /\ step' = NoStep /\ micro' = micro + 1
  /\ UNCHANGED <<config, observed, control, senders, sent>>

Finish == FinishExternal \/ FinishInternal \/ FinishInternalMicrostep

-----------------------------------------------------------------------------
(***************************************************************************)
(* Cancellation and Stop.                                                  *)
(***************************************************************************)

\* The context given to Start is cancelled by its owner.
CancelParent ==
  /\ life # "new" /\ ~cancelled
  /\ cancelled' = TRUE
  /\ UNCHANGED <<config, observed, loop, life, stop, queue, senders, sent>>

\* Faulty variant: Stop only waits.
CallStopNoCancel ==
  /\ stop = "none"
  /\ life \in {"running", "exited", "failed"} \/ (life = "starting" /\ StopDuringStart)
  /\ stop' = "waiting"
  /\ UNCHANGED <<config, observed, loop, life, cancelled, queue, senders, sent>>

\* Stop cancels the context and waits for the loop. (Before Start it returns
\* without effect; later calls repeat the first.)
CallStop ==
  /\ stop = "none"
  /\ life \in {"running", "exited", "failed"} \/ (life = "starting" /\ StopDuringStart)
  /\ stop' = "waiting" /\ cancelled' = TRUE
  /\ UNCHANGED <<config, observed, loop, life, queue, senders, sent>>

\* Faulty variant: Stop does not wait for the loop.
StopReturnsAtOnce ==
  /\ stop = "waiting"
  /\ phase = "idle"
  /\ stop' = "returned"
  /\ UNCHANGED <<config, observed, loop, life, cancelled, queue, senders, sent>>

\* wg.Wait returns when no loop was added or the loop is gone; then Stop
\* takes rt.mu once.
StopReturns ==
  /\ stop = "waiting"
  /\ life # "running" /\ phase = "idle"
  /\ stop' = "returned"
  /\ UNCHANGED <<config, observed, loop, life, cancelled, queue, senders, sent>>

\* The loop's select happens to take the closed Done channel.
LoopExits ==
  /\ life = "running" /\ phase = "idle" /\ cancelled
  /\ life' = "exited"
  /\ UNCHANGED <<config, observed, loop, cancelled, stop, queue, senders, sent>>

-----------------------------------------------------------------------------
Lifecycle == Start \/ StartFails \/ StartLoop \/ CancelParent \/ CallStop
               \/ StopReturns \/ LoopExits

Senders == \E p \in State : SenderDelivers(p) \/ SenderGivesUp(p)

Macrostep == TakeEvent \/ IgnoreEvent \/ TakeEventless \/ Stable \/ MicrostepLimit
               \/ Finish

Next == Lifecycle \/ Senders \/ Macrostep \/ \E e \in Event : Send(e)

Spec == Init /\ [][Next]_vars

(***************************************************************************)
(* Fairness. A goroutine that can run does run; the caller of Start goes   *)
(* on; the loop's select picks uniformly among the ready cases, so a loop  *)
(* that keeps finding its context cancelled cannot pass it over for ever.  *)
(* Nothing obliges a client to send, to cancel or to stop.                 *)
(***************************************************************************)
Fairness ==
  /\ WF_vars(StartLoop)
  /\ WF_vars(Macrostep)
  /\ WF_vars(Senders)
  /\ WF_vars(StopReturns)
  /\ SF_vars(LoopExits)

FairSpec == Spec /\ Fairness

-----------------------------------------------------------------------------
(***************************************************************************)
(* Properties.                                                             *)
(***************************************************************************)

\* The charts in which an eventless transition only goes to atomic states. On
\* the others processMicrosteps leaves rt.current at a compound state.
EventlessTargetsAtomic ==
  \A s \in State : \A i \in DOMAIN Transitions[s] :
     LET t == Transitions[s][i]
     IN  t.event = NoEvent /\ t.target # NoState =>
           t.target \notin HistoryState /\ Initial[t.target] = NoState

Started == life \in {"starting", "running", "exited"}

\* IsInState and the transition search read the configuration off rt.current:
\* between macrosteps the states whose entry action ran without their exit
\* action must be exactly those from the root to rt.current, an atomic state.
StableConfiguration ==
  EventlessTargetsAtomic /\ Started /\ phase = "idle" =>
    /\ active = Ancestors(current)
    /\ Children(current) = {}
    /\ current \notin HistoryState

\* Whatever the chart, every state IsInState reports has been entered and not
\* exited: exits and entries never run past each other.
ReportedIsActive ==
  Started /\ phase # "acting" => Ancestors(current) \subseteq active

\* A state left by any route is restored by shallow history to the child that
\* was active when it was last left, not to one left earlier.
ShallowHistoryFaithful ==
  EventlessTargetsAtomic =>
    \A p \in State : p \notin active /\ Children(p) \cap lastConfig[p] # {} =>
      history[p] \in Children(p) \cap lastConfig[p]

\* What is recorded for p lies below p and is no pseudo-state, so restoring
\* it enters p again.
HistoryWithin ==
  \A p \in State :
    /\ history[p] # NoState => history[p] \in Children(p) \ HistoryState
    /\ deepHistory[p] # NoState =>
         p \in Ancestors(deepHistory[p]) \ {deepHistory[p]} /\ deepHistory[p] \notin HistoryState

\* Each stay in a compound state announces its completion exactly once: once
\* it rests in a final child the done event has been generated, and neither
\* another final child nor a repeated check generates a second one.
DoneExactlyOnce ==
  /\ \A p \in State : doneCount[p] <= 1
  /\ Started /\ phase = "idle" /\ current \in Final =>
       \A p \in DoneParents(current) : doneCount[p] = 1

\* A macrostep runs to completion: the loop takes the next event only when no
\* unguarded eventless transition of an active state is left, unless the
\* microstep bound cut it off.
RunToCompletion ==
  EventlessTargetsAtomic /\ life = "running" /\ phase = "idle" /\ micro < MaxMicrosteps =>
    \A s \in active : \A i \in DOMAIN Transitions[s] :
      ~ (Transitions[s][i].event = NoEvent /\ Transitions[s][i].guard = NoGuard)

\* Once Stop has returned the configuration and the histories never change
\* again, whatever is still queued or in flight.
StopIsFinal == [][stop = "returned" => UNCHANGED <<config, observed>>]_vars

\* Stop always returns, even while the loop waits for room in its own queue.
StopTerminates == stop = "waiting" ~> stop = "returned"

\* A Stop that overlaps Start may return before the loop has been added to
\* rt.wg; the loop that starts afterwards ends all the same.
LateLoopEnds == stop = "returned" ~> life \in {"exited", "failed"}

\* What keeps the full queue of a running loop full can only be the loop itself,
\* waiting in an action's SendEvent for room that nobody else will make: no
\* event it ignores, no run of microsteps and no done event does.
QueueGetsRoom ==
  \/ []<>(Len(queue) < QueueCap \/ life # "running" \/ cancelled)
  \/ <>[](phase = "acting" /\ step.raise # NoEvent)

\* Every done-event goroutine ends, its event queued or given up: none waits
\* for ever on a queue the loop has stopped reading.
SendersEnd == (\E p \in State : senders[p] > 0) ~> (\A p \in State : senders[p] = 0)

-----------------------------------------------------------------------------
(***************************************************************************)
(* The abstract configuration. A transition happens for it when the exit   *)
(* actions run: from then on nothing can keep the target from being        *)
(* entered.                                                                *)
(***************************************************************************)
Configured ==
  CASE life \in {"new", "failed"} -> {}
    [] phase = "acting" /\ step.to # NoState -> Ancestors(FindDeepestInitial(step.to))
    [] OTHER -> active

Abstract == INSTANCE Configuration WITH configuration <- Configured, memory <- lastConfig

\* On the charts whose eventless transitions go to atomic states every
\* macrostep, whatever is queued, cancelled or restored meanwhile, is a sequence
\* of transitions of the innermost willing states, each of which moves the
\* whole path; and shallow history restores what the path was.
RefinesConfiguration == Abstract!Spec

(***************************************************************************)
(* Statements of the documentation that the code does not keep.            *)
(***************************************************************************)

\* The comment at the end of processEvent and IsInState's doc take rt.current
\* for the deepest entered state, so that what is active is reported.
NoOrphans == Started /\ phase = "idle" => active \subseteq Ancestors(current)

\* "Restores the entire state hierarchy path": entering p through its deep
\* history reaches the leaf that was active when p was last left.
DeepHistoryFaithful ==
  \A h \in DeepHistory :
    LET p == Parent[h]
    IN  p \notin active /\ Children(p) \cap lastConfig[p] # {} =>
          FindDeepestInitial(RestoreDeepHistory(h)) \in lastConfig[p]

=============================================================================
