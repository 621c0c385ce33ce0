---------------------------- MODULE TickRuntime ----------------------------
(***************************************************************************)
(* RealtimeRuntime (realtime/): events are collected in a batch, a ticker  *)
(* wakes one goroutine, and each tick processes the batch in order, runs   *)
(* a macrostep with the internal queue, and visits the parallel regions.   *)
(* The embedded Runtime executes the transitions; its hooks let this       *)
(* package keep the regions, without goroutines of their own.              *)
(*                                                                         *)
(* Grain of atomicity. Only the tick goroutine touches the configuration;  *)
(* clients touch the batch, under batchMu, and the internal queue, under   *)
(* internalQueueMu. One transition is one step (its action sends at most   *)
(* one event), and so is each access of a client to one of the queues.     *)
(***************************************************************************)
EXTENDS Chart

CONSTANTS
  BatchCap,        \* cap(eventBatch): MaxEventsPerTick
  MaxMicrosteps,   \* MAX_MICROSTEPS, and the 100 rounds of a macrostep
  Priority,        \* the priorities given to SendEventWithPriority
  Before,          \* Before[r] are the regions with a StateID below r's
  MaxClients,      \* bound: clients inside SendEvent at the same time
  MaxSends         \* bound: the number of events clients send

ASSUME TickAssumption ==
  /\ BatchCap \in Nat \ {0}
  /\ MaxMicrosteps \in Nat \ {0}
  /\ Priority \subseteq Int
  /\ MaxClients \in Nat
  /\ MaxSends \in Nat

Regions == {s \in State : Parent[s] \in Parallel}

\* The maps of this package would be iterated over in random order if there
\* were several parallel states; history belongs to the embedded runtime, and
\* regions do not resolve it.
ASSUME OneParallelAssumption ==
  /\ \A p, q \in Parallel : p = q
  /\ \A p \in Parallel : Children(p) # {}
  /\ HistoryState = {}

ASSUME RegionOrderAssumption ==
  /\ Before \in [Regions -> SUBSET Regions]
  /\ \A r \in Regions : r \notin Before[r]
  /\ \A q, r \in Regions : q # r => (q \in Before[r] <=> r \notin Before[q])
  /\ \A p, q, r \in Regions : p \in Before[q] /\ q \in Before[r] => p \in Before[r]

\* A region is never sent to the parallel state that holds it: its exit would
\* take regionMu once more.
ASSUME RegionTargetAssumption ==
  \A r \in Regions : \A s \in State : r \in Ancestors(s) =>
    \A i \in DOMAIN Transitions[s] :
      LET to == Transitions[s][i].target
      IN  to # NoState => FindDeepestInitial(to) \notin Parallel

VARIABLES
  life,         \* new, starting (inside Start), running, exited
  cancelled,    \* rt.tickCtx.Done() is closed
  stop,         \* a client's call of Stop: none, waiting, returned
  at,           \* where the tick goroutine is
  stage,        \* the macrostep it runs, or ran last: start, macro, regions
  round,        \* the loop counter of the macrostep or of processMicrosteps
  current,      \* rt.current of the embedded runtime
  region,       \* region[r]: currentState of region r, NoState if none
  batch,        \* rt.eventBatch
  pending,      \* what is left of the events this tick collected
  internal,     \* rt.internalEventQueue
  inHand,       \* the internal event being given to the regions
  todo,         \* the regions it has not been given to yet
  routed,       \* clients between the two critical sections of SendEvent
  seq,          \* rt.sequenceNum
  sent,         \* events sent by clients so far, for the bound
  active,       \* observed: states entered and not exited
  handled       \* observed: the batched events processed so far

machine == <<current, region, active>>
loop == <<at, stage, round>>
work == <<inHand, todo>>
clients == <<routed, sent>>
control == <<life, cancelled, stop>>
vars == <<machine, loop, work, clients, handled, control, batch, pending, internal, seq>>

(***************************************************************************)
(* EventWithMeta. The ticket tells the clients' events apart, in the order *)
(* of their SendEvent calls; an event raised by an action has ticket 0.    *)
(***************************************************************************)
Submission == [event : Event, ticket : 0 .. MaxSends]
EventWithMeta == [event : Event, prio : Priority \cup {0}, seq : Nat, ticket : 0 .. MaxSends]

TypeOK ==
  /\ life \in {"new", "starting", "running", "exited"}
  /\ cancelled \in BOOLEAN
  /\ stop \in {"none", "waiting", "returned"}
  /\ at \in {"idle", "events", "micro", "loop", "dispatch", "deliver", "quiet",
            "between", "stuck"}
  /\ stage \in {"none", "start", "macro", "regions"}
  /\ round \in 0 .. MaxMicrosteps
  /\ current \in State
  /\ region \in [Regions -> State \cup {NoState}]
  /\ batch \subseteq EventWithMeta
  /\ Cardinality(batch) <= BatchCap
  /\ pending \subseteq EventWithMeta
  /\ internal \in Seq(Submission)
  /\ inHand \in Event \cup {NoEvent}
  /\ todo \subseteq Regions
  /\ routed \subseteq Submission
  /\ seq \in Nat
  /\ sent \in 0 .. MaxSends
  /\ active \subseteq State
  /\ handled \subseteq EventWithMeta

Init ==
  /\ life = "new" /\ cancelled = FALSE /\ stop = "none"
  /\ at = "idle" /\ stage = "none" /\ round = 0
  /\ current = FindDeepestInitial(Root)
  /\ region = [r \in Regions |-> NoState]
  /\ batch = {} /\ pending = {} /\ internal = <<>>
  /\ inHand = NoEvent /\ todo = {}
  /\ routed = {} /\ seq = 0 /\ sent = 0
  /\ active = {}
  /\ handled = {}

-----------------------------------------------------------------------------
(***************************************************************************)
(* Sending.                                                                *)
(***************************************************************************)

\* rt.inMacrostep: set for each macrostep, and reset when it returns.
InMacrostep == at \in {"loop", "dispatch", "deliver", "quiet", "stuck"}

\* Faulty variant: one event more than the capacity.
EnqueueInclusive(e, p, ticket) ==
  /\ Cardinality(batch) <= BatchCap
  /\ batch' = batch \cup {[event |-> e, prio |-> p, seq |-> seq, ticket |-> ticket]}
  /\ seq' = seq + 1

\* append to rt.eventBatch, below its capacity.
Enqueue(e, p, ticket) ==
  /\ Cardinality(batch) < BatchCap
  /\ batch' = batch \cup {[event |-> e, prio |-> p, seq |-> seq, ticket |-> ticket]}
  /\ seq' = seq + 1

\* The caller is told that the batch is full, and the event is dropped.
Rejected == Cardinality(batch) = BatchCap /\ UNCHANGED <<batch, seq>>

\* SendEvent reads the flag: during a macrostep the event joins the internal
\* queue, whoever sends it.
SendEvent(e) ==
  /\ sent < MaxSends /\ Cardinality(routed) < MaxClients
  /\ sent' = sent + 1
  /\ \E m \in {[event |-> e, ticket |-> sent + 1]} :
       IF InMacrostep
         THEN internal' = Append(internal, m) /\ UNCHANGED routed
         ELSE routed' = routed \cup {m} /\ UNCHANGED internal
  /\ UNCHANGED <<machine, loop, work, handled, control, batch, pending, seq>>

\* The rest of a SendEvent that found the flag reset, whatever it is now.
AppendToBatch(m) ==
  /\ m \in routed
  /\ routed' = routed \ {m}
  /\ Enqueue(m.event, 0, m.ticket) \/ Rejected
  /\ UNCHANGED <<machine, loop, work, handled, control, pending, internal, sent>>

SendEventWithPriority(e, p) ==
  /\ sent < MaxSends
  /\ sent' = sent + 1
  /\ Enqueue(e, p, sent + 1)
  /\ UNCHANGED <<machine, loop, work, handled, control, pending, internal, routed>>

\* A transition's action sends e from the tick goroutine.
Raise(e) ==
  CASE e = NoEvent -> UNCHANGED <<batch, internal, seq>>
    [] e # NoEvent /\ InMacrostep ->
         internal' = Append(internal, [event |-> e, ticket |-> 0]) /\ UNCHANGED <<batch, seq>>
    [] OTHER -> (Enqueue(e, 0, 0) \/ Rejected) /\ UNCHANGED internal

-----------------------------------------------------------------------------
(***************************************************************************)
(* The embedded runtime takes a transition: exitToLCA and enterFromLCA     *)
(* with the hooks of this package.                                         *)
(***************************************************************************)
OpenRegions == {r \in Regions : region[r] # NoState}

\* Faulty variant: only the current state of a region is exited.
RegionLeaf(s) == {s}

\* exitRegionHierarchy: from a region's state up to the child of a parallel
\* state, or to the root.
RegionPath(s) ==
  Ancestors(s) \ UNION {Ancestors(p) : p \in Parallel \cap (Ancestors(s) \ {s})}

Exited(to) == Ancestors(current) \ Ancestors(ComputeLCA(current, to))

Entered(from, to) == Ancestors(to) \ Ancestors(ComputeLCA(from, to))

\* Where the entry stops: at a parallel state on the way to the target, else
\* at the initial leaf below it.
EntryGoal(to) ==
  IF Entered(current, to) \cap Parallel # {}
    THEN CHOOSE p \in Entered(current, to) \cap Parallel : TRUE
    ELSE FindDeepestInitial(to)

EntryPath(to) == Ancestors(EntryGoal(to)) \ Ancestors(ComputeLCA(current, to))

ExitsParallel(to) == Exited(to) \cap Parallel # {}
EntersParallel(to) == EntryPath(to) \cap Parallel # {}

\* enterFromLCA returns from a parallel state before it sets rt.current;
\* the microstep loops set it to the target in any case.
CurrentAfter(to, eventless) ==
  CASE eventless -> to
    [] ~eventless /\ Entered(current, to) \cap Parallel # {} -> current
    [] ~eventless /\ Entered(current, to) \cap Parallel = {} ->
         IF EntersParallel(to) THEN Parent[EntryGoal(to)] ELSE EntryGoal(to)

\* The exit action that enterParallelState wraps around the original.
RegionExits == UNION {RegionPath(region[r]) : r \in OpenRegions}

\* enterParallelState: each region in its initial leaf.
RegionEntries ==
  UNION {Ancestors(FindDeepestInitial(r)) \ Ancestors(Parent[r]) : r \in Regions}

\* Faulty variant: the exit leaves the regions in the map.
RegionsKept(to) ==
  [r \in Regions |-> IF EntersParallel(to) THEN FindDeepestInitial(r) ELSE region[r]]

RegionsAfter(to) ==
  [r \in Regions |->
     CASE EntersParallel(to) -> FindDeepestInitial(r)
       [] ~EntersParallel(to) /\ ExitsParallel(to) -> NoState
       [] OTHER -> region[r]]

Move(to, eventless) ==
  /\ current' = CurrentAfter(to, eventless)
  /\ region' = RegionsAfter(to)
  /\ active' =
       (active \ (Exited(to) \cup (IF ExitsParallel(to) THEN RegionExits ELSE {})))
         \cup EntryPath(to) \cup (IF EntersParallel(to) THEN RegionEntries ELSE {})

Execute(t, eventless) ==
  /\ \/ t.target = NoState /\ UNCHANGED machine
     \/ t.target # NoState /\ Move(t.target, eventless)
  /\ Raise(t.raise)

\* Phase 5 holds regionMu for reading during its macrostep, and entering or
\* exiting the parallel state takes it for writing: the tick goroutine waits
\* for itself.
RegionLockHeld == InMacrostep /\ stage = "regions"

Blocks(t) ==
  /\ RegionLockHeld
  /\ t.target # NoState
  /\ ExitsParallel(t.target) \/ EntersParallel(t.target)

Stuck == at' = "stuck" /\ UNCHANGED <<machine, batch, internal, seq>>

-----------------------------------------------------------------------------
(***************************************************************************)
(* Start enters the deepest initial state only: Machine.Initial is that    *)
(* leaf, so the path "from root" has one element. If it is the parallel    *)
(* state, Start leaves the eventless transitions to the first tick.        *)
(***************************************************************************)
Start ==
  /\ life = "new"
  /\ IF current \in Parallel
       THEN /\ life' = "running"
            /\ region' = [r \in Regions |-> FindDeepestInitial(r)]
            /\ active' = {current} \cup RegionEntries
            /\ UNCHANGED <<at, stage>>
       ELSE /\ life' = "starting"
            /\ active' = {current}
            /\ at' = "loop" /\ stage' = "start"
            /\ UNCHANGED region
  /\ UNCHANGED <<current, round, work, clients, handled, cancelled, stop, batch,
                 pending, internal, seq>>

\* The leaf's entry action returns an error, which Start discards together
\* with the macrostep: the loop starts all the same.
StartEntryFails ==
  /\ life = "new" /\ current \notin Parallel
  /\ life' = "running"
  /\ active' = {current}
  /\ UNCHANGED <<current, region, loop, work, clients, handled, cancelled, stop,
                 batch, pending, internal, seq>>

-----------------------------------------------------------------------------
(***************************************************************************)
(* Phases 1 to 3 of a tick: the batch.                                     *)
(***************************************************************************)

\* Faulty variant: the batch is copied and not emptied.
BeginTickKeepsBatch ==
  /\ life = "running" /\ at = "idle"
  /\ at' = "events" /\ round' = 0
  /\ pending' = batch
  /\ UNCHANGED <<machine, stage, work, clients, handled, control, batch, internal, seq>>

\* The ticker fires: collectEvents empties the batch.
BeginTick ==
  /\ life = "running" /\ at = "idle"
  /\ at' = "events" /\ round' = 0
  /\ pending' = batch /\ batch' = {}
  /\ UNCHANGED <<machine, stage, work, clients, handled, control, internal, seq>>

\* Faulty variant: last in, first out.
SortsBeforeLIFO(m, n) == m.prio > n.prio \/ (m.prio = n.prio /\ m.seq > n.seq)

\* The order of sortEvents.
SortsBefore(m, n) == m.prio > n.prio \/ (m.prio = n.prio /\ m.seq < n.seq)

IsNext(m) == m \in pending /\ \A n \in pending \ {m} : SortsBefore(m, n)

\* processEvent of the next event, up to its microsteps.
ProcessEvent ==
  /\ at = "events"
  /\ \E m \in pending :
       /\ IsNext(m)
       /\ pending' = pending \ {m}
       /\ handled' = handled \cup {m}
       /\ \E ok \in SUBSET Guard :
            LET chosen == PickTransitionHierarchical(current, m.event, ok)
            IN  \/ /\ chosen = {}
                   /\ UNCHANGED <<machine, at, batch, internal, seq>>
                \/ \E t \in chosen : Execute(t, FALSE) /\ at' = "micro"
  /\ round' = 0
  /\ UNCHANGED <<stage, work, clients, control>>

\* One round of processMicrosteps.
Microstep ==
  /\ at = "micro" /\ round < MaxMicrosteps
  /\ \E ok \in SUBSET Guard :
       \E t \in PickTransitionHierarchical(current, NoEvent, ok) : Execute(t, TRUE)
  /\ round' = round + 1
  /\ UNCHANGED <<at, stage, work, clients, handled, control, pending>>

\* No eventless transition is enabled, or the bound is reached.
EventDone ==
  /\ at = "micro"
  /\ \/ round = MaxMicrosteps
     \/ \E ok \in SUBSET Guard : PickTransitionHierarchical(current, NoEvent, ok) = {}
  /\ at' = "events"
  /\ UNCHANGED <<machine, stage, round, work, clients, handled, control, batch,
                 pending, internal, seq>>

-----------------------------------------------------------------------------
(***************************************************************************)
(* processMacrostepToCompletion.                                           *)
(***************************************************************************)

\* Faulty variant: the rest of the batch is dropped.
BeginMacrostepEarly ==
  /\ at = "events"
  /\ at' = "loop" /\ stage' = "macro" /\ round' = 0 /\ pending' = {}
  /\ UNCHANGED <<machine, work, clients, handled, control, batch, internal, seq>>

\* Phase 4 starts when the last event of the batch has been processed.
BeginMacrostep ==
  /\ at = "events" /\ pending = {}
  /\ at' = "loop" /\ stage' = "macro" /\ round' = 0
  /\ UNCHANGED <<machine, work, clients, handled, control, batch, pending, internal, seq>>

\* Phase 5 runs a second macrostep when the parallel state has been entered.
BeginRegions ==
  /\ at = "between"
  /\ IF OpenRegions # {} THEN at' = "loop" /\ stage' = "regions" /\ round' = 0
                         ELSE at' = "idle" /\ UNCHANGED <<stage, round>>
  /\ UNCHANGED <<machine, work, clients, handled, control, batch, pending, internal, seq>>

\* Step 1: one event leaves the internal queue.
TakeInternal ==
  /\ at = "loop" /\ round < MaxMicrosteps /\ internal # <<>>
  /\ at' = "dispatch"
  /\ inHand' = Head(internal).event
  /\ internal' = Tail(internal)
  /\ UNCHANGED <<machine, stage, round, todo, clients, handled, control, batch, pending, seq>>

\* The regions get the event after the embedded runtime, if the parallel state
\* was entered before and still is.
RouteToRegions ==
  IF OpenRegions # {} /\ \E r \in Regions : region'[r] # NoState
    THEN at' = "deliver" /\ todo' = Regions /\ UNCHANGED <<round, inHand>>
    ELSE at' = "loop" /\ round' = round + 1 /\ inHand' = NoEvent /\ UNCHANGED todo

\* ProcessEventWithoutMicrosteps.
Dispatch ==
  /\ at = "dispatch"
  /\ \E ok \in SUBSET Guard :
       LET chosen == PickTransitionHierarchical(current, inHand, ok)
       IN  \/ /\ chosen = {}
              /\ UNCHANGED <<machine, batch, internal, seq>>
              /\ RouteToRegions
           \/ \E t \in chosen :
                \/ Blocks(t) /\ Stuck /\ UNCHANGED <<round, work>>
                \/ ~Blocks(t) /\ Execute(t, FALSE) /\ RouteToRegions
  /\ UNCHANGED <<stage, clients, handled, control, pending>>

\* A region's transition: only those of its current state are looked at, and
\* an exact match has no precedence over a wildcard.
RegionMatches(r, e, ok) ==
  {i \in DOMAIN Transitions[region[r]] :
     /\ Transitions[region[r]][i].event \in {e} \cup (IF e = NoEvent THEN {} ELSE {AnyEvent})
     /\ Passes(Transitions[region[r]][i], ok)}

RegionTransition(r, e, ok) ==
  LET m == RegionMatches(r, e, ok)
  IN  {Transitions[region[r]][i] : i \in {k \in m : \A j \in m : k <= j}}

\* Faulty variant: the region stops at a compound target.
MoveRegionShallow(r, to) ==
  /\ region' = [region EXCEPT ![r] = to]
  /\ active' = (active \ RegionPath(region[r])) \cup {to}
  /\ UNCHANGED current

\* The whole region is exited, its root included, and entered from the target
\* downwards.
MoveRegion(r, to) ==
  /\ region' = [region EXCEPT ![r] = FindDeepestInitial(to)]
  /\ active' = (active \ RegionPath(region[r]))
                 \cup {a \in Ancestors(FindDeepestInitial(to)) : to \in Ancestors(a)}
  /\ UNCHANGED current

ExecuteInRegion(r, t) ==
  /\ \/ t.target = NoState /\ UNCHANGED machine
     \/ t.target # NoState /\ MoveRegion(r, t.target)
  /\ Raise(t.raise)

\* Each region in turn, in the order of their StateIDs.
Deliver ==
  /\ at = "deliver"
  /\ \E r \in todo :
       /\ Before[r] \cap todo = {}
       /\ todo' = todo \ {r}
       /\ \E ok \in SUBSET Guard :
            LET chosen == RegionTransition(r, inHand, ok)
            IN  \/ chosen = {} /\ UNCHANGED <<machine, batch, internal, seq>>
                \/ \E t \in chosen : ExecuteInRegion(r, t)
  /\ IF todo' = {} THEN at' = "loop" /\ round' = round + 1 /\ inHand' = NoEvent
                   ELSE UNCHANGED <<at, round, inHand>>
  /\ UNCHANGED <<stage, clients, handled, control, pending>>

\* The internal queue is empty. From here on it is not looked at in this round.
QueueEmpty ==
  /\ at = "loop" /\ round < MaxMicrosteps /\ internal = <<>>
  /\ at' = "quiet"
  /\ UNCHANGED <<machine, stage, round, work, clients, handled, control, batch,
                 pending, internal, seq>>

\* Step 2: ProcessSingleMicrostep.
Eventless ==
  /\ at = "quiet"
  /\ \E ok \in SUBSET Guard :
       \E t \in PickTransitionHierarchical(current, NoEvent, ok) :
         \/ Blocks(t) /\ Stuck /\ UNCHANGED round
         \/ ~Blocks(t) /\ Execute(t, TRUE) /\ at' = "loop" /\ round' = round + 1
  /\ UNCHANGED <<stage, work, clients, handled, control, pending>>

NoneEventless(ok) == PickTransitionHierarchical(current, NoEvent, ok) = {}

\* Step 3: the first region with an enabled eventless transition. The guards
\* are asked a second time, and may say no now.
RegionEventless ==
  /\ at = "quiet"
  /\ \E ok \in SUBSET Guard :
       /\ NoneEventless(ok)
       /\ \E r \in OpenRegions :
            /\ RegionMatches(r, NoEvent, ok) # {}
            /\ \A q \in Before[r] \cap OpenRegions : RegionMatches(q, NoEvent, ok) = {}
            /\ \E again \in SUBSET Guard :
                 LET chosen == RegionTransition(r, NoEvent, again)
                 IN  \/ chosen = {} /\ UNCHANGED <<machine, batch, internal, seq>>
                     \/ \E t \in chosen : ExecuteInRegion(r, t)
  /\ at' = "loop" /\ round' = round + 1
  /\ UNCHANGED <<stage, work, clients, handled, control, pending>>

\* Faulty variant: the regions are not asked.
CompletedOutside ==
  \/ at = "loop" /\ round = MaxMicrosteps
  \/ at = "quiet" /\ \E ok \in SUBSET Guard : NoneEventless(ok)

\* Neither: the macrostep is over, also when the rounds are used up. Phase 5
\* follows phase 4; Start goes on to spawn the tick loop.
Completed ==
  \/ at = "loop" /\ round = MaxMicrosteps
  \/ at = "quiet" /\ \E ok \in SUBSET Guard :
       NoneEventless(ok) /\ \A r \in OpenRegions : RegionMatches(r, NoEvent, ok) = {}

EndMacrostep ==
  /\ Completed
  /\ at' = IF stage = "macro" THEN "between" ELSE "idle"
  /\ life' = IF life = "starting" THEN "running" ELSE life
  /\ UNCHANGED <<machine, stage, round, work, clients, handled, cancelled, stop,
                 batch, pending, internal, seq>>

-----------------------------------------------------------------------------
(***************************************************************************)
(* Stopping.                                                               *)
(***************************************************************************)

\* The context given to Start is cancelled by its owner.
CancelParent ==
  /\ life \in {"running", "exited"} /\ ~cancelled
  /\ cancelled' = TRUE
  /\ UNCHANGED <<machine, loop, work, clients, handled, life, stop, batch, pending,
                 internal, seq>>

\* Faulty variant: Stop only waits.
CallStopNoCancel ==
  /\ life \in {"running", "exited"} /\ stop = "none"
  /\ stop' = "waiting"
  /\ UNCHANGED <<machine, loop, work, clients, handled, life, cancelled, batch,
                 pending, internal, seq>>

\* Stop cancels the tick context and waits for rt.stopped. (Called before
\* Start has returned, it may find no context to cancel.)
CallStop ==
  /\ life \in {"running", "exited"} /\ stop = "none"
  /\ stop' = "waiting" /\ cancelled' = TRUE
  /\ UNCHANGED <<machine, loop, work, clients, handled, life, batch, pending,
                 internal, seq>>

\* The loop's select happens to take the closed Done channel.
LoopExits ==
  /\ life = "running" /\ at = "idle" /\ cancelled
  /\ life' = "exited"
  /\ UNCHANGED <<machine, loop, work, clients, handled, cancelled, stop, batch,
                 pending, internal, seq>>

\* The embedded Stop runs the exit action of a parallel current state.
StopReturns ==
  /\ stop = "waiting" /\ life = "exited"
  /\ stop' = "returned"
  /\ IF current \in Parallel
       THEN /\ region' = [r \in Regions |-> NoState]
            /\ active' = active \ (RegionExits \cup {current})
       ELSE UNCHANGED <<region, active>>
  /\ UNCHANGED <<current, loop, work, clients, handled, life, cancelled, batch,
                 pending, internal, seq>>

-----------------------------------------------------------------------------
Lifecycle == Start \/ StartEntryFails \/ CancelParent \/ CallStop \/ LoopExits
               \/ StopReturns

Clients ==
  \/ \E e \in Event : SendEvent(e) \/ \E p \in Priority : SendEventWithPriority(e, p)
  \/ \E m \in routed : AppendToBatch(m)

Macrostep == TakeInternal \/ Dispatch \/ Deliver \/ QueueEmpty \/ Eventless
               \/ RegionEventless \/ EndMacrostep

Tick == BeginTick \/ ProcessEvent \/ Microstep \/ EventDone \/ BeginMacrostep
          \/ BeginRegions \/ Macrostep

Next == Lifecycle \/ Clients \/ Tick

Spec == Init /\ [][Next]_vars

(***************************************************************************)
(* Fairness. The ticker keeps firing and the tick goroutine runs; a client *)
(* inside SendEvent goes on; the select between the ticker and the closed  *)
(* context picks uniformly. Nothing obliges a client to send or to stop.   *)
(***************************************************************************)
Fairness ==
  /\ WF_vars(Tick)
  /\ WF_vars(\E m \in routed : AppendToBatch(m))
  /\ WF_vars(StopReturns)
  /\ SF_vars(LoopExits)

FairSpec == Spec /\ Fairness

-----------------------------------------------------------------------------
(***************************************************************************)
(* Properties.                                                             *)
(***************************************************************************)
Waiting == batch \cup pending

\* Every event the batch accepted is processed exactly once: it is either still
\* waiting or has been processed, and no sequence number is given out twice,
\* however sends and ticks interleave.
HandledOnce ==
  /\ {m.seq : m \in Waiting \cup handled} = 0 .. (seq - 1)
  /\ \A m, n \in Waiting \cup handled : m.seq = n.seq => m = n
  /\ Waiting \cap handled = {}

\* Of two batched events of one priority the one accepted first is processed
\* first, also when different ticks collect them.
BatchOrder ==
  \A m \in handled : \A n \in Waiting : m.prio = n.prio => m.seq < n.seq

Ended == at = "idle" /\ stage \in {"macro", "regions"} /\ round < MaxMicrosteps

\* The charts in which rt.current is where the comments take it to be: an
\* eventless transition outside the regions goes to an atomic or the parallel
\* state, no event leads into the parallel state.
CurrentIsLeaf ==
  \A s \in State : Ancestors(s) \cap Regions = {} =>
    \A i \in DOMAIN Transitions[s] :
      LET t == Transitions[s][i]
      IN  t.target # NoState =>
            /\ t.event = NoEvent =>
                 Initial[t.target] = NoState /\ Ancestors(t.target) \cap Regions = {}
            /\ t.event # NoEvent =>
                 Ancestors(FindDeepestInitial(t.target)) \cap Parallel = {}

\* The charts in which a region's transitions stay in the region.
RegionsStay ==
  \A r \in Regions : \A s \in State : r \in Ancestors(s) =>
    \A i \in DOMAIN Transitions[s] :
      Transitions[s][i].target # NoState => r \in Ancestors(Transitions[s][i].target)

\* A tick runs to completion: when it ends, no unguarded eventless transition
\* is left that the runtime or a region could take, and every event an action
\* raised during its macrostep has been processed, unless the bound on the
\* rounds cut it off.
TickCompletes ==
  Ended =>
    /\ \A s \in Ancestors(current) \cup {region[r] : r \in OpenRegions} :
         \A i \in DOMAIN Transitions[s] :
           ~ (Transitions[s][i].event = NoEvent /\ Transitions[s][i].guard = NoGuard)
    /\ \A i \in DOMAIN internal : internal[i].ticket # 0

\* The path to rt.current, and the paths to the regions' current states.
Paths == Ancestors(current) \cup UNION {Ancestors(region[r]) : r \in OpenRegions}

\* Nothing is left behind: what was entered and not exited lies on the path to
\* rt.current or to a region's current state, and those have been entered.
\* (Not the whole paths: Start and the regions' transitions enter less.)
TickConfiguration ==
  CurrentIsLeaf /\ RegionsStay /\ life = "running" /\ at = "idle" =>
    /\ active \subseteq Paths
    /\ {current} \cup {region[r] : r \in OpenRegions} \subseteq active

\* The regions exist, all of them, exactly while the embedded runtime is in
\* the parallel state, and each stays inside its own part of the chart.
RegionsFollowParallel ==
  CurrentIsLeaf /\ RegionsStay /\ life = "running" =>
    \A r \in Regions :
      /\ region[r] # NoState <=> Parent[r] \in Ancestors(current)
      /\ region[r] # NoState => r \in Ancestors(region[r])

\* The abstract configuration.
Configured == IF life = "new" THEN {} ELSE Paths

Statechart ==
  INSTANCE ParallelConfiguration WITH configuration <- Configured, EventID <- Event

\* On the charts in which rt.current is a leaf and the regions' transitions
\* stay in their region, whatever is sent, raised, batched or cancelled, every
\* step is one transition of the chart: the innermost willing state outside
\* the regions moves the whole configuration, opening and closing all regions
\* together, or the leaf of one region moves that region and no other.
RefinesParallel == Statechart!Spec

\* Stop returns.
TickStopTerminates == stop = "waiting" ~> stop = "returned"

\* Every event the batch accepted is processed in the end, unless the runtime
\* is stopped first: whenever events wait, a time comes when all those accepted
\* until then have been processed.
EventuallyHandled ==
  (Waiting # {} /\ life # "new") ~>
     ({m.seq : m \in handled} = 0 .. (seq - 1) \/ cancelled)

=============================================================================
