------------------------------ MODULE Regions ------------------------------
(***************************************************************************)
(* The parallel state of the event-driven Runtime in statechart.go: one    *)
(* goroutine per region, each with its own bounded channel, next to the    *)
(* event loop; broadcasts, done events, Start, Stop and cancellation.      *)
(*                                                                         *)
(* Grain of atomicity. A region holds r.mu from the event it takes until   *)
(* it has entered the target; on the way every exited state needs          *)
(* doneEventsMu (clearDoneEvent), an action that sends needs regionMu, and *)
(* the generation of the parallel state's done event keeps both while it   *)
(* reads the regions one by one under their r.mu. A Start that gives up    *)
(* asks for regionMu as a writer: from then on no reader is let in. These  *)
(* waits are modelled; what a goroutine does between them is one step.     *)
(* rt.current is written by every region and by the loop without a common  *)
(* lock; the loop reads it to select a transition, to carry it out and to  *)
(* check for completion, and it may have changed each time.                *)
(***************************************************************************)
EXTENDS Chart

CONSTANTS
  Par,          \* the parallel state
  Loop,         \* the event loop
  Client,       \* goroutines that call SendEvent
  Cap,          \* capacity of the channels (10 of a region, 100 of the queue)
  EarlyEvent,   \* events sent while the runtime has no regions
  MaxSends,     \* bound: the number of events clients send
  Nobody        \* holds doneEventsMu when nobody does

Region == Children(Par)
Actor == Region \cup {Loop}

\* Whoever is inside SendEvent, or sends a done event: an actor whose action
\* sends, a client, the goroutine of a done event (named by the event).
Sender == Actor \cup Client \cup {DoneEvent[p] : p \in State}

ASSUME RegionsAssumption ==
  /\ Parallel = {Par} /\ Region # {} /\ FindDeepestInitial(Root) = Par
  /\ Loop \notin State /\ Nobody \notin Actor
  /\ Cap \in Nat \ {0} /\ MaxSends \in Nat /\ EarlyEvent \subseteq Event
  /\ Actor \cap Client = {}
  /\ \A p \in State : DoneEvent[p] \notin Actor \cup Client

\* The parallel state is entered by Start only: what leads into it or stays in
\* it starts below it and is triggered by nothing the root queue can hold. It
\* and the history states are no targets, targets are atomic, and no transition
\* is eventless. A final state that can be rt.current has siblings in its
\* region: checkFinalState stops below the parallel state.
ASSUME TargetAssumption ==
  /\ \A s \in State : \A i \in DOMAIN Transitions[s] :
       LET t == Transitions[s][i]
       IN  /\ t.event # NoEvent
           /\ t.target \in Final => Par \notin DoneParents(t.target)
           /\ t.target # NoState =>
                /\ Children(t.target) = {} /\ t.target \notin HistoryState
                /\ Par \in Ancestors(t.target) =>
                     /\ Par \in Ancestors(s) \ {s}
                     /\ t.event \notin EarlyEvent \cup {AnyEvent, DoneEvent[Par]}

VARIABLES
  life,         \* new, starting, cleaning (both inside Start), running, failed
  cancelled,    \* rt.ctx.Done() is closed
  stopped,      \* a call of Stop has returned
  regions,      \* the keys of rt.parallelRegions
  current,      \* rt.current
  place,        \* region.currentState
  mailbox,      \* region.events, and rt.eventQueue for the loop
  pc,           \* where each goroutine is
  step,         \* the transition it is in
  doneMu,       \* who holds doneEventsMu across several steps
  unread,       \* the regions the holder still has to read
  awaited,      \* the one of them it reads next
  donePending,  \* rt.doneEventsPending
  dones,        \* dones[p]: goroutines that have yet to send p's done event
  flight,       \* flight[o]: what o is sending, and to whom it still has to
  sent,         \* events sent by clients so far, for the bound
  active,       \* observed: states entered and not exited
  doneCount     \* observed: done events of Par generated since it was entered

control == <<life, cancelled, stopped, regions>>
locks == <<doneMu, unread, awaited>>
announced == <<donePending, dones, doneCount>>
vars == <<control, current, place, mailbox, pc, step, locks, announced,
          flight, sent, active>>

PC == {"off", "spawned", "entering", "idle", "selected", "exiting", "acting",
       "entered", "check", "claim", "claimed", "reading", "ended"}

Step == [from : State \cup {NoState}, to : State \cup {NoState},
         raise : Event \cup {NoEvent}]

NoStep == [from |-> NoState, to |-> NoState, raise |-> NoEvent]

Nothing == [event |-> NoEvent, left |-> {}]

TypeOK ==
  /\ life \in {"new", "starting", "cleaning", "running", "failed"}
  /\ cancelled \in BOOLEAN
  /\ stopped \in BOOLEAN
  /\ regions \in {{}, Region}
  /\ current \in State
  /\ place \in [Region -> State]
  /\ mailbox \in [Actor -> Seq(EventID)]
  /\ \A a \in Actor : Len(mailbox[a]) <= Cap
  /\ pc \in [Actor -> PC]
  /\ step \in [Actor -> Step]
  /\ doneMu \in Region \cup {Nobody}
  /\ unread \subseteq Region
  /\ awaited \in Region \cup {Nobody}
  /\ donePending \subseteq State
  /\ dones \in [State -> Nat]
  /\ flight \in [Sender -> [event : EventID \cup {NoEvent}, left : SUBSET Actor]]
  /\ sent \in 0 .. MaxSends
  /\ active \subseteq State
  /\ doneCount \in Nat

Init ==
  /\ life = "new" /\ cancelled = FALSE /\ stopped = FALSE /\ regions = {}
  /\ current = Par
  /\ place = [r \in Region |-> FindDeepestInitial(r)]
  /\ mailbox = [a \in Actor |-> <<>>]
  /\ pc = [a \in Actor |-> "off"]
  /\ step = [a \in Actor |-> NoStep]
  /\ doneMu = Nobody /\ unread = {} /\ awaited = Nobody
  /\ donePending = {} /\ dones = [p \in State |-> 0] /\ doneCount = 0
  /\ flight = [o \in Sender |-> Nothing]
  /\ sent = 0
  /\ active = {}

Position(a) == IF a = Loop THEN current ELSE place[a]

\* r.mu is held: allRegionsInFinalState and IsInState wait for it.
HoldsMu(r) == pc[r] \in {"exiting", "acting"}

-----------------------------------------------------------------------------
(***************************************************************************)
(* Start: enterInitialState and enterParallelState.                        *)
(***************************************************************************)

\* The states above the parallel state are entered; no region exists yet.
Start ==
  /\ life = "new"
  /\ life' = "starting"
  /\ active' = Ancestors(Par) \ {Par}
  /\ UNCHANGED <<cancelled, stopped, regions, current, place, mailbox, pc, step,
                 locks, announced, flight, sent>>

\* Under regionMu every region is put into the map and gets its goroutine.
Spawn ==
  /\ life = "starting" /\ regions = {}
  /\ regions' = Region
  /\ pc' = [a \in Actor |-> IF a = Loop THEN "off" ELSE "spawned"]
  /\ active' = active \cup {Par}
  /\ UNCHANGED <<life, cancelled, stopped, current, place, mailbox, step, locks,
                 announced, flight, sent>>

\* Every region has signalled on startedChan: the event loop is started.
StartReturns ==
  /\ life = "starting" /\ regions = Region
  /\ \A r \in Region : pc[r] # "spawned"
  /\ life' = "running"
  /\ pc' = [pc EXCEPT ![Loop] = "idle"]
  /\ UNCHANGED <<cancelled, stopped, regions, current, place, mailbox, step, locks,
                 announced, flight, sent, active>>

\* The entry context ends before Start has received every region's signal:
\* cleanupParallelRegions asks for regionMu. Until it has it, no new reader of
\* the map gets in.
StartGivesUp ==
  /\ life = "starting" /\ regions = Region
  /\ life' = "cleaning"
  /\ UNCHANGED <<cancelled, stopped, regions, current, place, mailbox, pc, step, locks,
                 announced, flight, sent, active>>

\* Faulty variant: regionMu is taken whoever still reads the map.
CleanUpAtOnce ==
  /\ life = "cleaning"
  /\ life' = "failed" /\ regions' = {}
  /\ UNCHANGED <<cancelled, stopped, current, place, mailbox, pc, step, locks,
                 announced, flight, sent, active>>

\* The last reader has gone: the regions are cancelled, the map is emptied and
\* Start fails.
CleanUp ==
  /\ life = "cleaning"
  /\ \A r \in Region : pc[r] # "reading"
  /\ \A o \in Sender : flight[o].left \cap Region = {}
  /\ life' = "failed" /\ regions' = {}
  /\ UNCHANGED <<cancelled, stopped, current, place, mailbox, pc, step, locks,
                 announced, flight, sent, active>>

\* The region's goroutine runs and signals.
RegionStarts(r) ==
  /\ pc[r] = "spawned"
  /\ pc' = [pc EXCEPT ![r] = "entering"]
  /\ UNCHANGED <<control, current, place, mailbox, step, locks, announced,
                 flight, sent, active>>

\* enterInitialHierarchy.
RegionEnters(r) ==
  /\ pc[r] = "entering"
  /\ active' = active \cup {s \in Ancestors(place[r]) : r \in Ancestors(s)}
  /\ pc' = [pc EXCEPT ![r] = IF place[r] \in Final THEN "check" ELSE "idle"]
  /\ UNCHANGED <<control, current, place, mailbox, step, locks, announced,
                 flight, sent>>

-----------------------------------------------------------------------------
(***************************************************************************)
(* Sending. SendEvent decides between the queue and the regions under      *)
(* regionMu, and only then sends; a broadcast keeps regionMu and visits    *)
(* the regions in any order.                                               *)
(***************************************************************************)
Route == IF regions = {} THEN {Loop} ELSE regions

\* The choices of a sender that gets regionMu: one that had decided for the
\* regions and then waited for the cleanup finds none left.
Routes == {dest \in {Route, {}} : life # "cleaning" /\ (dest = {} => life = "failed")}

Sending(e, dest) == [event |-> e, left |-> IF e = NoEvent THEN {} ELSE dest]

\* A client sends an event to all regions or to the one it addresses.
ClientSends(c, e) ==
  /\ life \notin {"new", "cleaning"} /\ sent < MaxSends /\ flight[c].left = {}
  /\ regions = {} => e \in EarlyEvent
  /\ \E dest \in Routes \cup {{r} : r \in regions} :
       flight' = [flight EXCEPT ![c] = Sending(e, dest)]
  /\ sent' = sent + 1
  /\ UNCHANGED <<control, current, place, mailbox, pc, step, locks, announced, active>>

\* The goroutine of p's done event: Par's goes to the root queue.
DoneBegins(p) ==
  /\ dones[p] > 0 /\ flight[DoneEvent[p]].left = {}
  /\ dones' = [dones EXCEPT ![p] = @ - 1]
  /\ \E dest \in IF p = Par THEN {{Loop}} ELSE Routes :
       flight' = [flight EXCEPT ![DoneEvent[p]] = Sending(DoneEvent[p], dest)]
  /\ UNCHANGED <<control, current, place, mailbox, pc, step, locks, donePending,
                 doneCount, sent, active>>

\* Faulty variant: one event too many fits in.
FullLate(d) == Len(mailbox[d]) > Cap

Full(d) == Len(mailbox[d]) = Cap

Deliver(o, d) ==
  /\ d \in flight[o].left /\ ~Full(d)
  /\ mailbox' = [mailbox EXCEPT ![d] = Append(@, flight[o].event)]
  /\ flight' = [flight EXCEPT ![o].left = @ \ {d}]
  /\ UNCHANGED <<control, current, place, pc, step, locks, announced, sent, active>>

\* The destination's context is done, and a region is skipped; or the context
\* that a region's action has been given and hands on.
Skip(o, d) ==
  /\ d \in flight[o].left /\ (cancelled \/ o \in Region \ regions)
  /\ flight' = [flight EXCEPT ![o].left = @ \ {d}]
  /\ UNCHANGED <<control, current, place, mailbox, pc, step, locks, announced, sent, active>>

\* Faulty variant: only clients have a deadline.
GiveUpClient(o) ==
  /\ o \in Client /\ flight[o].left # {}
  /\ flight' = [flight EXCEPT ![o].left = {}]
  /\ UNCHANGED <<control, current, place, mailbox, pc, step, locks, announced, sent, active>>

\* The deadline passes and the rest of the broadcast is dropped: after 100 ms
\* with regions or with a done event, after the caller's own deadline at the
\* queue. An action that sends to the queue has none.
GiveUp(o) ==
  /\ \E d \in flight[o].left : d \in Region \/ o \notin Actor
  /\ flight' = [flight EXCEPT ![o].left = {}]
  /\ UNCHANGED <<control, current, place, mailbox, pc, step, locks, announced, sent, active>>

-----------------------------------------------------------------------------
(***************************************************************************)
(* Transitions, of a region or of the event loop.                          *)
(***************************************************************************)

\* No transition is enabled for the next event.
IgnoreEvent(a) ==
  /\ pc[a] = "idle" /\ mailbox[a] # <<>>
  /\ \E ok \in SUBSET Guard :
       PickTransitionHierarchical(Position(a), Head(mailbox[a]), ok) = {}
  /\ mailbox' = [mailbox EXCEPT ![a] = Tail(@)]
  /\ UNCHANGED <<control, current, place, pc, step, locks, announced, flight,
                 sent, active>>

\* After the selection of a transition to "to". The loop has not read yet what
\* it is going to leave.
Selected(a, to) ==
  IF to = NoState THEN "acting" ELSE IF a = Loop THEN "selected" ELSE "exiting"

\* A transition is selected; an internal one goes straight to its action.
TakeEvent(a) ==
  /\ pc[a] = "idle" /\ mailbox[a] # <<>>
  /\ \E ok \in SUBSET Guard :
       \E t \in PickTransitionHierarchical(Position(a), Head(mailbox[a]), ok) :
         /\ step' = [step EXCEPT ![a] = [from |-> Position(a), to |-> t.target,
                                         raise |-> t.raise]]
         /\ pc' = [pc EXCEPT ![a] = Selected(a, t.target)]
  /\ mailbox' = [mailbox EXCEPT ![a] = Tail(@)]
  /\ UNCHANGED <<control, current, place, locks, announced, flight, sent, active>>

\* The loop reads rt.current again: what the transition leaves, and after it
\* what checkFinalState looks at.
LoopReads ==
  /\ pc[Loop] \in {"selected", "entered"}
  /\ step' = [step EXCEPT ![Loop].from = current]
  /\ pc' = [pc EXCEPT ![Loop] = IF @ = "selected" THEN "exiting" ELSE "check"]
  /\ UNCHANGED <<control, current, place, mailbox, locks, announced, flight, sent, active>>

ExitedStates(from, to) == Ancestors(from) \ Ancestors(ComputeLCA(from, to))

\* Faulty variant: clearDoneEvent takes no lock.
ExitStatesUnlocked(a) ==
  /\ pc[a] = "exiting"
  /\ \E gone \in {ExitedStates(step[a].from, step[a].to)} :
       /\ active' = active \ gone
       /\ donePending' = donePending \ gone
       /\ doneCount' = IF Par \in gone THEN 0 ELSE doneCount
  /\ pc' = [pc EXCEPT ![a] = "acting"]
  /\ UNCHANGED <<control, current, place, mailbox, step, locks, dones, flight, sent>>

\* exitToLCA. Regions are neither stopped nor taken out of the map when the
\* parallel state is exited.
ExitStates(a) ==
  /\ pc[a] = "exiting"
  /\ \E gone \in {ExitedStates(step[a].from, step[a].to)} :
       /\ gone = {} \/ doneMu = Nobody
       /\ active' = active \ gone
       /\ donePending' = donePending \ gone
       /\ doneCount' = IF Par \in gone THEN 0 ELSE doneCount
  /\ pc' = [pc EXCEPT ![a] = "acting"]
  /\ UNCHANGED <<control, current, place, mailbox, step, locks, dones, flight, sent>>

\* The transition's action sends an event, once it gets regionMu.
ActionSends(a) ==
  /\ pc[a] = "acting" /\ step[a].raise # NoEvent
  /\ \E dest \in Routes : flight' = [flight EXCEPT ![a] = Sending(step[a].raise, dest)]
  /\ step' = [step EXCEPT ![a].raise = NoEvent]
  /\ UNCHANGED <<control, current, place, mailbox, pc, locks, announced, sent, active>>

\* The action has returned.
Acted(a) == pc[a] = "acting" /\ step[a].raise = NoEvent /\ flight[a].left = {}

\* Faulty variant: a region does not keep its own place.
PlaceAfterStale(a, to) == place

PlaceAfter(a, to) == IF a = Loop THEN place ELSE [place EXCEPT ![a] = to]

\* enterFromLCA writes rt.current whoever runs it.
EnterStates(a) ==
  /\ Acted(a) /\ step[a].to # NoState
  /\ \E from \in {step[a].from}, to \in {step[a].to} :
       /\ active' = active \cup (Ancestors(to) \ Ancestors(ComputeLCA(from, to)))
       /\ current' = to
       /\ place' = PlaceAfter(a, to)
       /\ pc' = [pc EXCEPT ![a] = IF a = Loop THEN "entered"
                                  ELSE IF to \in Final THEN "check" ELSE "idle"]
  /\ step' = [step EXCEPT ![a] = NoStep]
  /\ UNCHANGED <<control, mailbox, locks, announced, flight, sent>>

\* An internal transition ends; only the loop calls checkFinalState after it.
EndInternal(a) ==
  /\ Acted(a) /\ step[a].to = NoState
  /\ pc' = [pc EXCEPT ![a] = IF a = Loop THEN "entered" ELSE "idle"]
  /\ step' = [step EXCEPT ![a] = NoStep]
  /\ UNCHANGED <<control, current, place, mailbox, locks, announced, flight, sent, active>>

\* Faulty variant: the regions are not asked.
IsInStateOfLoop(s) == s \in Ancestors(current)

\* IsInState, which asks rt.current and then every region.
IsInState(s) == s \in Ancestors(current) \/ \E r \in regions : s \in Ancestors(place[r])

-----------------------------------------------------------------------------
(***************************************************************************)
(* Done events: generateDoneEvent.                                         *)
(***************************************************************************)

\* The compound states whose completion the actor announces: a region the
\* parent of its final state, the loop what checkFinalState finds.
Completed(a) ==
  IF a = Loop THEN {p \in DoneParents(step[a].from) : step[a].from \in Final}
              ELSE {Parent[place[a]]} \ {Par, NoState}

\* One critical section of doneEventsMu. A region goes on to the parallel
\* state.
Announce(a) ==
  /\ pc[a] = "check" /\ doneMu = Nobody
  /\ \E done \in {Completed(a) \ donePending} :
       /\ donePending' = donePending \cup done
       /\ dones' = [p \in State |-> IF p \in done THEN dones[p] + 1 ELSE dones[p]]
  /\ pc' = [pc EXCEPT ![a] = IF a = Loop THEN "idle" ELSE "claim"]
  /\ step' = [step EXCEPT ![a] = NoStep]
  /\ UNCHANGED <<control, current, place, mailbox, locks, doneCount, flight, sent,
                 active>>

\* Faulty variant: the pending flag is not looked at.
ClaimAgain(r) ==
  /\ pc[r] = "claim" /\ doneMu = Nobody
  /\ doneMu' = r /\ unread' = Region
  /\ pc' = [pc EXCEPT ![r] = "claimed"]
  /\ UNCHANGED <<control, current, place, mailbox, step, awaited, announced, flight,
                 sent, active>>

\* The parallel state's turn: nothing to do when it was announced, otherwise
\* doneEventsMu is kept while the regions are read.
Claim(r) ==
  /\ pc[r] = "claim" /\ doneMu = Nobody
  /\ \/ /\ Par \in donePending
        /\ pc' = [pc EXCEPT ![r] = "idle"]
        /\ UNCHANGED locks
     \/ /\ Par \notin donePending
        /\ doneMu' = r /\ unread' = Region
        /\ pc' = [pc EXCEPT ![r] = "claimed"]
        /\ UNCHANGED awaited
  /\ UNCHANGED <<control, current, place, mailbox, step, announced, flight, sent, active>>

\* allRegionsInFinalState gets regionMu and goes to its first region: the order
\* is the map's, and the reader waits for each region in turn.
BeginReading(r) ==
  /\ pc[r] = "claimed" /\ life # "cleaning"
  /\ awaited' \in unread
  /\ pc' = [pc EXCEPT ![r] = "reading"]
  /\ UNCHANGED <<control, current, place, mailbox, step, doneMu, unread, announced,
                 flight, sent, active>>

\* It finds another region in a final state...
ReadFinal(r, c) ==
  /\ pc[r] = "reading" /\ c = awaited
  /\ c \in regions /\ ~HoldsMu(c) /\ place[c] \in Final /\ unread # {c}
  /\ unread' = unread \ {c}
  /\ awaited' \in unread'
  /\ UNCHANGED <<control, current, place, mailbox, pc, step, doneMu, announced,
                 flight, sent, active>>

\* Faulty variant: one region in a final state is enough.
ReadLastAny(r, c) ==
  /\ pc[r] = "reading" /\ c = awaited
  /\ c \in regions /\ ~HoldsMu(c) /\ place[c] \in Final
  /\ unread' = {} /\ awaited' = Nobody /\ doneMu' = Nobody
  /\ donePending' = donePending \cup {Par}
  /\ dones' = [dones EXCEPT ![Par] = @ + 1]
  /\ doneCount' = doneCount + 1
  /\ pc' = [pc EXCEPT ![r] = "idle"]
  /\ UNCHANGED <<control, current, place, mailbox, step, flight, sent, active>>

\* ... or the last one: the parallel state is done.
ReadLast(r, c) ==
  /\ pc[r] = "reading" /\ c = awaited
  /\ c \in regions /\ ~HoldsMu(c) /\ place[c] \in Final /\ unread = {c}
  /\ unread' = {} /\ awaited' = Nobody /\ doneMu' = Nobody
  /\ donePending' = donePending \cup {Par}
  /\ dones' = [dones EXCEPT ![Par] = @ + 1]
  /\ doneCount' = doneCount + 1
  /\ pc' = [pc EXCEPT ![r] = "idle"]
  /\ UNCHANGED <<control, current, place, mailbox, step, flight, sent, active>>

\* Faulty variant: the early return does not unlock.
ReadUnfinishedKeeps(r, c) ==
  /\ pc[r] = "reading" /\ c = awaited
  /\ c \notin regions \/ (~HoldsMu(c) /\ place[c] \notin Final)
  /\ unread' = {} /\ awaited' = Nobody
  /\ pc' = [pc EXCEPT ![r] = "idle"]
  /\ UNCHANGED <<control, current, place, mailbox, step, doneMu, announced, flight, sent, active>>

\* ... or one that is not, or no longer in the map.
ReadUnfinished(r, c) ==
  /\ pc[r] = "reading" /\ c = awaited
  /\ c \notin regions \/ (~HoldsMu(c) /\ place[c] \notin Final)
  /\ unread' = {} /\ awaited' = Nobody /\ doneMu' = Nobody
  /\ pc' = [pc EXCEPT ![r] = "idle"]
  /\ UNCHANGED <<control, current, place, mailbox, step, announced, flight, sent, active>>

-----------------------------------------------------------------------------
(***************************************************************************)
(* Cancellation and Stop.                                                  *)
(***************************************************************************)

\* The states a region exits when it ends: up to its root, if it is there.
ExitPath(r) ==
  {s \in Ancestors(place[r]) : r \in Ancestors(place[r]) => r \in Ancestors(s)}

\* The region's select takes its closed context: exitCurrentState.
Leave(r) ==
  /\ pc[r] = "idle" /\ (cancelled \/ r \notin regions)
  /\ pc' = [pc EXCEPT ![r] = "ended"]
  /\ active' = active \ ExitPath(r)
  /\ UNCHANGED <<control, current, place, mailbox, step, locks, announced, flight, sent>>

LoopEnds ==
  /\ pc[Loop] = "idle" /\ cancelled
  /\ pc' = [pc EXCEPT ![Loop] = "ended"]
  /\ UNCHANGED <<control, current, place, mailbox, step, locks, announced, flight,
                 sent, active>>

\* The owner of Start's context cancels it, or a call of Stop begins.
Cancel ==
  /\ life # "new" /\ ~cancelled
  /\ cancelled' = TRUE
  /\ UNCHANGED <<life, stopped, regions, current, place, mailbox, pc, step, locks,
                 announced, flight, sent, active>>

\* rt.wg counts the loop only, so Stop waits for no region. It then runs the
\* exit action of the state rt.current names, if that is the parallel state.
StopReturns ==
  /\ cancelled /\ ~stopped
  /\ life \in {"running", "failed"} /\ pc[Loop] \in {"off", "ended"}
  /\ stopped' = TRUE
  /\ active' = active \ ({Par} \cap {current})
  /\ UNCHANGED <<life, cancelled, regions, current, place, mailbox, pc, step, locks,
                 announced, flight, sent>>

-----------------------------------------------------------------------------
ActorStep(a) ==
  TakeEvent(a) \/ IgnoreEvent(a) \/ ExitStates(a) \/ EnterStates(a) \/ EndInternal(a)
    \/ ActionSends(a) \/ Announce(a)

RegionStep(r) ==
  \/ RegionStarts(r) \/ RegionEnters(r) \/ Claim(r) \/ BeginReading(r) \/ Leave(r)
  \/ \E c \in Region : ReadFinal(r, c) \/ ReadLast(r, c) \/ ReadUnfinished(r, c)

SenderStep(o) == GiveUp(o) \/ \E d \in Actor : Deliver(o, d) \/ Skip(o, d)

Starting == Spawn \/ StartReturns \/ StartGivesUp \/ CleanUp

\* What runs by itself once it can: goroutines, deadlines, Start's waiting.
Goroutines ==
  \/ Starting \/ LoopReads \/ LoopEnds
  \/ \E r \in Region : RegionStep(r)
  \/ \E o \in Sender : SenderStep(o)
  \/ \E p \in State : DoneBegins(p)
  \/ \E a \in Actor : ActorStep(a)

Environment ==
  \/ Start \/ Cancel \/ StopReturns
  \/ \E c \in Client, e \in Event : ClientSends(c, e)

Next == Goroutines \/ Environment

Spec == Init /\ [][Next]_vars

-----------------------------------------------------------------------------
(***************************************************************************)
(* Properties.                                                             *)
(***************************************************************************)

RegionOf(s) == {r \in Region : r \in Ancestors(s)}

\* Charts whose regions are independent: a transition inside a region stays in
\* it and is triggered by no event the root queue can hold, and the parallel
\* state is left for its own done event only.
RegionLocal ==
  \A s \in State : \A i \in DOMAIN Transitions[s] :
    LET t == Transitions[s][i]
    IN  /\ RegionOf(s) # {} =>
             /\ t.target # NoState => RegionOf(t.target) = RegionOf(s)
             /\ t.event \notin EarlyEvent \cup {AnyEvent, DoneEvent[Par]}
        /\ s \in Ancestors(Par) => t.target = NoState \/ t.event = DoneEvent[Par]

Below(r) == {s \in State : r \in Ancestors(s)}

BetweenEvents(r) == pc[r] \in {"idle", "check", "claim", "claimed", "reading"}

\* While the parallel state is active a region between two events has exactly
\* the path from its root to its own state active, whatever the other regions,
\* the loop and rt.current do; and one that has ended has left every state.
RegionConfiguration ==
  RegionLocal /\ Par \in active =>
    \A r \in Region :
      /\ BetweenEvents(r) => active \cap Below(r) = Ancestors(place[r]) \cap Below(r)
      /\ pc[r] = "ended" => active \cap Below(r) = {}

\* What IsInState reports while no region is in a transition is what has been
\* entered and not exited, although rt.current is overwritten by whichever
\* region moved last.
IsInStateExact ==
  RegionLocal /\ Par \in active /\ regions = Region /\ (\A r \in Region : BetweenEvents(r)) =>
    \A s \in State : IsInState(s) <=> s \in active

\* The parallel state's completion is announced once per stay: two regions
\* that finish at the same moment neither both announce it nor leave it to
\* each other.
ParallelDoneOnce ==
  /\ doneCount <= 1
  /\ Par \in active /\ regions = Region
       /\ (\A r \in Region : pc[r] = "idle" /\ place[r] \in Final) => doneCount = 1

\* The done event of the parallel state is generated in a moment in which
\* every region is in a final state, although they are read one by one.
DoneIsTrue ==
  [][doneCount' > doneCount => \A r \in Region : place[r] \in Final]_vars

\* A region of the active parallel state is where it was put, and in a
\* transition from its exits on where that leads. One that has ended is nowhere.
IsOpen(r) == Par \in active /\ pc[r] # "ended"

Moved(r) == IF pc[r] = "acting" /\ step[r].to # NoState THEN step[r].to ELSE place[r]

Leaves == [r \in Region |-> IF IsOpen(r) THEN Moved(r) ELSE NoState]

IsDone == Par \in active /\ doneCount > 0

IsEnding == cancelled \/ life = "failed"

Promised ==
  INSTANCE ParallelState WITH leaf <- Leaves, done <- IsDone, ending <- IsEnding

\* On charts with independent regions, whatever is sent, dropped, read or
\* cancelled, every step is one of a parallel state's: one region takes a
\* transition of its innermost willing state, or all are found in final states
\* and the completion is announced, or the parallel state is left after that.
RefinesParallelState == Promised!Spec

\* The holder of doneEventsMu waits for the r.mu of a region that holds it and
\* waits for doneEventsMu.
LockCycle == awaited \in regions /\ pc[awaited] = "exiting"

\* The waits without a deadline: for doneEventsMu, for the r.mu of the region
\* that is read next, and of an action's SendEvent for regionMu while Start
\* waits for it behind a reader that has no deadline.
AwaitsDoneMu(a) ==
  /\ doneMu # Nobody
  /\ \/ pc[a] \in {"check", "claim"}
     \/ pc[a] = "exiting" /\ ExitedStates(step[a].from, step[a].to) # {}

AwaitsRegion(a) == pc[a] = "reading" /\ awaited \in regions /\ HoldsMu(awaited)

AwaitsRegionMu(a) ==
  /\ life = "cleaning" /\ pc[a] = "acting" /\ step[a].raise # NoEvent
  /\ \E r \in Region : pc[r] = "reading"

\* The reader waits for a region whose action waits, behind Start, for the
\* reader.
CleanupCycle == awaited \in regions /\ AwaitsRegionMu(awaited)

Waits(a) == AwaitsDoneMu(a) \/ AwaitsRegion(a) \/ AwaitsRegionMu(a)

WaitsFor(a) ==
  {b \in Actor : \/ AwaitsDoneMu(a) /\ b = doneMu
                 \/ AwaitsRegion(a) /\ b = awaited
                 \/ AwaitsRegionMu(a) /\ pc[b] = "reading"}

GoesOn(a) == ~Waits(a) /\ pc[a] \notin {"off", "idle", "ended"}

\* Unless the locks have been taken in one of the two circular orders, whoever
\* waits without a deadline waits for a goroutine that can go on, or for one
\* that waits for such a goroutine: nobody for itself, nobody in a circle, and
\* nobody for what no one will give back.
WaitsEnd ==
  ~LockCycle /\ ~CleanupCycle =>
    \A a \in Actor : Waits(a) =>
      \E b \in WaitsFor(a) : GoesOn(b) \/ \E c \in WaitsFor(b) : GoesOn(c)

\* Nobody sends to a region whose channel the cleanup has closed, which would
\* panic, although SendEvent looks at the map before it takes the lock it sends
\* under.
NoSendOnClosed ==
  regions = {} => \A o \in Sender : flight[o].left \cap Region = {}

Unfinished ==
  \/ life \in {"starting", "cleaning"}
  \/ \E o \in Sender : flight[o].left # {}
  \/ \E p \in State : dones[p] > 0
  \/ \E a \in Actor : pc[a] \notin {"off", "idle", "ended"}
  \/ cancelled /\ \E a \in Actor : pc[a] = "idle"

\* While a call of Start or SendEvent, a done event, a transition or, after a
\* cancellation, the end of a goroutine is outstanding, some goroutine can go
\* on, unless the locks have been taken in one of the two circular orders.
NeverStuck == Unfinished /\ ~LockCycle /\ ~CleanupCycle => ENABLED Goroutines

(***************************************************************************)
(* A statement of the documentation that the code does not keep.           *)
(***************************************************************************)

\* "Generate done events after releasing the lock to avoid deadlock".
NoLockCycle == ~ LockCycle

=============================================================================
