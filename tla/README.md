# statechartx: a verification development

TLA+ modules, TLC configurations and TLAPS proofs for the statechart engine in
this repository. `src/` below is the repository; line numbers are those of the
commit the modules were read from. `PROJECT.json` holds the same facts in
tabular form: components, runs, the lines each definition translates, findings,
hazards and theorems.

## 1. The system

| Component | State | Operations | What it talks to |
|---|---|---|---|
| Chart (`statechart.go`: `State`, `Transition`, `Machine`) | the state tree, fixed after `NewMachine` | ancestor walk, least common ancestor, descent to the initial leaf, transition selection, completion walk | used by both runtimes |
| Event-driven runtime (`statechart.go`: `Runtime`) | `current`, `history`, `deepHistory`, `doneEventsPending`, the buffered `eventQueue`, the context, the mutex `mu` | `Start`, `Stop`, `SendEvent`, `IsInState`; the event loop goroutine with its macrosteps | clients (calls), actions and guards (callbacks that may call `SendEvent`), done-event goroutines |
| Parallel regions (`statechart.go`: `parallelRegion`) | one goroutine, one channel and one `currentState` per region; the map `parallelRegions` under `regionMu` | enter, exit, the region loop, routing of events, done event of the parallel state | the runtime, in both directions, under three kinds of locks |
| Tick-based runtime (`realtime/`) | event batch, internal queue, `inMacrostep`, region states, embedded `Runtime` | `Start`, `Stop`, `SendEvent`, `SendEventWithPriority`, the tick | clients; the embedded runtime through exported aliases and hooks |
| Core machine (`internal/core`) | `current` (leaf path), caches, queue, `done` channel | `Start`, `Stop`, `Send`, `Restore`, `processEvent` | persister, publisher, event source, guard and action runners (interfaces) |
| Machine configuration, extensibility, production (`internal/*`) | configuration values; files; channels | validate, find, save, load, publish | the core machine |
| Builder (`builder.go`) | name and ID maps, the growing tree | `State`, `On`, `Build` | produces a chart |
| Extended state (`context.go`, `internal/primitives/context.go`) | a concurrent map | get, set, snapshot, load | actions and guards |

Behaviours that are hard here, and hard to test:

* *Interleaving.* Clients, actions, done-event goroutines and the loop share one
  bounded queue; `Stop`, the owner's cancellation and a macrostep overlap. With
  parallel regions there is one more goroutine per region and a lock order.
* *Long sequences.* The configuration is never stored: exits are computed from
  `rt.current`, entries from the target. Whether the two always meet depends on
  every transition taken before.
* *Memory.* Histories are recorded at exits (shallow) and at entries (deep) and
  used much later, after the state was left by some other route.
* *Limits.* The queue of 100, the bound on microsteps, the 100 ms of a done
  event's delivery, the tick's batch.
* *Waiting.* A loop that sends to itself; `Stop` that waits for the loop.

What makes the components correct:

* chart: the least common ancestor is above both ends; descents end in a leaf;
* runtime: the active states are always exactly one root path; what is reported
  is active; restored histories are those last recorded and lie inside their
  state; a completion is announced once; a macrostep runs to completion; `Stop`
  returns and is final; nobody waits for ever;
* regions: each keeps its own path whatever the others do, the parallel state's
  completion is announced once and truly, nobody sends to a closed channel, and
  nobody waits for ever (the code has two orders of taking locks in which
  somebody does, section 5; there is no third);
* tick runtime: events of a tick are processed by priority and then in order of
  submission, raised events within the macrostep that raised them, nothing is
  lost below the capacity;
* core machine: the actions run follow the active path, a snapshot that was
  saved is the machine's state and whole in the file, `Stop` ends the
  interpreters;
* builder: every state that was named is in the chart that is built, which is
  one the runtimes can run;
* all of them: whatever queues, locks and goroutines do, the configuration moves
  as the configuration of a statechart does.

`hazards` in `PROJECT.json` lists the places where these can go wrong.

## 2. Modules

| Module | Models |
|---|---|
| `StateTree` | the state tree, the walks along its pointers, and what makes it a tree whose initial states lead to leaves |
| `Chart` | transitions, selection, completion and histories on such a tree: the pure algorithms of `statechart.go` (EXTENDS `StateTree`) |
| `Runtime` | the event-driven runtime on charts without parallel states (EXTENDS `Chart`) |
| `Selection` | which transitions a state may take, guards being free; shared by the abstract specifications |
| `Configuration` | the abstract statechart, instantiated by `Runtime` with a refinement mapping |
| `ParallelConfiguration` | the abstract statechart with a parallel state, instantiated by `TickRuntime` with a refinement mapping |
| `ParallelState` | what a parallel state promises of its regions, instantiated by `Regions` with a refinement mapping |
| `Regions` | the goroutines of one parallel state beside the event loop (EXTENDS `Chart`) |
| `TickRuntime` | the tick-based runtime of `realtime/` with the regions of one parallel state (EXTENDS `Chart`) |
| `CoreMachine` | the path-based machine of `internal/core` with the persister and the publisher it is given |
| `Builder` | `MachineBuilder` and the construction of a `Machine` (instantiates `StateTree` with what it builds) |
| `MCRuntimeHistory`, `MCRuntimeDone`, `MCRegions`, `MCTickRuntime`, `MCCoreMachine`, `MCBuilder` | charts, configurations and names for TLC |
| `ChartProofs`, `RuntimeProofs`, `RefinementProofs`, `TickProofs`, `RegionProofs`, `RegionPathProofs`, `CoreProofs`, `BuilderProofs` | lemmas, inductive invariants and theorems |

### StateTree and Chart

States, events and guards are abstract values. `NoState` is `StateID` 0, which
the code uses for a nil parent, a missing initial child and the target of an
internal transition. A transition carries the event its action sends to the
runtime (`raise`), the only effect of an action the runtime can notice.

Walks along `Parent` and `Initial` are recursive loops in Go. Here they are
least sets closed under the pointer (`Ancestors`, `InitialBelow`), a form a
proof can use without recursion: the least set is contained in every closed
set. `Lineage` holds all of them as one constant, so that TLC evaluates the
walk once per chart.

`PickTransition` is the first exact match whose guard passes, else the first
such wildcard; which guards pass is chosen anew at every selection, since a
guard is an arbitrary function of data the model does not have.

The assumptions are what `NewMachine` and the builder's `validate` establish
(one root, unique parents, no cycle, children are states: `IsTree`) together
with what a SCXML chart has: a compound state has an initial child which is its
child (`InitialsLead`), final states and pseudo-states are atomic, a history
default is a proper state. `IsTree` and `InitialsLead` are operators of
`StateTree`: `Chart` assumes them, and `Builder` promises them of the machines
it accepts. `findDeepestInitial` takes an arbitrary child when a compound state
has no initial one; the assumption excludes that case, and with it the error
branches of `restoreHistory`.

### Runtime

| Variable | In the code |
|---|---|
| `current`, `history`, `deepHistory`, `donePending`, `queue` | the fields of those names; of a deep history only the last element is ever read, so only that is kept |
| `life`, `cancelled`, `stop` | how far `Start` and the loop have come, whether `rt.ctx` is done, a client's call of `Stop` |
| `phase`, `step`, `micro` | what the holder of `rt.mu` is doing: nothing, between the two halves of a transition, or in the microstep loop, with the counter of that loop |
| `senders` | the goroutines `generateDoneEvent` has started |
| `active`, `lastConfig`, `doneCount` | observers, written but never read by an action: the states whose entry action ran without their exit action, what was active in a state when it was last left, and the done events generated since a state was entered |
| `sent` | events sent by clients, for the bound |

`rt.mu` is held for a whole macrostep, so the configuration has one writer; what
interleaves with it is the queue and the context. A transition is therefore two
actions. `TakeEvent` and `TakeEventless` select it, resolve a history target and
run the exits (`exitToLCA`). `FinishExternal`, `FinishInternal` and
`FinishInternalMicrostep` run the transition's action, which may send an event
and has to wait when the queue is full, and then the entries (`enterFromLCA`,
`enterInitialChildren`, `checkFinalState`). `Stable` and `MicrostepLimit` are
the two ways out of `processMicrosteps`. Errors of entry, exit and transition
actions are discarded by the code everywhere but in `Start` (`StartFails`).

A client's `SendEvent` that finds the queue full waits, which is no step. Its
`select` chooses at random among the ready cases, so an event may still enter
the queue after cancellation. `ProcessEventWithoutMicrosteps` and
`ProcessSingleMicrostep` repeat this code for the tick-based runtime and belong
to that component.

### Configuration

What a statechart promises, with nothing of how it is run: `configuration` is
empty before the start and then the path from the root to an initial leaf, and
`Fire` replaces it. The transition fired is one of an active state, tried in the
order of the source (exact matches before wildcards, inner states before outer
ones), a guard being true or false at will; `Left` are the states that do not
hold the target, and `memory` keeps what was active in a state when it was last
left, which is what shallow history restores. Deep history restores any proper
descendant here: what the code restores is too weak for more (finding 2).

`Runtime` instantiates it with its own chart. The mapping (`Configured`, empty
before `Start` and after a failed one) shows a transition as taken when its
exits have run, since from then on nothing can keep the target from being
entered; the queue, microsteps, goroutines, cancellation and `Stop` are
stuttering.

### ParallelConfiguration

The same promise where there is a parallel state: `configuration` is a path from
the root to a leaf and, when that leaf is the parallel state, one path within
each of its regions. `FireOutside` replaces all of it and opens or closes the
regions together, `FireInside` replaces the path of one region, and `Stop`
closes the regions. Inside a region only the leaf is asked, and an exact match
has no precedence over a wildcard (`FirstPossible`): so the code does it in
`realtime/parallel.go`, while outside the precedence of `Selection` holds.

`TickRuntime` instantiates it. The mapping (`Configured`) is empty before
`Start` and then consists of the path to `rt.current` and of the paths to the
regions' states (`Paths`). Batches, priorities, rounds, senders and cancellation
are stuttering. `EventID` becomes the events of the chart, since done events
never reach the machine here (section 5).

### TickRuntime

| Variable | In the code |
|---|---|
| `current` | `rt.current` of the embedded runtime |
| `region` | `parallelRegionStates`: the `currentState` of each region, `NoState` when it is not in the map |
| `batch`, `seq`, `internal` | `eventBatch` (a set; the sequence numbers order it), `sequenceNum`, `internalEventQueue` |
| `at`, `stage`, `round` | where the tick goroutine is: idle, in the batch, in its microsteps, or in a round of `processMacrostepToCompletion`; which macrostep that is (of `Start`, of phase 4 or of phase 5); the loop counter |
| `pending`, `inHand`, `todo` | locals of that goroutine: what is left of the collected events, the internal event being given to the regions and the regions still to get it |
| `routed` | clients between the two critical sections of `SendEvent` |
| `life`, `cancelled`, `stop` | `Start` and the tick loop, the tick context, a client's `Stop` |
| `active`, `handled` | observers: states entered and not exited, batched events processed |
| `sent` | events sent by clients, for the bound |

Only the tick goroutine touches the configuration, so one transition is one
step. Clients reach the batch and the internal queue, each behind its mutex, and
every critical section is a step of its own: `SendEvent` reads `inMacrostep` in
one and appends to the batch in another, and a macrostep may begin or end in
between. `inMacrostep` itself is a function of `at`.

The embedded runtime executes the transitions (`Execute`, `Move`): exits from
`rt.current` to the least common ancestor, entries down to the target or to the
first parallel state on the way, where `enterFromLCA` hands over to the hook and
returns before it has set `rt.current`. The hook opens all regions in their
initial leaves and wraps the parallel state's exit action, which closes them.
Regions take transitions of their current state only (`RegionTransition`), exit
their whole path and enter from the target down.

Phase 5 (`processParallelRegionsSequentially`) runs a second macrostep under
`regionMu.RLock`. A transition that enters or exits the parallel state in it
needs the lock for writing: `Blocks`, after which the goroutine is `stuck`. The
regions' own queues, which phase 5 would empty first, are never filled by any
code, so an event from the batch reaches the embedded runtime alone.

Assumptions beyond those of `Chart`: at most one parallel state (with several,
Go's map order decides between them), no history pseudo-states, and no
transition of a region to the parallel state that holds it.

### Regions

| Variable | In the code |
|---|---|
| `life`, `cancelled`, `stopped` | how far `Start` has come (`cleaning` in `cleanupParallelRegions` when the entry context ended first, then `failed`), whether `rt.ctx` is done, whether a `Stop` has returned |
| `regions` | the keys of `rt.parallelRegions` |
| `current`, `place` | `rt.current`, and each region's `currentState` |
| `mailbox` | `region.events` of each region and `rt.eventQueue` of the loop |
| `pc`, `step` | where each goroutine is, and in which transition |
| `doneMu`, `unread`, `awaited` | who keeps `doneEventsMu` across several steps, which regions it still has to read, and which of them it reads next |
| `donePending`, `dones` | `doneEventsPending`, and the done-event goroutines not yet sending |
| `flight` | for everybody inside `SendEvent`: the event and the channels it still has to reach |
| `active`, `doneCount` | observers: states entered and not exited, done events of the parallel state since its entry |
| `sent` | events sent by clients, for the bound |

A region is one goroutine with one channel. It holds `r.mu` from the event it
takes until it has entered the target; in between every exited state needs
`doneEventsMu`, and an action that sends waits for room. `generateDoneEvent`
keeps `doneEventsMu`, and then `regionMu` for reading, while it reads the
regions one by one under their `r.mu` (`Claim`, `BeginReading`, `ReadFinal`,
`ReadLast`, `ReadUnfinished`). These waits are steps of their own; what a
goroutine does between two of them is one step. `rt.current` is written by the
loop and by every region without a common lock. The loop reads it for the
selection, for what the transition leaves and for `checkFinalState` (lines 1059,
1086 and 1388), and may find another value each time (`LoopReads`).

`regionMu` is a readers-writer lock, and Go's lets no reader in while a writer
waits. Its writers beside a running region are `cleanupParallelRegions` alone:
when the context of `Start` ends first, `StartGivesUp` is the call of `Lock`
(line 654), and `CleanUp` the moment in which the last reader has gone. In
between nobody who needs the lock for reading goes on: a client, a done event,
an action that sends, a region that begins to read. Who had decided for the
regions before it got the lock finds an empty map afterwards (`Routes`).

`SendEvent` decides between the queue and the regions first and sends then
(`Route`, `flight`), to one region after the other in any order; a full channel
delays it until a deadline drops the event and the rest of the broadcast
(`GiveUp`). The time-outs are nondeterministic: any wait at a full channel may
end. `Cancel` may happen at any moment after `Start` was called; a region whose
context is done ends when its `select` picks it, and exits its states (`Leave`).
`StopReturns` waits for the loop only, as `rt.wg` does.

Assumptions: one parallel state, entered by `Start` (an event transition into it
leaves `rt.current` behind, see section 5); targets are atomic; no eventless
transitions (the goroutine-based regions do not process them); a final state
sits below a region's root, not in its place. `RegionLocal` is the hypothesis of
the two configuration properties and of the refinement: a region's transitions
stay in the region and answer to no event the root queue can hold, and the
parallel state is left by its done event only. On other charts a transition of
the parallel state is taken by every region that receives the event.

### ParallelState

What all these goroutines come to: three variables, `leaf` (where each region
is, `NoState` while it is closed), `done` and `ending`. All regions are entered
together in their initial leaves (`Enter`); an open region moves by a transition
which a state of its path has and no state inside that one had to take first
(`Fire`); when all open regions are in final states the completion is announced
(`Complete`), and only then is the parallel state left, all regions at once
(`Leave`); the end of the runtime closes regions one by one (`Close`) or
together (`Stop`).

`Regions` maps to it as follows. A region is open from the moment the map is
filled until its goroutine has ended or the parallel state is left (`IsOpen`);
it has moved when its exits have run (`Moved`): from then on nothing can prevent
the entry, and `clearDoneEvent`, which the exits need, is what a reader of the
regions excludes. `done` is an announced completion of this stay (`IsDone`), and
`ending` a cancelled context or a failed `Start` (`IsEnding`). Everything about
channels, locks, deadlines and the search for a completion is then a stutter;
that the reading of the regions one by one is one `Complete` is the point at
which the implementation could fail, and `ReadLastAny` is a mutant that does.
What `ParallelState` leaves open is which guards hold, and when `Stop` runs.

### CoreMachine

| Variable | In the code |
|---|---|
| `current`, `queue` | `m.current` (a path, `<<>>` for no state), `m.eventQueue` |
| `starts`, `pc`, `event`, `choice` | interpreters launched by `Start`, where each is, the event it has dequeued, the transition it has selected |
| `done`, `stopping` | `m.done` is closed; where each caller of `Stop` is |
| `taken`, `saving`, `file` | every snapshot, where its goroutine is (opened, written, published), and what the bytes of the persister's file come from: nothing when truncated, several snapshots when torn, `Part` of one when a write stopped short |
| `dead`, `crashes` | the process has ended, and how often |
| `inside`, `restored`, `restores`, `latest`, `failed`, `alone`, `local` | observers: states entered and not exited, a restore not yet used, the number of restores, the snapshot of the last change, the snapshots whose save returned an error, whether no save was in progress when the last snapshot was taken, whether every transition was local |
| `sent` | for the bound |

`processEvent` selects under a read lock (`Select`) and applies under a later
write lock (`Apply`); `Start`, `Restore` and another interpreter may come
between, and `Apply` carries the transition out all the same. `Stop` looks at
`m.done` and closes it in two steps, so two callers may both close it: the panic
(`StopPanics`) ends the process. `JSONPersister.Save` truncates the file
(`SaveOpens`) and writes it (`SaveWrites`), in a goroutine per transition, next
to other saves; a write may come over bytes of another one. `SaveFails` is its
error path: the snapshot cannot be marshalled (which is so for every chart whose
guards or actions are Go functions), the file cannot be opened, or the write
stops short. The code drops the error and publishes (`Publish`). A `Crash` ends
the process anywhere, and `Restart` makes a new machine that finds the file.
`computeLCA` compares whole paths, so between two trees only the ends of the
paths are exited and entered (`NothingInCommon`): `Local` names the transitions
for which that is right.

### Builder

Names are sequences of segments; `created`, `parent`, `initial`, `parallel` and
`targets` are the builder's map of states and the fields it fills in. The
actions stand for methods: `DeclareState` for `State`, which creates a missing
parent itself, and links it to its own parent only when that exists already;
`DeclareParallel` for `Parallel`; `Compound` and `On` (with `OnInternal`) for
the methods of these names. They come in any order, on declared states. `Build`
is `validate`, the table of the states met below the root (`Machine`, a least
set as the walks of `Chart` are), and the descent through initial states, which
may fail to end (`result = "endless"`: `findDeepestInitial` has no bound).
`topDown` observes whether every state was declared after the states above its
parent.

## 3. Runs

| Run | Chart and bounds | Shows |
|---|---|---|
| `history` | `MCRuntimeHistory`: three levels, a shallow and a deep history, guarded and unguarded eventless transitions; queue of 2, 3 microsteps, 4 events sent, `Stop` may overlap `Start` | the configuration is one root path (`StableConfiguration`), shallow history is faithful, recorded histories stay inside their state, macrosteps run to completion, `Stop` returns, a loop that starts after an overlapping `Stop` has returned ends (`LateLoopEnds`), and the runtime implements `Configuration` (`RefinesConfiguration`) |
| `done` | `MCRuntimeDone`: two final children, a cascade of completions, actions that send, an eventless internal loop; queue of 2, 2 microsteps, 3 events sent | each completion is announced once, done-event goroutines end, nothing changes after `Stop`, `Stop` returns even from a loop blocked on its own queue, and a full queue stays full in a running runtime only while the loop's own action waits for room in it (`QueueGetsRoom`), which does happen on this chart |
| `tick` | `MCTickRuntime` outside the parallel state; a batch of 2, one priority besides 0, 3 rounds, one client inside `SendEvent`, 2 events | `Stop` returns, and what the batch accepted is processed unless the runtime is stopped |
| `tick_parallel` | the whole chart, starting in the parallel state; the same bounds with 3 events | every accepted event is processed once (`HandledOnce`) and in order (`BatchOrder`), a tick runs to completion (`TickCompletes`), no state and no region is left behind (`TickConfiguration`, `RegionsFollowParallel`), and the runtime implements `ParallelConfiguration` (`RefinesParallel`); 230 000 states, about two minutes |
| `regions` | `MCRegions`: two regions that finish on the same broadcast, one of which starts again on its own done event, the other sends from an action; channels of 1, one client, one event | each region holds exactly its own path (`RegionConfiguration`), `IsInState` is exact between transitions, the parallel state's completion is announced once and in a moment in which it is true (`ParallelDoneOnce`, `DoneIsTrue`), nobody sends to a region whose channel the cleanup has closed (`NoSendOnClosed`), nobody is stuck (`NeverStuck`) and every wait without a deadline ends at a goroutine that can go on (`WaitsEnd`) unless the locks were taken in one of two circular orders, and the goroutines implement `ParallelState` (`RefinesParallelState`); 860 000 states, two to three minutes |
| `core` | `MCCoreMachine`: a tree of three levels beside an atomic state, several handlers of one event with priorities and a guard, an empty target and an unknown one; queue of 1, two calls of `Start`, two callers of `Stop`, 2 events, one `Restore`, one crash, any save failing | the actions follow the path (`ConfigurationIsPath`), a snapshot saved without an error by a save that overlaps no other is the machine's state and whole in the file, whatever earlier saves left there (`SavedIsStored`), `Stop` ends the interpreters, the queue drains; 580 000 states, about two minutes |
| `builder` | `MCBuilder`: five names of three levels, up to five calls in any order, any initial state of the root; the largest run (780 000 states, about two minutes) | what `Build` accepts is a chart as `Chart` assumes it when it was declared from the top down (`AcceptedIsChart`), and `Build` returns when initial states are children (`BuildReturns`) |
| `orphans`, `deep_history`, `tick_stop`, `regions_deadlock`, `core_restore` | the charts above, the first with an eventless transition to a compound state, the second with other ways into and out of the state with the deep history | each refutes one statement of the documentation, see section 5 |

The queue of 2 is the smallest in which an event can be overtaken and which
fills up with one client event and one done event. Two and three microsteps let
a chain end below the bound and run into it. Four events enter a state with
histories, move inside it, leave it and return through a pseudo-state; three
events, with the done events they cause, complete `job`, leave it through `wrap`
and complete it again.
In the tick-based runtime a batch of 2 fills up and refuses an event; two events
and two priorities let a later event overtake an earlier one, and a third is
accepted after them by another tick. Three rounds are what the chart needs to
leave the parallel state, enter it again and hit the bound. The liveness run
leaves the parallel state out because a transition in phase 5 may block for ever
(finding 3).
Among the regions one broadcast brings both to their final states while the
client, an action and three done-event goroutines send into channels of one
place: channels fill up, deadlines pass and the two regions read each other.
Two starts give the core machine two interpreters, between whose selection and
application a `Restore` or each other's transition can fall; two events are two
snapshots, whose saves overlap or of which the second comes after a failed or
torn first one, and one crash leaves a file for the next process.
Five calls of the builder declare a state before its grandparent, name initial
states and close a circle of them.
`CHECK_DEADLOCK` is off since the systems do stop: clients may send no more,
the loop may have ended, the machine has been built.

`SendEvent`, `Stop`, `Restore`, crashes and cancellation are never forced to
happen. Fairness is assumed where Go's scheduler provides it: a goroutine that
can run does run (weak fairness of `StartLoop`, `Macrostep`, `Senders`,
`StopReturns`), and the `select` of the loop chooses uniformly among ready
cases, so that it cannot prefer events to the closed `Done` channel for ever
(strong fairness of `LoopExits`). In `TickRuntime` the ticker fires again and
again and the goroutine runs its tick (weak fairness of `Tick`), a client inside
`SendEvent` goes on, and the loop's `select` between the ticker and the closed
context is the same case. In `CoreMachine` every interpreter and every caller of
`Stop` goes on while it can (weak fairness of `InterpreterStep(i)` and of
`StopStep(s)`); the number of events is bounded, so an interpreter that prefers
them to `m.done` runs out of them. `Regions` assumes none: `NeverStuck` is an
invariant that says some goroutine can go on (the next-state relation of the
goroutines is `ENABLED`) while anything is outstanding, and `WaitsEnd` one that
says it of each wait that no deadline ends. These waits are for `doneEventsMu`,
for the lock of the region that is read next, and of an action's `SendEvent` for
`regionMu` while `Start` waits for it as a writer: the waiter waits for a
goroutine that can take its next step, or for one that waits for such a
goroutine.

Hypotheses of the properties. `StableConfiguration`, `ShallowHistoryFaithful`,
`RunToCompletion` and `RefinesConfiguration` are about charts whose eventless
transitions go to atomic states (`EventlessTargetsAtomic`): for others the code
breaks them, which is finding 1, and `ReportedIsActive` states what remains.
`StopIsFinal` is claimed when no client calls `Stop` inside `Start`: otherwise
`rt.wg.Wait` can return before the loop is added. `TickConfiguration` and
`RegionsFollowParallel` are about charts (`CurrentIsLeaf`, `RegionsStay`) in
which eventless transitions go to atomic states or to the parallel state, no
event leads into it, and a region's transitions stay in the region: for the
others finding 1 applies here too, and `rt.current` stays behind (section 5).
`RefinesParallel` is claimed for the same charts: the chart of its run is one of
them, and its theorem has them as hypotheses. `TickConfiguration` does not say
that whole paths are active: `Start` enters the initial leaf only, and a
region's transition does not enter the region's root again.
`RegionConfiguration` and `IsInStateExact` are about charts with independent
regions (`RegionLocal`), and `RefinesParallelState` is claimed for them: the
chart of its run is one, and its theorem has `RegionLocal` as hypothesis.
`NeverStuck` and `WaitsEnd` except the states in which the locks have been taken
in one of the two circular orders of section 5 (`LockCycle`, finding 4, and
`CleanupCycle`). `ConfigurationIsPath` excludes what the code does not guard
against: a second `Start`, a `Restore` behind the interpreter's back,
transitions that are not local. `SavedIsStored` is about a snapshot taken while
no save is in progress, and `AcceptedIsChart` about states declared from the top
down. `LateLoopEnds` says what remains of `StopIsFinal` when `Stop` overlaps
`Start`. `QueueGetsRoom` leaves out one case, an action of the loop that waits
for room in the loop's own queue (section 5): the property says that nothing
else keeps a full queue full.

Every property also has a mutant: one mapped definition replaced by a variant
with a plausible mistake (the operators marked "Faulty variant"),
under which TLC finds the property violated.

## 4. Proofs

`ChartProofs` proves about the walks: `Ancestors` unfolds one parent at a time,
is closed and transitive; a nonempty set of states on one root path has an
innermost member (`InnermostExists`), hence `LeastCommonAncestor`: the ancestors
of `computeLCA` of two states are exactly the ancestors they share, so that a
transition exits and enters nothing that holds both its ends. The initial
descent ends in a leaf below its start which is no pseudo-state. What the loops
over the transitions pick is what `Selection` allows (`PickedIsPromised`),
whichever guards hold; all three refinements use it.

`RuntimeProofs` proves, for every chart, every set of guards and every bound
that satisfy the assumptions:

| Theorem | Inductive invariant |
|---|---|
| `TypeCorrect` | `TypeInv`: the types, and that neither `rt.current` nor a record is a pseudo-state. Without the latter a restored history could lead to a pseudo-state, whose parent need not be on any path |
| `ReportedIsActiveCorrect` | `ReportedInv`: between the halves of a transition at least the path to the least common ancestor is active |
| `StableConfigurationCorrect` | `ConfigInv`: outside a transition the active states are the path to `rt.current`, an atomic state; inside one they are exactly the path to the least common ancestor |
| `RunToCompletionCorrect` | `SettledInv` with `ConfigInv`: a macrostep that ended below the bound asked the whole path of `rt.current`, which between macrosteps is all that is active |
| `HistoryWithinCorrect` | itself with `TypeInv` |
| `DoneExactlyOnceCorrect` | `DoneInv`: the pending flag of a state equals the number of its done events, and a final leaf has set the flags of all its `DoneParents` |
| `ShallowHistoryFaithfulCorrect` | `ShallowInv` with `ConfigInv`: the child recorded at an exit is the one on the active path |
| `NoOrphansCorrect` | from `StableConfiguration`: the orphans of finding 1 need an eventless transition to a compound state or to a history |
| `StopIsFinalCorrect` | `LifeInv`: no macrostep outside the life of the loop, and `Stop` returned means the loop is gone |

`RefinementProofs` proves `RefinesConfigurationCorrect`: the initial states of
`Runtime` map to that of `Configuration` and every step to a step or a stutter,
for every chart with `EventlessTargetsAtomic`. The argument needs
`RefinementInv`: the invariants above, that `rt.current` is where `NewMachine`
left it until `Start` (`Untouched`), and that a state which has a history record
has something to restore (`Remembered`). One lemma each shows that the exited
states are the abstract ones, that the transition picked is the one the
innermost willing state tries first, and that a resolved history target is one
of the abstract targets.

`TickProofs` proves about the tick-based runtime, again for every chart, set of
guards, batch capacity and number of senders:

| Theorem | Inductive invariant |
|---|---|
| `TickTypeCorrect` | `TypeInv`: the types, a finite batch, regions that exist together or not at all, a round below the bound inside a round, and no tick before `Start` or after the loop's exit |
| `HandledOnceCorrect`, `BatchOrderCorrect` | `OrderInv`: the sequence numbers name the accepted events without gaps; what is in the batch was accepted after what was collected, and what is collected after what was processed of its priority; nothing is pending outside phases 1 to 3. A step accepts at most one event (`AcceptStep`) and processes at most one (`HandleStep`), and `StepKeepsOrder` shows that both together keep the order |
| `TickCompletesCorrect` | `CompletedInv`: once a macrostep saw the internal queue empty it holds clients' events only, and one that ended below the bound asked the whole path of `rt.current` and every region. It rests on `NothingPicked`: no transition is selected only if no state on the path has a match |
| `RegionsFollowParallelCorrect`, `TickConfigurationCorrect` | `FollowInv`: `PlaceInv` (`rt.current` is never inside a region; a region exists exactly while the parallel state is above or at `rt.current`, and its state lies in it) and `ActiveInv`. A transition either stays clear of the parallel state, enters it or leaves it (`MoveOutside`, `MoveIntoParallel`), or is a region's own (`ExecuteInRegionKeepsPlace`) |
| `RefinesParallelCorrect` | `FollowInv` again, which therefore holds until `Stop` has returned and not only while the loop runs. The three lemmas about a transition also say what the paths are afterwards; `OutsideFires` and `InsideFires` turn that into the abstract `FireOutside` and `FireInside`, `StartEnters` and `StopCloses` are the ends. `RegionPathsApart` is what keeps the other regions' paths when one region moves |
| `KeptNeverBlocks` | `KeptInv`: while the goroutine holds `regionMu` for reading, `rt.current` is the parallel state. So the block of finding 3 needs a transition with a target at the parallel state or above it |

`RegionProofs` and `RegionPathProofs` prove about the goroutines of the regions,
for every chart, number of regions, clients and channel capacity:

| Theorem | Inductive invariant |
|---|---|
| `RegionTypeCorrect` | `TypeInv`: the types, and that whatever is on its way is an event and every transition has its ends |
| `RegionDoneIsTrue` | `LockInv` with `PlaceInv`: the holder of `doneEventsMu` is the reading region, the parallel state is not announced meanwhile, and a region already read is in a final state and not about to leave it, because leaving takes `doneEventsMu` for the exits |
| `NoSendOnClosedCorrect` | itself with `TypeInv`: the map is emptied when nobody has a region left to send to, and whoever gets `regionMu` later decides by the empty map |
| `RegionDoneOnce` | `NotMissed` with `LockInv` and `InsideInv`: when all regions rest in final states, the last of them to become final has read all the others |
| `RegionConfigurationCorrect`, `IsInStateExactCorrect` | `PathInv` with `RouteInv`: which events can be in which channel, hence that a region's transitions are its own and the loop's lead out (`OwnInv`, `LoopInv`); what each region holds in each of its phases (`HoldsInv`), and what lies outside the regions (`OuterInv`) |
| `EveryWaitEnds` | `DoneInv` (types, `PlaceInv`, `LockInv`): `doneEventsMu` is kept across steps by the region that reads, and a region that waits behind `Start`'s cleanup waits for that one. It goes on or waits for a region that holds its own lock, which outside the two circular orders waits for neither `doneEventsMu` nor `regionMu` |
| `UnfinishedCanGoOn` | `WaitInv`: in addition, who keeps `doneEventsMu` has a region left to read (`ReaderInv`), and an action that sends to the root queue, which has no deadline, is one of a region whose context has ended (`QueueInv`). What only a region's goroutine does, the loop never does (`RegionOnly`), nor the other way round (`LoopOnly`). It is `NeverStuck` with the conditions of the steps written out (`SomeoneCan`) instead of `ENABLED` |
| `RefinesParallelStateCorrect` | `KeepInv` (types, `PlaceInv`, `RouteInv`, `PathInv`) and `LockInv` with two more. `TakenInv`: the target a region heads for is that of a transition which a state of its path has, and no state inside that one had to take first (`RegionTakes`, by `PickedIsPromised`). `StayInv`: while the parallel state is active its done event is on its way, or the loop has taken a transition, only if its completion was announced (`LoopTakesDone`), and before the regions are spawned nothing has been. `RegionFires`, `LastMaps`, `SpawnMaps` and `LeaveMaps` are the steps that can be seen; the others leave the mapped variables alone (`Unseen`, `Outside`) |

`CoreProofs` proves, for every configuration and every number of starts,
callers, events, restores and crashes, `CoreTypeCorrect`,
`ConfigurationIsPathCorrect` and `SavedIsStoredCorrect`. The second needs
`PathInv`, that what is entered is the path whenever the hypotheses hold, and
`LoopInv`: interpreters are launched in their order, so with one start there is
one, and then, without a `Restore`, nobody else writes `m.current`, so a
selected transition's source is still on the path when it is applied. The third
needs `FileInv`: when no save was in progress as the last snapshot was taken,
none but its own is until the next change, and that one, having truncated it,
writes into an empty file.

`BuilderProofs` proves `BuilderTypeCorrect`, `BuildReturnsCorrect` and
`AcceptedIsChartCorrect` for every set of names, infinite ones included, and any
number of calls. The inductive invariant says that a state is linked to the
parent its name tells or to none (`ParentInv`), that declared from the top down
everything above a state exists and is linked (`TreeInv`), that the declared
names have a greatest depth (`DepthInv`), and what `Build` saw (`ResultInv`).
That no state is missing is an argument by the least depth of a missing state;
that a descent ends, by the greatest depth it visits. What is accepted is a tree
(`MachineIsTree`) whose descents end (`MachineDescends`) in the sense of
`StateTree`: such a machine meets the assumptions about the tree from which the
theorems about the runtimes start.

Each rests on the named assumptions of its modules, which TLC evaluates on the
instances of the runs; in `Runtime` `NonParallelAssumption` confines them to
charts without parallel states. The proofs have one step per action of `Next`.

Only model-checked: the liveness properties `StopTerminates`, `LateLoopEnds`,
`QueueGetsRoom`, `SendersEnd`, `TickStopTerminates`, `EventuallyHandled`,
`StopEnds` and `QueueDrains`, which need fairness, and `NeverStuck`, which needs
`ENABLED`; of the latter `UnfinishedCanGoOn` proves what can be said without it.
Every other property of the passing runs is a theorem.

## 5. Where code and documentation disagree

1. `orphans`: after an eventless transition to a compound state
   `processMicrosteps` (`statechart.go:1204`) puts `rt.current` back to the
   target, above the leaf that was entered. The leaf is neither reported nor
   exited by the next transition. The comment at line 1122 takes `rt.current`
   for the deepest entered state. On every other chart it is
   (`NoOrphansCorrect`).
2. `deep_history`: deep history is recorded on entry, with the explicit target,
   before the initial children are entered (line 1328). A leaf reached through
   initial children is not recorded, and returning through the deep history
   restores an older record, or enters its default as in the run's trace,
   against README_CORE.md:333. `Start` records nothing either, by the same line.
3. `tick_stop`: phase 5 holds `regionMu` for reading (`realtime/tick.go:69`)
   while a transition out of the parallel state locks it for writing
   (`realtime/parallel.go:156`) on the same goroutine. The tick never ends, and
   `Stop` waits for it for ever. A chart whose parallel state and the states
   above it have no transition with a target is safe (`KeptNeverBlocks`).
4. `regions_deadlock`: `generateDoneEvent` keeps `doneEventsMu`
   (`statechart.go:1422-1436`) while it takes the lock of every region (1497); a
   region in a transition holds its lock and takes `doneEventsMu` for every
   state it exits (1267, 1511). The comment at line 792 takes the other lock,
   which is released, for the danger.
5. `core_restore`: `Start` (`internal/core/machine.go:141`) puts the machine
   into its initial state whatever it holds, and returns at once on a stopped
   machine (124-126). The comment on `Restore` (347) asks for it to be called
   before `Start` or on a stopped machine.

Met while reading, without a run of their own:

* Event-driven runtime. The microstep bound is silent (lines 1212-1213) where
  README_CORE.md:382 and 423 speak of an error. `IsInState` answers yes for
  states a failed `Start` never entered. External and internal events share one
  FIFO channel, where the comment at line 921 gives internal ones priority.
  `SendEvent` (934) waits on a full queue where its comment (922) promises
  `ErrEventQueueFull`; from an action this stops the loop until the context is
  cancelled. An event transition into a parallel state opens the regions and
  leaves `rt.current` at its source (1304), in the tick-based runtime as well.
* Regions. There is a second order of locks in which all wait for ever
  (`CleanupCycle`): a region that generates the done event holds `doneEventsMu`
  and `regionMu` for reading (1488) and waits for the lock of another region
  (1497), whose action's `SendEvent` waits for `regionMu` (925) behind the
  `Lock` of a `Start` that gives up (654), which waits for the first region.
  That `Start` holds `rt.mu`, so `Stop` waits as well. No document says that
  this cannot happen. `Stop` does not wait for the regions (904, against 897 and
  907): `rt.wg` counts the loop. They stay in the map when the parallel state is
  left, and events go on being routed to them. A transition of the parallel
  state is taken by every region that gets the event. Eventless transitions are
  not processed in them, and deep history is recorded from `rt.current`, whoever
  wrote it last. `IsInState` called from a region's action waits for that
  region's own lock. A nested parallel state runs the exit action of a region's
  state twice (592-672 and 867-872).
* Tick-based runtime. `GetCurrentState` can be read in the middle of a tick,
  done events go to the embedded runtime's queue, which no loop reads, and
  events raised while the batch is processed wait for the next tick. An event
  sent while a macrostep runs goes to the internal queue whoever sends it
  (`realtime/parallel.go:700`), and overtakes an earlier one of the same client
  in the batch; event.go:32 promises submission order for one source.
* Core machine. Candidates are ordered by priority alone, by an unstable sort
  over ancestors from the outermost, where ARCHITECTURE.md:690 speaks of the
  innermost state first; the entry actions stop at the target and those of the
  initial state are not run at all. A transition selected before a `Restore` or
  another interpreter's transition is applied after it (207). The error of
  `Save` is dropped and the transition published (285-289); `json.MarshalIndent`
  (`internal/production/persister.go:32`) fails for every chart whose guards or
  actions are Go functions, so such a chart is never stored. `Start` is called
  idempotent (113) and launches a second interpreter; `Stop` is called safe to
  call several times (334), which two callers at once refute by a panic. Targets
  of nested states are not validated, and an empty one leaves the machine in no
  state. A crash or two overlapping saves leave a truncated or torn snapshot.
* Builder. A state declared before its grandparent is left out of the machine,
  with transitions to it accepted (`builder.go:79`). An initial state need not
  be a child, in which case `Build` may run for ever. Default targets of
  histories are not validated. A transition to the root has target 0, which is
  an internal one.

## 6. Plan

Done: the chart, the event-driven and the tick-based runtime and the goroutines
of the regions on one level, each proved to implement its abstract
specification, the core machine with its persister, the builder, proved to build
what the runtimes assume. What remains, in this order:

1. `RegionExit`: a parallel state nested in a region, with `exitParallelState`
   and its waiter, the lock `regionMu` and the time-out of the exit.
2. Regions entered by a transition, and histories inside regions.
3. `TickRuntime` with several parallel states and history.
4. Liveness of the regions outside the lock cycle, under the fairness of the
   scheduler.

## 7. Not modelled

Nested parallel states (`exitParallelState`, `statechart.go:592-672`), and in
`Regions` also history, eventless transitions, a region's panic and a parallel
state that is entered again. The extended state (`context.go`,
`internal/primitives/context.go`) is a concurrent map whose content belongs to
the actions; what a bulk operation beside a writer leaves behind is said by no
document. `HistoryManager` is used by nothing but its test. The fluent
construction of a core configuration and `Validate` are data construction in one
call; what they establish is `ConfigAssumption`. The builder's `History`,
`Final`, `Entry`, `Exit` and `InitialAction` set fields that no step of `Build`
reads. The visualizer, commands, examples and benchmarks hold no state the
properties are about. Within `Runtime`: `InitialAction`, event data and
addresses (only regions read the address), a transition to a state that does not
exist, custom hooks, and panics. Within `TickRuntime` also: done events,
recovery from a panic in a tick, a second `Start`, and a `Stop` before `Start`
(which waits for a loop that does not exist). Within `CoreMachine`: errors of
`Load` and of making the directory, closing the publisher's channel, and actions
that call the machine.
