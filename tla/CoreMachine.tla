---------------------------- MODULE CoreMachine ----------------------------
(***************************************************************************)
(* The path-based machine of internal/core: Start, Stop, Send, Restore,    *)
(* the interpreter goroutine and the goroutine that persists and publishes *)
(* each transition, with the file of JSONPersister, and the crash of the   *)
(* process at any moment.                                                  *)
(*                                                                         *)
(* Grain of atomicity. Start, Restore and the two halves of processEvent   *)
(* hold m.mu; between the halves, and between the dequeuing of an event    *)
(* and the first, anything may happen. Stop looks at m.done and closes it  *)
(* in two steps. Save truncates the file and writes it in two steps.       *)
(***************************************************************************)
EXTENDS Integers, Sequences, FiniteSets

CONSTANTS
  Path,          \* the keys of stateCache: a path is a sequence of state ids
  Place,         \* every path a transition may name, and <<>>
  Initial,       \* the path of config.Initial
  InitialChild,  \* the path of a state's initial child, <<>> without one
  Transitions,   \* [Path -> sequences of transitions], state.On
  Event,
  NoEvent,
  Guard,         \* guards whose value the machine does not determine
  NoGuard,
  Cap,           \* capacity of the event queue (1000, or WithQueueSize)
  Stopper,       \* goroutines that call Stop
  MaxStarts,     \* bound: calls of Start in one process
  MaxSends,      \* bound: calls of Send, by clients and the event source
  MaxRestores,   \* bound: calls of Restore in one process
  MaxCrashes     \* bound: ends of the process

Interpreter == 1 .. MaxStarts

\* getAncestors: the path itself and the paths above it.
Prefixes(p) == {SubSeq(p, 1, n) : n \in 1 .. Len(p)}

\* Every step from p down to q goes to the initial child.
LeadsTo(p, q) ==
  /\ p \in Prefixes(q)
  /\ \A n \in Len(p) .. Len(q) - 1 : InitialChild[SubSeq(q, 1, n)] = SubSeq(q, 1, n + 1)

Transition == [event : Event, target : Place, guard : Guard \cup {NoGuard},
               priority : Int]

\* What Validate lets through: a finite tree, in which the descent through
\* initial children ends; targets may be empty, and those of states below the
\* top level are not looked up.
ASSUME ConfigAssumption ==
  /\ Place \subseteq Seq(STRING) /\ Path \subseteq Place \ {<<>>} /\ <<>> \in Place
  /\ \A p \in Path : Prefixes(p) \subseteq Path
  /\ Initial \in Path /\ Len(Initial) = 1
  /\ InitialChild \in [Path -> Path \cup {<<>>}]
  /\ \A p \in Path : InitialChild[p] # <<>> =>
       Len(InitialChild[p]) = Len(p) + 1 /\ p \in Prefixes(InitialChild[p])
  /\ \A p \in Path : \E q \in Path : LeadsTo(p, q) /\ InitialChild[q] = <<>>
  /\ Transitions \in [Path -> Seq(Transition)]
  /\ NoEvent \notin Event /\ NoGuard \notin Guard

ASSUME BoundAssumption ==
  /\ Cap \in Nat \ {0}
  /\ MaxStarts \in Nat /\ MaxSends \in Nat /\ MaxRestores \in Nat /\ MaxCrashes \in Nat

VARIABLES
  current,   \* m.current, <<>> when it holds no state
  queue,     \* m.eventQueue
  starts,    \* calls of Start that launched an interpreter
  done,      \* m.done is closed
  pc,        \* where each interpreter is
  event,     \* the event each interpreter has dequeued
  choice,    \* the transition each interpreter has selected
  stopping,  \* where each caller of Stop is
  dead,      \* the process has ended
  taken,     \* the snapshots taken, by all processes
  saving,    \* where the goroutine of each snapshot is
  file,      \* the snapshots whose bytes the persister's file holds, and Part
  sent, crashes,   \* for the bounds
  inside,    \* observed: states entered (by Start, without their actions) and not exited
  restored,  \* observed: restored before Start or after Stop, nothing applied since
  restores,  \* observed: calls of Restore in this process
  latest,    \* observed: the snapshot of the last change of current, else 0
  failed,    \* observed: the snapshots whose Save has returned an error
  alone,     \* observed: no save was in progress when the last snapshot was taken
  local      \* observed: every transition of this process was local

loops == <<starts, pc, event, choice>>
disk == <<taken, saving, file>>
bounds == <<sent, crashes>>
observed == <<restored, restores, latest, failed, alone, local>>
vars == <<current, queue, loops, done, stopping, dead, disk, bounds, inside, observed>>

NoChoice == [source |-> <<>>, target |-> <<>>]

\* What a write that stops short leaves in the file: no snapshot.
Part == 0

TypeOK ==
  /\ current \in Place /\ inside \subseteq Path
  /\ queue \in Seq(Event) /\ Len(queue) <= Cap
  /\ starts \in 0 .. MaxStarts
  /\ done \in BOOLEAN /\ dead \in BOOLEAN /\ alone \in BOOLEAN /\ local \in BOOLEAN
  /\ pc \in [Interpreter -> {"off", "idle", "dequeued", "selected", "ended"}]
  /\ event \in [Interpreter -> Event \cup {NoEvent}]
  /\ choice \in [Interpreter -> [source : Place, target : Place]]
  /\ stopping \in [Stopper -> {"idle", "checked", "returned"}]
  /\ taken \in Seq(Place)
  /\ saving \in [DOMAIN taken -> {"begun", "writing", "publishing", "ended"}]
  /\ file \subseteq DOMAIN taken \cup {Part} /\ failed \subseteq DOMAIN taken
  /\ sent \in 0 .. MaxSends /\ crashes \in 0 .. MaxCrashes
  /\ restored \in Place /\ restores \in 0 .. MaxRestores
  /\ latest \in {0} \cup DOMAIN taken

Init ==
  /\ current = <<>> /\ inside = {} /\ queue = <<>>
  /\ starts = 0 /\ done = FALSE /\ dead = FALSE
  /\ pc = [i \in Interpreter |-> "off"]
  /\ event = [i \in Interpreter |-> NoEvent]
  /\ choice = [i \in Interpreter |-> NoChoice]
  /\ stopping = [s \in Stopper |-> "idle"]
  /\ taken = <<>> /\ saving = [n \in {} |-> "ended"] /\ file = {}
  /\ sent = 0 /\ crashes = 0
  /\ restored = <<>> /\ restores = 0 /\ latest = 0 /\ local = TRUE
  /\ failed = {} /\ alone = TRUE

-----------------------------------------------------------------------------
(***************************************************************************)
(* Paths.                                                                  *)
(***************************************************************************)

\* Where the descent through initial children ends; a path that FindState does
\* not find is returned as it is.
ResolveInitialLeaf(p) ==
  IF p \notin Path THEN p
  ELSE CHOOSE q \in Path : LeadsTo(p, q) /\ InitialChild[q] = <<>>

\* The least common ancestor is "", and only the end of each path counts.
NothingInCommon(p, q) == Prefixes(p) \cap Prefixes(q) = {}

\* Faulty variant: the source itself is left out.
ExitStatesAbove(p, q) ==
  IF NothingInCommon(p, q) THEN {p} \cap Path ELSE Prefixes(p) \ (Prefixes(q) \cup {p})

ExitStates(p, q) ==
  IF NothingInCommon(p, q) THEN {p} \cap Path ELSE Prefixes(p) \ Prefixes(q)

EntryStates(p, q) ==
  IF NothingInCommon(p, q) THEN {q} \cap Path ELSE (Prefixes(q) \ Prefixes(p)) \cap Path

-----------------------------------------------------------------------------
(***************************************************************************)
(* Start, Restore, Send and Stop.                                          *)
(***************************************************************************)

\* Start activates the initial state and launches an interpreter every time;
\* once m.done is closed it does nothing.
Start ==
  /\ ~dead /\ ~done /\ starts < MaxStarts
  /\ starts' = starts + 1
  /\ current' = ResolveInitialLeaf(Initial)
  /\ inside' = inside \cup Prefixes(ResolveInitialLeaf(Initial))
  /\ pc' = [pc EXCEPT ![starts + 1] = "idle"]
  /\ latest' = 0
  /\ UNCHANGED <<queue, event, choice, done, stopping, dead, disk, bounds, restored,
                 restores, failed, alone, local>>

\* Load finds a snapshot in the file, and Restore takes it over.
Restore ==
  /\ ~dead /\ restores < MaxRestores
  /\ \E n \in DOMAIN taken :
       /\ file = {n}
       /\ current' = taken[n]
       /\ restored' = IF starts = 0 \/ done THEN taken[n] ELSE <<>>
  /\ restores' = restores + 1
  /\ latest' = 0
  /\ UNCHANGED <<queue, loops, done, stopping, dead, disk, bounds, inside, failed, alone,
                 local>>

\* Faulty variant: one event too many is accepted.
SendInclusive(e) ==
  /\ ~dead /\ sent < MaxSends
  /\ queue' = IF Len(queue) <= Cap THEN Append(queue, e) ELSE queue
  /\ sent' = sent + 1
  /\ UNCHANGED <<current, loops, done, stopping, dead, disk, crashes, inside, observed>>

\* Send, by a client or by the goroutine that reads the event source; a full
\* queue refuses the event.
Send(e) ==
  /\ ~dead /\ sent < MaxSends
  /\ queue' = IF Len(queue) < Cap THEN Append(queue, e) ELSE queue
  /\ sent' = sent + 1
  /\ UNCHANGED <<current, loops, done, stopping, dead, disk, crashes, inside, observed>>

\* Stop finds m.done closed, or goes on to close it.
StopChecks(s) ==
  /\ ~dead /\ stopping[s] = "idle"
  /\ stopping' = [stopping EXCEPT ![s] = IF done THEN "returned" ELSE "checked"]
  /\ UNCHANGED <<current, queue, loops, done, dead, disk, bounds, inside, observed>>

\* Faulty variant: the channel is forgotten.
StopClosesNothing(s) ==
  /\ ~dead /\ stopping[s] = "checked"
  /\ stopping' = [stopping EXCEPT ![s] = "returned"]
  /\ UNCHANGED <<current, queue, loops, done, dead, disk, bounds, inside, observed>>

StopCloses(s) ==
  /\ ~dead /\ stopping[s] = "checked" /\ ~done
  /\ stopping' = [stopping EXCEPT ![s] = "returned"]
  /\ done' = TRUE
  /\ UNCHANGED <<current, queue, loops, dead, disk, bounds, inside, observed>>

-----------------------------------------------------------------------------
(***************************************************************************)
(* The interpreter: interpret and processEvent.                            *)
(***************************************************************************)

Dequeue(i) ==
  /\ ~dead /\ pc[i] = "idle" /\ queue # <<>>
  /\ event' = [event EXCEPT ![i] = Head(queue)]
  /\ queue' = Tail(queue)
  /\ pc' = [pc EXCEPT ![i] = "dequeued"]
  /\ UNCHANGED <<current, starts, choice, done, stopping, dead, disk, bounds, inside, observed>>

\* The states whose transitions are looked at; none for an unknown path.
Sources(p) == IF p \in Path THEN Prefixes(p) ELSE {}

\* The transitions that answer to e while the guards in ok hold.
Candidates(e, ok) ==
  UNION {{[source |-> p, transition |-> Transitions[p][n]] :
            n \in {m \in DOMAIN Transitions[p] :
                     /\ Transitions[p][m].event = e
                     /\ Transitions[p][m].guard \in ok \cup {NoGuard}}} :
         p \in Sources(current)}

\* One of the highest priority; sort.Slice is not stable.
Selected(e, ok) ==
  {c \in Candidates(e, ok) :
     \A d \in Candidates(e, ok) : d.transition.priority <= c.transition.priority}

\* Faulty variant: an event nothing answers to is looked up again and again.
LookUpAgain(i) ==
  /\ ~dead /\ pc[i] = "dequeued"
  /\ \E ok \in SUBSET Guard : Selected(event[i], ok) = {}
  /\ UNCHANGED vars

Ignore(i) ==
  /\ ~dead /\ pc[i] = "dequeued"
  /\ \E ok \in SUBSET Guard : Selected(event[i], ok) = {}
  /\ pc' = [pc EXCEPT ![i] = "idle"]
  /\ event' = [event EXCEPT ![i] = NoEvent]
  /\ UNCHANGED <<current, queue, starts, choice, done, stopping, dead, disk, bounds, inside,
                 observed>>

\* The candidate search, under the read lock.
Select(i) ==
  /\ ~dead /\ pc[i] = "dequeued"
  /\ \E ok \in SUBSET Guard : \E c \in Selected(event[i], ok) :
       choice' = [choice EXCEPT ![i] = [source |-> c.source, target |-> c.transition.target]]
  /\ pc' = [pc EXCEPT ![i] = "selected"]
  /\ event' = [event EXCEPT ![i] = NoEvent]
  /\ UNCHANGED <<current, queue, starts, done, stopping, dead, disk, bounds, inside, observed>>

InProgress == {n \in DOMAIN taken : saving[n] \in {"begun", "writing"}}

\* From the source to the target within one tree, or between trees of one
\* state, every state on the way is exited and entered.
Local(p, q) ==
  /\ p = current /\ q \in Path /\ q = ResolveInitialLeaf(q)
  /\ NothingInCommon(p, q) => Len(p) = 1 /\ Len(q) = 1

\* The transition, under the write lock, whatever has happened to m.current;
\* then a snapshot, and a goroutine for it.
Apply(i) ==
  /\ ~dead /\ pc[i] = "selected"
  /\ \E p \in {choice[i].source}, q \in {choice[i].target} :
       /\ inside' = (inside \ ExitStates(p, q)) \cup EntryStates(p, q)
       /\ current' = ResolveInitialLeaf(q)
       /\ taken' = Append(taken, ResolveInitialLeaf(q))
       /\ local' = (local /\ Local(p, q))
  /\ saving' = [n \in DOMAIN taken' |-> IF n \in DOMAIN taken THEN saving[n] ELSE "begun"]
  /\ latest' = Len(taken) + 1
  /\ alone' = (InProgress = {})
  /\ pc' = [pc EXCEPT ![i] = "idle"]
  /\ choice' = [choice EXCEPT ![i] = NoChoice]
  /\ restored' = <<>>
  /\ UNCHANGED <<queue, starts, event, done, stopping, dead, file, bounds, restores,
                 failed>>

\* select takes the closed m.done, also with events waiting.
InterpreterEnds(i) ==
  /\ ~dead /\ pc[i] = "idle" /\ done
  /\ pc' = [pc EXCEPT ![i] = "ended"]
  /\ UNCHANGED <<current, queue, starts, event, choice, done, stopping, dead, disk, bounds,
                 inside, observed>>

-----------------------------------------------------------------------------
(***************************************************************************)
(* The goroutine of a snapshot: JSONPersister.Save, then Publish.          *)
(***************************************************************************)

\* Faulty variant: the file is opened without being truncated.
SaveOpensKeeps(n) ==
  /\ ~dead /\ saving[n] = "begun"
  /\ saving' = [saving EXCEPT ![n] = "writing"]
  /\ UNCHANGED <<current, queue, loops, done, stopping, dead, taken, file, bounds, inside,
                 observed>>

\* os.WriteFile truncates the file...
SaveOpens(n) ==
  /\ ~dead /\ saving[n] = "begun"
  /\ saving' = [saving EXCEPT ![n] = "writing"]
  /\ file' = {}
  /\ UNCHANGED <<current, queue, loops, done, stopping, dead, taken, bounds, inside, observed>>

\* ... and writes from its start: over what another save has written since,
\* which may have been longer.
SaveWrites(n) ==
  /\ ~dead /\ saving[n] = "writing"
  /\ saving' = [saving EXCEPT ![n] = "publishing"]
  /\ file' \in {{n}, file \cup {n}}
  /\ UNCHANGED <<current, queue, loops, done, stopping, dead, taken, bounds, inside, observed>>

\* Save returns an error, which nobody reads: the snapshot cannot be marshalled
\* (none can when the chart holds Go functions), the file cannot be opened, or the
\* write stops short.
SaveFails(n) ==
  /\ ~dead
  /\ \/ saving[n] = "begun" /\ file' = file
     \/ saving[n] = "writing" /\ file' \in {file, file \cup {Part}}
  /\ saving' = [saving EXCEPT ![n] = "publishing"]
  /\ failed' = failed \cup {n}
  /\ UNCHANGED <<current, queue, loops, done, stopping, dead, taken, bounds, inside,
                 restored, restores, latest, alone, local>>

\* Publish, whatever Save has returned, sends to a channel or drops.
Publish(n) ==
  /\ ~dead /\ saving[n] = "publishing"
  /\ saving' = [saving EXCEPT ![n] = "ended"]
  /\ UNCHANGED <<current, queue, loops, done, stopping, dead, taken, file, bounds, inside,
                 observed>>

-----------------------------------------------------------------------------
(***************************************************************************)
(* The end of the process, and a new one.                                  *)
(***************************************************************************)
Dies ==
  /\ dead' = TRUE
  /\ UNCHANGED <<current, queue, loops, done, stopping, disk, bounds, inside, observed>>

\* The second caller closes a closed channel, which panics.
StopPanics(s) == ~dead /\ stopping[s] = "checked" /\ done /\ Dies

Crash == ~dead /\ crashes < MaxCrashes /\ Dies

\* NewMachine in a new process; the file is what is left.
Restart ==
  /\ dead /\ crashes < MaxCrashes
  /\ crashes' = crashes + 1
  /\ current' = <<>> /\ inside' = {} /\ queue' = <<>>
  /\ starts' = 0 /\ done' = FALSE /\ dead' = FALSE
  /\ pc' = [i \in Interpreter |-> "off"]
  /\ event' = [i \in Interpreter |-> NoEvent]
  /\ choice' = [i \in Interpreter |-> NoChoice]
  /\ stopping' = [s \in Stopper |-> "idle"]
  /\ saving' = [n \in DOMAIN taken |-> "ended"]
  /\ restored' = <<>> /\ restores' = 0 /\ latest' = 0 /\ local' = TRUE
  /\ UNCHANGED <<taken, file, sent, failed, alone>>

-----------------------------------------------------------------------------
InterpreterStep(i) ==
  Dequeue(i) \/ Ignore(i) \/ Select(i) \/ Apply(i) \/ InterpreterEnds(i)

SaveStep(n) ==
  n \in DOMAIN taken /\ (SaveOpens(n) \/ SaveWrites(n) \/ SaveFails(n) \/ Publish(n))

StopStep(s) == StopCloses(s) \/ StopPanics(s)

Next ==
  \/ Start \/ Restore \/ Crash \/ Restart
  \/ \E e \in Event : Send(e)
  \/ \E s \in Stopper : StopChecks(s) \/ StopStep(s)
  \/ \E i \in Interpreter : InterpreterStep(i)
  \/ \E n \in 1 .. Len(taken) : SaveStep(n)

\* Goroutines that can go on do; nobody has to call anything.
Fairness ==
  /\ \A i \in Interpreter : WF_vars(InterpreterStep(i))
  /\ \A s \in Stopper : WF_vars(StopStep(s))

Spec == Init /\ [][Next]_vars

FairSpec == Spec /\ Fairness

-----------------------------------------------------------------------------
(***************************************************************************)
(* Properties.                                                             *)
(***************************************************************************)

\* Started once, never restored, and moved by local transitions only, the
\* machine has run the exit and entry actions that lead from one root path to
\* the next.
ConfigurationIsPath ==
  starts = 1 /\ restores = 0 /\ local => inside = Prefixes(current)

\* Whatever has become of earlier saves (failed, overlapping, cut short by a
\* crash): a snapshot taken while no save is in progress is, once its own Save
\* has returned no error, whole and alone in the file, and it is the machine's
\* state, until the next change, also when the process dies then.
SavedIsStored ==
  latest # 0 =>
    /\ taken[latest] = current
    /\ alone /\ saving[latest] \in {"publishing", "ended"} /\ latest \notin failed =>
         file = {latest}

\* Stop ends every interpreter of the process, with events waiting or not.
StopEnds ==
  \A s \in Stopper :
    stopping[s] = "returned" ~> dead \/ \A i \in Interpreter : pc[i] \in {"off", "ended"}

\* While an interpreter runs the queue empties again and again.
QueueDrains == starts > 0 ~> queue = <<>> \/ done \/ dead

(***************************************************************************)
(* A statement of the documentation that the code does not keep.           *)
(***************************************************************************)

\* "Call before Start() or on stopped machine", of Restore: what is restored then
\* stays until an event is processed.
RestoreIsKept == restored # <<>> => current = restored

=============================================================================
