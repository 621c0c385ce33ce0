----------------------------- MODULE CoreProofs -----------------------------
(***************************************************************************)
(* What holds of the core machine for every chart, queue capacity, number  *)
(* of interpreters and of callers of Stop.                                 *)
(***************************************************************************)
EXTENDS CoreMachine, TLAPS

\* What Next does, without the groups.
LEMMA CoreKinds ==
  ASSUME Next
  PROVE  \/ Start \/ Restore \/ Crash \/ Restart
         \/ \E e \in Event : Send(e)
         \/ \E s \in Stopper : StopChecks(s) \/ StopCloses(s) \/ StopPanics(s)
         \/ \E i \in Interpreter : \/ Dequeue(i) \/ Ignore(i) \/ Select(i)
                                   \/ Apply(i) \/ InterpreterEnds(i)
         \/ \E n \in DOMAIN taken : SaveOpens(n) \/ SaveWrites(n) \/ SaveFails(n) \/ Publish(n)
BY DEF Next, StopStep, InterpreterStep, SaveStep

\* The paths an operator of the chart returns.
LEMMA PathFacts ==
  /\ \A p \in Place : ResolveInitialLeaf(p) \in Place
  /\ \A p \in Path : ResolveInitialLeaf(p) \in Path
  /\ \A p \in Path : Prefixes(p) \subseteq Path
  /\ \A p \in Path : \A q \in Place :
       ExitStates(p, q) \subseteq Path /\ EntryStates(p, q) \subseteq Path
<1>1. \A p \in Path : ResolveInitialLeaf(p) \in Path
  <2> TAKE p \in Path
  <2>1. \E q \in Path : LeadsTo(p, q) /\ InitialChild[q] = <<>>
    BY ConfigAssumption
  <2> QED BY <2>1 DEF ResolveInitialLeaf
<1>2. \A p \in Place : ResolveInitialLeaf(p) \in Place
  BY <1>1, ConfigAssumption DEF ResolveInitialLeaf
<1>3. \A p \in Path : Prefixes(p) \subseteq Path
  BY ConfigAssumption
<1>4. \A p \in Path : \A q \in Place :
        ExitStates(p, q) \subseteq Path /\ EntryStates(p, q) \subseteq Path
  BY <1>3 DEF ExitStates, EntryStates
<1> QED BY <1>1, <1>2, <1>3, <1>4

\* A selected transition comes from a state above the current one.
LEMMA SelectedFacts ==
  ASSUME NEW e, NEW ok, NEW c \in Selected(e, ok)
  PROVE  /\ c.source \in Path /\ c.source \in Prefixes(current)
         /\ c.transition.target \in Place
<1>1. PICK p \in Sources(current) :
        c \in {[source |-> p, transition |-> Transitions[p][n]] :
                 n \in {m \in DOMAIN Transitions[p] :
                          /\ Transitions[p][m].event = e
                          /\ Transitions[p][m].guard \in ok \cup {NoGuard}}}
  BY DEF Selected, Candidates
<1>2. p \in Path /\ p \in Prefixes(current)
  BY PathFacts DEF Sources
<1>3. PICK n \in DOMAIN Transitions[p] : c = [source |-> p, transition |-> Transitions[p][n]]
  BY <1>1
<1>4. Transitions[p][n] \in Transition
  BY <1>2, ConfigAssumption
<1> QED BY <1>2, <1>3, <1>4 DEF Transition

-----------------------------------------------------------------------------
(***************************************************************************)
(* Types.                                                                  *)
(***************************************************************************)

\* An interpreter past its selection holds a source in the chart.
TypeInv ==
  /\ TypeOK
  /\ \A i \in Interpreter : pc[i] = "selected" => choice[i].source \in Path
  /\ \A i \in Interpreter : pc[i] = "dequeued" => event[i] \in Event

\* Initially.
LEMMA TypeInit == Init => TypeInv
<1> SUFFICES ASSUME Init PROVE TypeInv
  OBVIOUS
<1> USE DEF Init
<1>1. /\ taken \in Seq(Place) /\ DOMAIN taken = {} /\ queue \in Seq(Event) /\ Len(queue) <= Cap
  BY BoundAssumption
<1>2. saving \in [DOMAIN taken -> {"begun", "writing", "publishing", "ended"}]
  BY <1>1
<1>3. /\ starts \in 0 .. MaxStarts /\ sent \in 0 .. MaxSends /\ crashes \in 0 .. MaxCrashes
      /\ restores \in 0 .. MaxRestores
  BY BoundAssumption
<1>4. choice \in [Interpreter -> [source : Place, target : Place]]
  BY ConfigAssumption DEF NoChoice
<1> QED BY <1>1, <1>2, <1>3, <1>4, ConfigAssumption DEF TypeInv, TypeOK

\* Every step keeps the types.
LEMMA TypeNext == TypeInv /\ [Next]_vars => TypeInv'
<1> SUFFICES ASSUME TypeInv, [Next]_vars PROVE TypeInv'
  OBVIOUS
<1> USE DEF TypeInv, TypeOK
<1>1. CASE Start
  <2>1. ResolveInitialLeaf(Initial) \in Place /\ Prefixes(ResolveInitialLeaf(Initial)) \subseteq Path
    BY ConfigAssumption, PathFacts
  <2>2. starts + 1 \in Interpreter /\ starts + 1 \in 0 .. MaxStarts
    BY <1>1, BoundAssumption DEF Start, Interpreter
  <2> QED BY <1>1, <2>1, <2>2 DEF Start, disk, bounds
<1>2. CASE Restore
  <2>1. PICK n \in DOMAIN taken : current' = taken[n] /\ restored' \in {taken[n], <<>>}
    BY <1>2 DEF Restore
  <2>2. taken[n] \in Place
    BY <2>1
  <2>3. restores + 1 \in 0 .. MaxRestores
    BY <1>2, BoundAssumption DEF Restore
  <2> QED BY <1>2, <2>1, <2>2, <2>3, ConfigAssumption DEF Restore, loops, disk, bounds
<1>3. CASE Crash
  BY <1>3 DEF Crash, Dies, loops, disk, bounds, observed
<1>4. CASE Restart
  <2>1. crashes + 1 \in 0 .. MaxCrashes
    BY <1>4, BoundAssumption DEF Restart
  <2>2. choice' \in [Interpreter -> [source : Place, target : Place]]
    BY <1>4, ConfigAssumption DEF Restart, NoChoice
  <2>3. queue' \in Seq(Event) /\ Len(queue') <= Cap /\ starts' \in 0 .. MaxStarts
        /\ restores' \in 0 .. MaxRestores
    BY <1>4, BoundAssumption DEF Restart
  <2>4. /\ saving' \in [DOMAIN taken' -> {"begun", "writing", "publishing", "ended"}]
        /\ UNCHANGED <<taken, file, sent, failed, alone>>
    BY <1>4 DEF Restart
  <2>5. /\ pc' \in [Interpreter -> {"off", "idle", "dequeued", "selected", "ended"}]
        /\ event' \in [Interpreter -> Event \cup {NoEvent}]
        /\ stopping' \in [Stopper -> {"idle", "checked", "returned"}]
        /\ \A i \in Interpreter : pc'[i] = "off"
    BY <1>4 DEF Restart
  <2>6. /\ current' \in Place /\ restored' \in Place /\ inside' \subseteq Path /\ latest' = 0
        /\ done' \in BOOLEAN /\ dead' \in BOOLEAN /\ local' \in BOOLEAN /\ crashes' = crashes + 1
    BY <1>4, ConfigAssumption DEF Restart
  <2> QED BY <2>1, <2>2, <2>3, <2>4, <2>5, <2>6
<1>5. ASSUME NEW e \in Event, Send(e) PROVE TypeInv'
  <2>1. sent + 1 \in 0 .. MaxSends
    BY <1>5, BoundAssumption DEF Send
  <2>2. queue' \in Seq(Event) /\ Len(queue') <= Cap
    BY <1>5, BoundAssumption DEF Send
  <2> QED BY <1>5, <2>1, <2>2 DEF Send, loops, disk, observed
<1>6. ASSUME NEW s \in Stopper, StopChecks(s) \/ StopCloses(s) \/ StopPanics(s) PROVE TypeInv'
  <2>1. CASE StopChecks(s)
    BY <2>1 DEF StopChecks, loops, disk, bounds, observed
  <2>2. CASE StopCloses(s)
    BY <2>2 DEF StopCloses, loops, disk, bounds, observed
  <2>3. CASE StopPanics(s)
    BY <2>3 DEF StopPanics, Dies, loops, disk, bounds, observed
  <2> QED BY <1>6, <2>1, <2>2, <2>3
<1>7. ASSUME NEW i \in Interpreter, Dequeue(i) \/ Ignore(i) \/ InterpreterEnds(i) PROVE TypeInv'
  <2>1. CASE Dequeue(i)
    <3>1. Head(queue) \in Event /\ Tail(queue) \in Seq(Event) /\ Len(Tail(queue)) <= Cap
      BY <2>1, BoundAssumption DEF Dequeue
    <3> QED BY <2>1, <3>1 DEF Dequeue, disk, bounds, observed
  <2>2. CASE Ignore(i)
    BY <2>2 DEF Ignore, disk, bounds, observed
  <2>3. CASE InterpreterEnds(i)
    BY <2>3 DEF InterpreterEnds, disk, bounds, observed
  <2> QED BY <1>7, <2>1, <2>2, <2>3
<1>8. ASSUME NEW i \in Interpreter, Select(i) PROVE TypeInv'
  <2>1. PICK ok \in SUBSET Guard : \E c \in Selected(event[i], ok) :
          choice' = [choice EXCEPT ![i] = [source |-> c.source, target |-> c.transition.target]]
    BY <1>8 DEF Select
  <2>2. PICK c \in Selected(event[i], ok) :
          choice' = [choice EXCEPT ![i] = [source |-> c.source, target |-> c.transition.target]]
    BY <2>1
  <2>3. c.source \in Path /\ c.source \in Place /\ c.transition.target \in Place
    BY SelectedFacts, ConfigAssumption
  <2> QED BY <1>8, <2>2, <2>3 DEF Select, disk, bounds, observed
<1>9. ASSUME NEW i \in Interpreter, Apply(i) PROVE TypeInv'
  <2>1. choice[i].source \in Path /\ choice[i].target \in Place
    BY <1>9 DEF Apply
  <2>2. ResolveInitialLeaf(choice[i].target) \in Place
    BY <2>1, PathFacts
  <2>3. inside' \subseteq Path /\ current' \in Place
    BY <1>9, <2>1, <2>2, PathFacts DEF Apply
  <2>4. taken' \in Seq(Place) /\ Len(taken') = Len(taken) + 1
    BY <1>9, <2>2 DEF Apply
  <2>5. DOMAIN taken' = 1 .. Len(taken) + 1 /\ DOMAIN taken = 1 .. Len(taken) /\ Len(taken) \in Nat
    BY <2>4
  <2>6. saving' \in [DOMAIN taken' -> {"begun", "writing", "publishing", "ended"}]
    BY <1>9, <2>5 DEF Apply
  <2>7. /\ file' \subseteq DOMAIN taken' \cup {Part} /\ failed' \subseteq DOMAIN taken'
        /\ latest' \in DOMAIN taken'
    BY <1>9, <2>5 DEF Apply
  <2>8. NoChoice \in [source : Place, target : Place]
    BY ConfigAssumption DEF NoChoice
  <2>9. restored' \in Place /\ local' \in BOOLEAN /\ alone' \in BOOLEAN
    BY <1>9, ConfigAssumption DEF Apply
  <2>10. UNCHANGED <<queue, starts, event, done, stopping, dead, bounds, restores>>
    BY <1>9 DEF Apply
  <2>11. /\ pc' = [pc EXCEPT ![i] = "idle"]
         /\ choice' = [choice EXCEPT ![i] = NoChoice]
    BY <1>9 DEF Apply
  <2> HIDE DEF NoChoice
  <2> QED BY <2>3, <2>4, <2>6, <2>7, <2>8, <2>9, <2>10, <2>11 DEF bounds
<1>10. ASSUME NEW n \in DOMAIN taken, SaveOpens(n) \/ SaveWrites(n) \/ SaveFails(n) \/ Publish(n) PROVE TypeInv'
  <2>1. CASE SaveOpens(n)
    BY <2>1 DEF SaveOpens, loops, bounds, observed
  <2>2. CASE SaveWrites(n)
    BY <2>2 DEF SaveWrites, loops, bounds, observed
  <2>3. CASE SaveFails(n)
    BY <2>3 DEF SaveFails, loops, bounds
  <2>4. CASE Publish(n)
    BY <2>4 DEF Publish, loops, bounds, observed
  <2> QED BY <1>10, <2>1, <2>2, <2>3, <2>4
<1>11. CASE UNCHANGED vars
  BY <1>11 DEF vars, loops, disk, bounds, observed
<1> HIDE DEF TypeInv, TypeOK
<1> QED BY <1>1, <1>2, <1>3, <1>4, <1>5, <1>6, <1>7, <1>8, <1>9, <1>10, <1>11, CoreKinds

\* The types hold in every behaviour.
LEMMA TypeInvCorrect == Spec => []TypeInv
BY TypeInit, TypeNext, PTL DEF Spec

\* Types are kept; the event queue never holds more than its capacity.
THEOREM CoreTypeCorrect == Spec => []TypeOK
<1>1. TypeInv => TypeOK
  BY DEF TypeInv
<1> QED BY <1>1, TypeInvCorrect, PTL
-----------------------------------------------------------------------------
(***************************************************************************)
(* The interpreter.                                                        *)
(***************************************************************************)

\* Interpreters are launched in their order, and nothing is entered before. A
\* selected transition's source stays active until it is applied, as long as
\* nobody else writes m.current: no second interpreter, no Restore.
LoopInv ==
  /\ \A i \in Interpreter : i > starts => pc[i] = "off"
  /\ starts = 0 => inside = {} /\ local
  /\ \A i \in Interpreter : pc[i] = "selected" /\ starts = 1 /\ restores = 0 =>
       choice[i].source \in Prefixes(current)

\* Initially.
LEMMA LoopInit == Init => LoopInv
BY DEF Init, LoopInv

\* Every step keeps them.
LEMMA LoopNext == TypeInv /\ LoopInv /\ [Next]_vars => LoopInv'
<1> SUFFICES ASSUME TypeInv, LoopInv, [Next]_vars PROVE LoopInv'
  OBVIOUS
<1>0. /\ starts \in Nat /\ restores \in Nat /\ Interpreter \subseteq Nat \ {0}
      /\ pc \in [Interpreter -> {"off", "idle", "dequeued", "selected", "ended"}]
      /\ choice \in [Interpreter -> [source : Place, target : Place]]
  BY BoundAssumption DEF TypeInv, TypeOK, Interpreter
<1> USE DEF LoopInv
<1>1. CASE Start
  <2>1. starts + 1 \in Interpreter
    BY <1>1, BoundAssumption DEF Start, TypeInv, TypeOK, Interpreter
  <2>2. /\ starts' = starts + 1 /\ pc' = [pc EXCEPT ![starts + 1] = "idle"]
        /\ UNCHANGED <<choice, restores>>
    BY <1>1 DEF Start
  <2> QED BY <1>0, <2>1, <2>2
<1>2. CASE Restore
  <2>1. restores' = restores + 1 /\ UNCHANGED <<starts, pc, choice, inside, local>>
    BY <1>2 DEF Restore, loops
  <2> QED BY <1>0, <2>1
<1>3. CASE Crash
  BY <1>0, <1>3 DEF Crash, Dies, loops, observed
<1>4. CASE Restart
  BY <1>0, <1>4 DEF Restart
<1>5. ASSUME NEW e \in Event, Send(e) PROVE LoopInv'
  BY <1>0, <1>5 DEF Send, loops, observed
<1>6. ASSUME NEW s \in Stopper, StopChecks(s) \/ StopCloses(s) \/ StopPanics(s) PROVE LoopInv'
  BY <1>0, <1>6 DEF StopChecks, StopCloses, StopPanics, Dies, loops, observed
<1>7. ASSUME NEW i \in Interpreter, Dequeue(i) \/ Ignore(i) \/ InterpreterEnds(i) PROVE LoopInv'
  <2>1. /\ pc[i] # "off" /\ pc' = [pc EXCEPT ![i] = pc'[i]] /\ pc'[i] # "selected"
        /\ UNCHANGED <<starts, choice, restores, current, inside, local>>
    BY <1>0, <1>7 DEF Dequeue, Ignore, InterpreterEnds, observed
  <2> QED BY <1>0, <2>1
<1>8. ASSUME NEW i \in Interpreter, Select(i) PROVE LoopInv'
  <2>1. PICK ok \in SUBSET Guard : \E c \in Selected(event[i], ok) :
          choice' = [choice EXCEPT ![i] = [source |-> c.source, target |-> c.transition.target]]
    BY <1>8 DEF Select
  <2>2. PICK c \in Selected(event[i], ok) :
          choice' = [choice EXCEPT ![i] = [source |-> c.source, target |-> c.transition.target]]
    BY <2>1
  <2>3. c.source \in Prefixes(current)
    BY SelectedFacts
  <2>4. /\ pc[i] # "off" /\ pc' = [pc EXCEPT ![i] = "selected"]
        /\ UNCHANGED <<starts, restores, current, inside, local>>
    BY <1>8 DEF Select, observed
  <2> QED BY <1>0, <2>2, <2>3, <2>4
<1>9. ASSUME NEW i \in Interpreter, Apply(i) PROVE LoopInv'
  <2>1. /\ pc[i] = "selected" /\ pc' = [pc EXCEPT ![i] = "idle"]
        /\ choice' = [choice EXCEPT ![i] = NoChoice]
        /\ UNCHANGED <<starts, restores>>
    BY <1>9 DEF Apply
  <2>2. i <= starts
    BY <1>0, <2>1
  <2>3. starts' # 0
    BY <1>0, <2>1, <2>2
  <2>4. \A j \in Interpreter : pc'[j] = "selected" /\ starts' = 1 => FALSE
    BY <1>0, <2>1, <2>2
  <2>5. \A j \in Interpreter : j > starts' => pc'[j] = "off"
    BY <1>0, <2>1
  <2> QED BY <2>3, <2>4, <2>5
<1>10. ASSUME NEW n \in DOMAIN taken, SaveOpens(n) \/ SaveWrites(n) \/ SaveFails(n) \/ Publish(n) PROVE LoopInv'
  BY <1>0, <1>10 DEF SaveOpens, SaveWrites, SaveFails, Publish, loops, observed
<1>11. CASE UNCHANGED vars
  BY <1>11 DEF vars, loops, observed
<1> HIDE DEF LoopInv
<1> QED BY <1>1, <1>2, <1>3, <1>4, <1>5, <1>6, <1>7, <1>8, <1>9, <1>10, <1>11, CoreKinds

-----------------------------------------------------------------------------
(***************************************************************************)
(* The file.                                                               *)
(***************************************************************************)

\* While the last change's snapshot, taken when no save was in progress, is
\* being saved nothing else is, and its save finds the file it writes empty.
FileInv ==
  latest # 0 =>
    /\ taken[latest] = current
    /\ alone =>
         /\ InProgress \subseteq {latest}
         /\ saving[latest] = "writing" => file = {}
         /\ saving[latest] \in {"publishing", "ended"} /\ latest \notin failed =>
              file = {latest}

\* Initially.
LEMMA FileInit == Init => FileInv
<1> SUFFICES ASSUME Init PROVE FileInv
  OBVIOUS
<1>1. DOMAIN taken = {} /\ latest = 0
  BY DEF Init
<1> QED BY <1>1 DEF FileInv, InProgress

\* Every step keeps it.
LEMMA FileNext == TypeInv /\ FileInv /\ [Next]_vars => FileInv'
<1> SUFFICES ASSUME TypeInv, FileInv, [Next]_vars PROVE FileInv'
  OBVIOUS
<1>0. /\ taken \in Seq(Place) /\ DOMAIN taken = 1 .. Len(taken) /\ Len(taken) \in Nat
      /\ saving \in [DOMAIN taken -> {"begun", "writing", "publishing", "ended"}]
      /\ latest \in {0} \cup DOMAIN taken
  BY DEF TypeInv, TypeOK
<1> USE DEF FileInv, InProgress
<1>1. CASE Start \/ Restore
  <2>1. latest' = 0 /\ UNCHANGED <<taken, saving, file, failed, alone>>
    BY <1>1 DEF Start, Restore, disk
  <2> QED BY <2>1
<1>2. CASE Crash
  BY <1>2 DEF Crash, Dies, disk, observed
<1>3. CASE Restart
  BY <1>3 DEF Restart
<1>4. ASSUME NEW e \in Event, Send(e) PROVE FileInv'
  BY <1>4 DEF Send, disk, observed
<1>5. ASSUME NEW s \in Stopper, StopChecks(s) \/ StopCloses(s) \/ StopPanics(s) PROVE FileInv'
  BY <1>5 DEF StopChecks, StopCloses, StopPanics, Dies, disk, observed
<1>6. ASSUME NEW i \in Interpreter, Dequeue(i) \/ Ignore(i) \/ Select(i) \/ InterpreterEnds(i)
      PROVE  FileInv'
  <2>1. UNCHANGED <<taken, saving, file, failed, alone, latest, current>>
    BY <1>6 DEF Dequeue, Ignore, Select, InterpreterEnds, disk, observed
  <2> QED BY <2>1
<1>7. ASSUME NEW i \in Interpreter, Apply(i) PROVE FileInv'
  <2>1. /\ taken' = Append(taken, current')
        /\ saving' = [n \in DOMAIN taken' |-> IF n \in DOMAIN taken THEN saving[n] ELSE "begun"]
        /\ latest' = Len(taken) + 1
        /\ alone' = ({n \in DOMAIN taken : saving[n] \in {"begun", "writing"}} = {})
        /\ UNCHANGED file
    BY <1>7 DEF Apply
  <2>2. current' \in Place
    BY <1>7, TypeNext DEF TypeInv, TypeOK
  <2>3. DOMAIN taken' = DOMAIN taken \cup {latest'} /\ latest' \notin DOMAIN taken
        /\ taken'[latest'] = current'
    BY <1>0, <2>1, <2>2
  <2>4. saving'[latest'] = "begun" /\ \A n \in DOMAIN taken : saving'[n] = saving[n]
    BY <2>1, <2>3
  <2> QED BY <2>1, <2>3, <2>4
<1>8. ASSUME NEW n \in DOMAIN taken, SaveOpens(n) \/ SaveWrites(n) \/ SaveFails(n) \/ Publish(n) PROVE FileInv'
  <2>1. /\ UNCHANGED <<taken, alone, latest, current>>
        /\ \A m \in DOMAIN taken : m # n => saving'[m] = saving[m]
    BY <1>0, <1>8 DEF SaveOpens, SaveWrites, SaveFails, Publish, observed
  <2>2. CASE SaveOpens(n)
    <3>1. /\ saving[n] = "begun" /\ saving'[n] = "writing" /\ file' = {}
          /\ UNCHANGED failed
      BY <1>0, <2>2 DEF SaveOpens, observed
    <3> QED BY <1>0, <2>1, <3>1
  <2>3. CASE SaveWrites(n)
    <3>1. /\ saving[n] = "writing" /\ saving'[n] = "publishing" /\ file' \in {{n}, file \cup {n}}
          /\ UNCHANGED failed
      BY <1>0, <2>3 DEF SaveWrites, observed
    <3>2. latest # 0 /\ alone => n = latest /\ file' = {n}
      BY <3>1
    <3> QED BY <1>0, <2>1, <3>1, <3>2
  <2>4. CASE SaveFails(n)
    <3>1. /\ saving[n] \in {"begun", "writing"} /\ saving'[n] = "publishing"
          /\ failed' = failed \cup {n}
      BY <1>0, <2>4 DEF SaveFails
    <3>2. latest # 0 /\ alone => n = latest
      BY <3>1
    <3> QED BY <1>0, <2>1, <3>1, <3>2
  <2>5. CASE Publish(n)
    <3>1. saving[n] = "publishing" /\ saving'[n] = "ended" /\ UNCHANGED <<file, failed>>
      BY <1>0, <2>5 DEF Publish, observed
    <3> QED BY <1>0, <2>1, <3>1
  <2> QED BY <1>8, <2>2, <2>3, <2>4, <2>5
<1>9. CASE UNCHANGED vars
  BY <1>9 DEF vars, disk, observed
<1> HIDE DEF FileInv
<1> QED BY <1>1, <1>2, <1>3, <1>4, <1>5, <1>6, <1>7, <1>8, <1>9, CoreKinds

\* Whatever became of earlier saves, by errors, overlaps, crashes and restarts: a
\* snapshot taken while no save is in progress, whose own Save has returned no
\* error, lies whole and alone in the file and is the machine's state.
THEOREM SavedIsStoredCorrect == Spec => []SavedIsStored
<1>1. TypeInv /\ FileInv /\ [Next]_vars => FileInv'
  BY FileNext
<1>2. FileInv => SavedIsStored
  BY DEF FileInv, SavedIsStored
<1> QED BY <1>1, <1>2, FileInit, TypeInvCorrect, PTL DEF Spec

-----------------------------------------------------------------------------
(***************************************************************************)
(* Exit and entry actions.                                                 *)
(***************************************************************************)

\* From one root path to another by the exits and entries between them.
LEMMA LocalMove ==
  ASSUME NEW p \in Path, NEW q \in Path, NothingInCommon(p, q) => Len(p) = 1 /\ Len(q) = 1
  PROVE  (Prefixes(p) \ ExitStates(p, q)) \cup EntryStates(p, q) = Prefixes(q)
<1>1. p \in Seq(STRING) /\ q \in Seq(STRING) /\ Prefixes(q) \subseteq Path
  BY ConfigAssumption
<1>2. CASE ~NothingInCommon(p, q)
  BY <1>1, <1>2 DEF ExitStates, EntryStates
<1>3. CASE NothingInCommon(p, q)
  <2>1. Len(p) = 1 /\ Len(q) = 1
    BY <1>3
  <2>2. SubSeq(p, 1, 1) = p /\ SubSeq(q, 1, 1) = q
    BY <1>1, <2>1
  <2>3. Prefixes(p) = {p} /\ Prefixes(q) = {q}
    BY <2>1, <2>2 DEF Prefixes
  <2> QED BY <1>3, <2>3 DEF ExitStates, EntryStates
<1> QED BY <1>2, <1>3

\* The same, over a life of the machine.
PathInv == ConfigurationIsPath /\ (starts = 1 /\ restores = 0 /\ local => current \in Path)

\* Every step keeps it.
LEMMA PathNext == TypeInv /\ LoopInv /\ PathInv /\ [Next]_vars => PathInv'
<1> SUFFICES ASSUME TypeInv, LoopInv, PathInv, [Next]_vars PROVE PathInv'
  OBVIOUS
<1>0. starts \in Nat /\ restores \in Nat
  BY BoundAssumption DEF TypeInv, TypeOK
<1> USE DEF PathInv, ConfigurationIsPath
<1>1. CASE Start
  <2>1. /\ starts' = starts + 1 /\ current' = ResolveInitialLeaf(Initial)
        /\ inside' = inside \cup Prefixes(current') /\ UNCHANGED <<restores, local>>
    BY <1>1 DEF Start
  <2>2. current' \in Path
    BY <2>1, ConfigAssumption, PathFacts
  <2>3. starts = 0 => inside = {}
    BY DEF LoopInv
  <2> QED BY <1>0, <2>1, <2>2, <2>3
<1>2. CASE Restore
  <2>1. restores' = restores + 1
    BY <1>2 DEF Restore
  <2> QED BY <1>0, <2>1
<1>3. CASE Crash
  BY <1>3 DEF Crash, Dies, loops, observed
<1>4. CASE Restart
  BY <1>4 DEF Restart
<1>5. ASSUME NEW e \in Event, Send(e) PROVE PathInv'
  BY <1>5 DEF Send, loops, observed
<1>6. ASSUME NEW s \in Stopper, StopChecks(s) \/ StopCloses(s) \/ StopPanics(s) PROVE PathInv'
  BY <1>6 DEF StopChecks, StopCloses, StopPanics, Dies, loops, observed
<1>7. ASSUME NEW i \in Interpreter, Dequeue(i) \/ Ignore(i) \/ Select(i) \/ InterpreterEnds(i)
      PROVE  PathInv'
  <2>1. UNCHANGED <<starts, restores, local, inside, current>>
    BY <1>7 DEF Dequeue, Ignore, Select, InterpreterEnds, observed
  <2> QED BY <2>1
<1>8. ASSUME NEW i \in Interpreter, Apply(i) PROVE PathInv'
  <2> DEFINE p == choice[i].source
             q == choice[i].target
  <2>1. /\ inside' = (inside \ ExitStates(p, q)) \cup EntryStates(p, q)
        /\ current' = ResolveInitialLeaf(q)
        /\ local' = (local /\ Local(p, q))
        /\ UNCHANGED <<starts, restores>>
    BY <1>8 DEF Apply
  <2>2. SUFFICES ASSUME starts = 1, restores = 0, local, Local(p, q)
                 PROVE  inside' = Prefixes(current') /\ current' \in Path
    BY <2>1
  <2>3. /\ p = current /\ q \in Path /\ current' = q
        /\ NothingInCommon(p, q) => Len(p) = 1 /\ Len(q) = 1
    BY <2>1, <2>2 DEF Local
  <2>4. inside = Prefixes(p) /\ p \in Path
    BY <2>2, <2>3
  <2> QED BY <2>1, <2>3, <2>4, LocalMove
<1>9. ASSUME NEW n \in DOMAIN taken, SaveOpens(n) \/ SaveWrites(n) \/ SaveFails(n) \/ Publish(n) PROVE PathInv'
  BY <1>9 DEF SaveOpens, SaveWrites, SaveFails, Publish, loops, observed
<1>10. CASE UNCHANGED vars
  BY <1>10 DEF vars, loops, observed
<1> HIDE DEF PathInv, ConfigurationIsPath
<1> QED BY <1>1, <1>2, <1>3, <1>4, <1>5, <1>6, <1>7, <1>8, <1>9, <1>10, CoreKinds

\* Between transitions from leaf to leaf the actions that have run leave exactly
\* the root path of the current state entered.
THEOREM ConfigurationIsPathCorrect == Spec => []ConfigurationIsPath
<1>1. Init => PathInv
  BY DEF Init, PathInv, ConfigurationIsPath
<1>2. TypeInv /\ LoopInv /\ [Next]_vars => LoopInv'
  BY LoopNext
<1>3. TypeInv /\ LoopInv /\ PathInv /\ [Next]_vars => PathInv'
  BY PathNext
<1>4. PathInv => ConfigurationIsPath
  BY DEF PathInv
<1> QED BY <1>1, <1>2, <1>3, <1>4, LoopInit, TypeInvCorrect, PTL DEF Spec
=============================================================================
