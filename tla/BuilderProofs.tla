--------------------------- MODULE BuilderProofs ---------------------------
(***************************************************************************)
(* What MachineBuilder accepts, for every set of names and every number of *)
(* calls in every order.                                                   *)
(***************************************************************************)
EXTENDS Builder, SequenceTheorems, NaturalsInduction, WellFoundedInduction, TLAPS

-----------------------------------------------------------------------------
(***************************************************************************)
(* Names.                                                                  *)
(***************************************************************************)

\* A nonempty set of naturals has a least member.
LEMMA LeastNumber ==
  ASSUME NEW M \in SUBSET Nat, M # {}
  PROVE  \E i \in M : \A j \in M : i <= j
<1> DEFINE R == {q \in Nat \X Nat : q[1] < q[2]}
<1>1. IsWellFoundedOn(R, Nat)
  BY NatLessThanWellFounded DEF OpToRel
<1> HIDE DEF R
<1>2. PICK i \in M : \A j \in M : ~ (<<j, i>> \in R)
  BY <1>1, WFMin
<1>3. \A j \in M : i <= j
  <2> SUFFICES ASSUME NEW j \in M PROVE ~ (j < i)
    OBVIOUS
  <2>1. j < i => <<j, i>> \in R
    BY DEF R
  <2> QED BY <1>2, <2>1
<1> QED BY <1>3

\* A name has a segment.
LEMMA NameLength ==
  ASSUME NEW n \in Name
  PROVE  Len(n) = 1 \/ Len(n) > 1
<1>1. n \in Seq(STRING) /\ n # <<>> /\ Len(n) \in Nat \ {0}
  BY NameAssumption, EmptySeq, LenProperties
<1> DEFINE L == Len(n)
<1>2. L \in Nat \ {0}
  BY <1>1
<1> HIDE DEF L
<1>3. L = 1 \/ L > 1
  BY <1>2
<1> QED BY <1>3 DEF L

\* How far a state lies below the root.
Depth(n) == IF n = RootName THEN 0 ELSE Len(n)

\* The parent of a name is a name, and lies above it.
LEMMA ParentAbove ==
  ASSUME NEW n \in Name
  PROVE  /\ ParentName(n) \in Name
         /\ Depth(n) \in Nat
         /\ n # RootName => Depth(ParentName(n)) < Depth(n)
         /\ Len(n) > 1 => Above(n) = Above(ParentName(n)) \cup {ParentName(n)}
         /\ Len(n) = 1 => Above(n) = {} /\ ParentName(n) = RootName
<1>1. n \in Seq(STRING) /\ n # <<>> /\ Len(n) \in Nat \ {0}
  BY NameAssumption, EmptySeq, LenProperties
<1>2. ParentName(n) \in Name
  BY NameAssumption
<1>3. CASE Len(n) = 1
  BY <1>1, <1>2, <1>3, NameAssumption DEF ParentName, Depth, Above
<1> DEFINE L == Len(n)
<1>l. L \in Nat \ {0}
  BY <1>1
<1> HIDE DEF L
<1>4. CASE Len(n) > 1
  <2> DEFINE p == SubSeq(n, 1, Len(n) - 1)
  <2> HIDE DEF p
  <2>0. ASSUME NEW m \in 1 .. Len(n) - 1
        PROVE  /\ SubSeq(n, 1, m) \in Seq(STRING) /\ Len(SubSeq(n, 1, m)) = m
               /\ \A k \in 1 .. m : SubSeq(n, 1, m)[k] = n[k]
    <3>1. 1 \in Int /\ m \in Int /\ 1 <= m /\ m - 1 + 1 = m
      BY <1>1
    <3>2. \A k \in 1 .. m : n[k] \in STRING
      BY <1>1, LenProperties
    <3>3. /\ SubSeq(n, 1, m) \in Seq(STRING)
          /\ Len(SubSeq(n, 1, m)) = IF 1 <= m THEN m - 1 + 1 ELSE 0
          /\ \A k \in 1 .. m - 1 + 1 : SubSeq(n, 1, m)[k] = n[1 + k - 1]
      BY ONLY <3>1, <3>2, SubSeqProperties
    <3> QED BY <3>1, <3>3
  <2>1. p \in Seq(STRING) /\ Len(p) = Len(n) - 1 /\ \A k \in 1 .. Len(n) - 1 : p[k] = n[k]
    BY <1>1, <1>4, <2>0 DEF p
  <2>2. ParentName(n) = p
    <3>1. L > 1 => L # 1
      BY <1>l
    <3> QED BY <1>4, <3>1, Zenon DEF ParentName, p, L
  <2>3. \A k \in 1 .. Len(n) - 1 : SubSeq(p, 1, k) = SubSeq(n, 1, k)
    <3> SUFFICES ASSUME NEW k \in 1 .. Len(n) - 1 PROVE SubSeq(p, 1, k) = SubSeq(n, 1, k)
      OBVIOUS
    <3>1. /\ SubSeq(p, 1, k) \in Seq(STRING) /\ Len(SubSeq(p, 1, k)) = k
          /\ \A j \in 1 .. k : SubSeq(p, 1, k)[j] = p[j]
      <4>1. 1 \in Int /\ k \in Int /\ 1 <= k /\ k - 1 + 1 = k
        BY <1>1
      <4>2. \A j \in 1 .. k : p[j] \in STRING
        BY <1>1, <2>1, LenProperties
      <4>3. /\ SubSeq(p, 1, k) \in Seq(STRING)
            /\ Len(SubSeq(p, 1, k)) = IF 1 <= k THEN k - 1 + 1 ELSE 0
            /\ \A j \in 1 .. k - 1 + 1 : SubSeq(p, 1, k)[j] = p[1 + j - 1]
        BY ONLY <4>1, <4>2, SubSeqProperties
      <4> QED BY <4>1, <4>3
    <3>2. /\ SubSeq(n, 1, k) \in Seq(STRING) /\ Len(SubSeq(n, 1, k)) = k
          /\ \A j \in 1 .. k : SubSeq(n, 1, k)[j] = n[j]
      BY <2>0
    <3>3. \A j \in 1 .. k : SubSeq(p, 1, k)[j] = SubSeq(n, 1, k)[j]
      BY <1>1, <2>1, <3>1, <3>2
    <3> QED BY <3>1, <3>2, <3>3, SeqEqual
  <2>4. Above(n) = Above(p) \cup {p}
    <3>1. Above(p) = {SubSeq(n, 1, k) : k \in 1 .. Len(n) - 2}
      BY <1>1, <1>4, <2>1, <2>3 DEF Above
    <3>2. L > 1 => 1 .. L - 1 = (1 .. L - 2) \cup {L - 1}
      BY <1>l
    <3>3. 1 .. Len(n) - 1 = (1 .. Len(n) - 2) \cup {Len(n) - 1}
      BY <1>4, <3>2, Zenon DEF L
    <3>4. Above(n) = {SubSeq(n, 1, k) : k \in (1 .. Len(n) - 2) \cup {Len(n) - 1}}
      BY <3>3 DEF Above
    <3>5. Above(n) = {SubSeq(n, 1, k) : k \in 1 .. Len(n) - 2} \cup {SubSeq(n, 1, Len(n) - 1)}
      BY <3>4, Zenon
    <3> QED BY <3>1, <3>5 DEF p
  <2>5. Depth(p) < Depth(n) /\ Depth(n) \in Nat
    <3>1. L > 1 /\ Len(p) = L - 1
      BY <1>4, <2>1, Zenon DEF L
    <3>2. n # RootName
      <4>1. L # 1
        BY <1>l, <3>1
      <4> QED BY <4>1, NameAssumption, Zenon DEF L
    <3>3. Depth(n) = L
      BY <3>2 DEF Depth, L
    <3>4. Depth(p) = 0 \/ Depth(p) = L - 1
      BY <3>1 DEF Depth
    <3> QED BY <1>l, <3>1, <3>3, <3>4
  <2>6. Len(n) # 1
    <3>1. L > 1 => L # 1
      BY <1>l
    <3> QED BY <1>4, <3>1, Zenon DEF L
  <2> QED BY <1>2, <2>2, <2>4, <2>5, <2>6, Zenon
<1>5. L = 1 \/ L > 1
  BY <1>l
<1> QED BY <1>3, <1>4, <1>5 DEF L

-----------------------------------------------------------------------------
(***************************************************************************)
(* The inductive invariant.                                                *)
(***************************************************************************)

\* Whatever the order of the declarations, a state is linked to the parent its
\* name tells or to none.
ParentInv ==
  /\ \A s \in Name : parent[s] \in {ParentName(s), Nowhere}
  /\ parent[RootName] = Nowhere

\* Declared from the top down, everything above a state is there, and linked.
TreeInv ==
  topDown => \A s \in created :
    Above(s) \subseteq created /\ (s # RootName => parent[s] = ParentName(s))

\* However many names there are, the declared ones are not deeper than some depth.
DepthInv == \E b \in Nat : \A s \in created : Depth(s) <= b

\* What Build looked at still is as it was.
ResultInv ==
  /\ result = "accepted" => Validate
  /\ result = "endless" => Validate /\ DeepestInitial(RootName) = {}

IInv == TypeOK /\ ParentInv /\ TreeInv /\ DepthInv /\ ResultInv

\* State keeps the invariant.
LEMMA DeclareKeeps ==
  ASSUME IInv, NEW n \in Name, DeclareState(n)
  PROVE  TypeOK' /\ ParentInv' /\ TreeInv' /\ DepthInv'
<1> DEFINE p == ParentName(n)
<1>1. /\ created' = created \cup {p, n}
      /\ topDown' = (topDown /\ Above(p) \subseteq created)
      /\ UNCHANGED <<initial, parallel, targets, result>>
      /\ result = "none" /\ calls < MaxCalls /\ calls' = calls + 1
      /\ parent' = [s \in Name |->
                      CASE s \in created -> parent[s]
                        [] s = p /\ s \notin created -> LinkOfParent(p)
                        [] s = n /\ s \notin created /\ s # p -> p
                        [] OTHER -> parent[s]]
  BY DEF DeclareState, Call
<1>2. p \in Name /\ n \in Name /\ RootName \in Name
  BY NameAssumption
<1>3. \A s \in Name : s # Nowhere /\ ParentName(s) \in Name /\ ParentName(s) # Nowhere
  BY NameAssumption DEF Nowhere
<1>4. /\ created \subseteq Name /\ RootName \in created
      /\ parent \in [Name -> Name \cup {Nowhere}]
      /\ \A s \in Name : parent[s] # Nowhere => s \in created /\ parent[s] \in created
  BY DEF IInv, TypeOK
<1> HIDE DEF p
<1>5. ASSUME NEW s \in Name
      PROVE  /\ s \in created => parent'[s] = parent[s]
             /\ s = p /\ s \notin created => parent'[s] = LinkOfParent(p)
             /\ s = n /\ s \notin created /\ s # p => parent'[s] = p
             /\ s # p /\ s # n => parent'[s] = parent[s]
  BY <1>1
<1>6. LinkOfParent(p) \in {ParentName(p), Nowhere} /\ LinkOfParent(p) \in created \cup {Nowhere}
  BY DEF LinkOfParent
<1>7. p = ParentName(n)
  BY DEF p
<1>8. TypeOK'
  <2>1. ASSUME NEW s \in Name
        PROVE  /\ parent'[s] \in Name \cup {Nowhere}
               /\ parent'[s] # Nowhere => s \in created' /\ parent'[s] \in created'
    BY <1>1, <1>2, <1>3, <1>4, <1>5, <1>6
  <2>2. parent' \in [Name -> Name \cup {Nowhere}]
    <3>1. parent' = [s \in Name |-> parent'[s]]
      BY <1>1
    <3> QED BY <2>1, <3>1
  <2>3. calls' \in 0 .. MaxCalls
    BY <1>1, NameAssumption DEF IInv, TypeOK
  <2>4. created' \subseteq Name /\ RootName \in created' /\ parallel' \subseteq created'
    BY <1>1, <1>2, <1>4 DEF IInv, TypeOK
  <2>5. initial' \in [Name -> Name] /\ targets' \in [Name -> SUBSET Name]
    BY <1>1 DEF IInv, TypeOK
  <2>6. result' \in {"none", "rejected", "endless", "accepted"} /\ topDown' \in BOOLEAN
    BY <1>1 DEF IInv, TypeOK
  <2> QED BY <2>1, <2>2, <2>3, <2>4, <2>5, <2>6 DEF TypeOK
<1>9. ParentInv'
  BY <1>2, <1>4, <1>5, <1>6, <1>7 DEF IInv, ParentInv
<1>10. TreeInv'
  <2> SUFFICES ASSUME topDown, Above(p) \subseteq created, NEW s \in created'
               PROVE  /\ Above(s) \subseteq created'
                      /\ s # RootName => parent'[s] = ParentName(s)
    BY <1>1 DEF TreeInv
  <2>1. CASE s \in created
    BY <1>1, <1>4, <1>5, <2>1 DEF IInv, TreeInv
  <2>2. CASE s = p /\ s \notin created
    <3>1. ParentName(p) \in created
      <4>1. CASE Len(p) = 1
        BY <1>4, <4>1 DEF ParentName
      <4>2. CASE Len(p) > 1
        BY <1>2, <4>2, ParentAbove
      <4>3. Len(p) = 1 \/ Len(p) > 1
        BY <1>2, NameLength
      <4> QED BY <4>1, <4>2, <4>3
    <3> QED BY <1>1, <1>2, <1>5, <2>2, <3>1 DEF LinkOfParent
  <2>3. CASE s = n /\ s \notin created /\ s # p
    <3>1. Above(n) \subseteq Above(p) \cup {p}
      <4>1. Len(n) = 1 \/ Len(n) > 1
        BY <1>2, NameLength
      <4> QED BY <4>1, <1>2, <1>7, ParentAbove
    <3> QED BY <1>1, <1>2, <1>5, <1>7, <2>3, <3>1
  <2> QED BY <1>1, <2>1, <2>2, <2>3
<1>11. DepthInv'
  <2>1. PICK b \in Nat : \A s \in created : Depth(s) <= b
    BY DEF IInv, DepthInv
  <2>2. Depth(p) \in Nat /\ Depth(n) \in Nat /\ \A s \in created : Depth(s) \in Nat
    BY <1>2, <1>4, ParentAbove
  <2> DEFINE c == b + Depth(p) + Depth(n)
  <2>3. c \in Nat /\ \A s \in created' : Depth(s) <= c
    BY <1>1, <2>1, <2>2
  <2> QED BY <2>3 DEF DepthInv
<1> QED BY <1>8, <1>9, <1>10, <1>11

\* What Build works out depends on the declarations only.
LEMMA BuildReadsOnly ==
  ASSUME UNCHANGED <<created, parent, initial, parallel, targets>>
  PROVE  Validate' = Validate /\ DeepestInitial(RootName)' = DeepestInitial(RootName)
<1>1. \A s : Children(s)' = Children(s)
  BY DEF Children
<1>2. Validate' = Validate
  BY <1>1 DEF Validate
<1>3. Machine' = Machine
  BY <1>1 DEF Machine, ClosedUnderChildren
<1>4. \A s : InitialStep(s)' = InitialStep(s)
  BY <1>3 DEF InitialStep
<1>5. \A s : Descent(s)' = Descent(s)
  BY <1>4 DEF Descent, ClosedUnderInitial
<1>6. DeepestInitial(RootName)' = DeepestInitial(RootName)
  BY <1>4, <1>5 DEF DeepestInitial
<1> QED BY <1>2, <1>6

\* The invariant holds after NewMachineBuilder.
LEMMA InitIInv == Init => IInv
<1> SUFFICES ASSUME Init PROVE IInv
  OBVIOUS
<1> USE DEF Init
<1>1. RootName \in Name /\ Len(RootName) = 1 /\ MaxCalls \in Nat /\ 0 \in 0 .. MaxCalls
  BY NameAssumption
<1>2. TypeOK
  <2>1. initial \in [Name -> Name] /\ targets \in [Name -> SUBSET Name]
    BY <1>1
  <2>2. parent \in [Name -> Name \cup {Nowhere}] /\ \A s \in Name : parent[s] = Nowhere
    OBVIOUS
  <2> QED BY <1>1, <2>1, <2>2 DEF TypeOK
<1>3. ParentInv
  BY <1>1 DEF ParentInv
<1>4. TreeInv
  BY <1>1, ParentAbove DEF TreeInv
<1>5. DepthInv
  <2>1. 0 \in Nat /\ \A s \in created : Depth(s) <= 0
    BY DEF Depth
  <2> QED BY <2>1 DEF DepthInv
<1>6. ResultInv
  BY DEF ResultInv
<1> QED BY <1>2, <1>3, <1>4, <1>5, <1>6 DEF IInv

\* Every call keeps the invariant.
LEMMA NextIInv == IInv /\ [Next]_vars => IInv'
<1> SUFFICES ASSUME IInv, [Next]_vars PROVE IInv'
  OBVIOUS
<1>1. ASSUME UNCHANGED <<created, parent, topDown>> PROVE ParentInv' /\ TreeInv' /\ DepthInv'
  BY <1>1 DEF IInv, ParentInv, TreeInv, DepthInv
<1>2. ASSUME Call PROVE ResultInv' /\ calls' \in 0 .. MaxCalls /\ result' = result
  BY <1>2, NameAssumption DEF Call, ResultInv, IInv, TypeOK
<1>3. ASSUME NEW n \in Name, DeclareState(n) PROVE IInv'
  <2>1. Call
    BY <1>3 DEF DeclareState
  <2> QED BY <1>2, <1>3, <2>1, DeclareKeeps DEF IInv
<1>4. ASSUME NEW n \in Name, DeclareParallel(n) PROVE IInv'
  <2>1. Call /\ UNCHANGED <<created, parent, topDown>>
    BY <1>4 DEF DeclareParallel
  <2>2. TypeOK'
    BY <1>2, <1>4, <2>1 DEF DeclareParallel, IInv, TypeOK
  <2> QED BY <1>1, <1>2, <2>1, <2>2 DEF IInv
<1>5. ASSUME NEW n \in created, NEW m \in Name, Compound(n, m) PROVE IInv'
  <2>1. Call /\ UNCHANGED <<created, parent, topDown>>
    BY <1>5 DEF Compound
  <2>2. initial' \in [Name -> Name]
    BY <1>5 DEF Compound, IInv, TypeOK
  <2>3. TypeOK'
    BY <1>2, <1>5, <2>1, <2>2 DEF Compound, IInv, TypeOK
  <2> QED BY <1>1, <1>2, <2>1, <2>3 DEF IInv
<1>6. ASSUME NEW n \in created, NEW m \in Name, On(n, m) PROVE IInv'
  <2>1. Call /\ UNCHANGED <<created, parent, topDown>>
    BY <1>6 DEF On
  <2>2. targets' \in [Name -> SUBSET Name]
    BY <1>6 DEF On, IInv, TypeOK
  <2>3. TypeOK'
    BY <1>2, <1>6, <2>1, <2>2 DEF On, IInv, TypeOK
  <2> QED BY <1>1, <1>2, <2>1, <2>3 DEF IInv
<1>7. CASE Build
  <2>1. UNCHANGED <<created, parent, initial, parallel, targets, calls, topDown>>
    BY <1>7 DEF Build
  <2>2. TypeOK' /\ ResultInv'
    <3>1. \/ result' = "rejected"
          \/ result' = "endless" /\ Validate /\ DeepestInitial(RootName) = {}
          \/ result' = "accepted" /\ Validate
      BY <1>7 DEF Build
    <3>2. TypeOK'
      BY <2>1, <3>1 DEF IInv, TypeOK
    <3> QED BY <2>1, <3>1, <3>2, BuildReadsOnly DEF ResultInv
  <2> QED BY <1>1, <2>1, <2>2 DEF IInv
<1>8. CASE UNCHANGED vars
  <2>1. UNCHANGED <<created, parent, initial, parallel, targets, result, calls, topDown>>
    BY <1>8 DEF vars
  <2>2. TypeOK' /\ ResultInv'
    BY <2>1, BuildReadsOnly DEF IInv, TypeOK, ResultInv
  <2> QED BY <1>1, <2>1, <2>2 DEF IInv
<1> QED BY <1>3, <1>4, <1>5, <1>6, <1>7, <1>8 DEF Next

\* The invariant in every reachable state.
LEMMA SpecIInv == Spec => []IInv
<1> QED BY InitIInv, NextIInv, PTL DEF Spec

-----------------------------------------------------------------------------
(***************************************************************************)
(* The descent to an initial leaf.                                         *)
(***************************************************************************)

\* The states findDeepestInitial visits: the first, and the next of each.
LEMMA DescentClosed ==
  ASSUME NEW s \in Name, initial \in [Name -> Name]
  PROVE  s \in Descent(s) /\ \A d \in Descent(s) : InitialStep(d) \subseteq Descent(s)
<1>1. s \in Descent(s)
  BY DEF Descent
<1>2. ASSUME NEW d \in Descent(s), NEW e \in InitialStep(d) PROVE e \in Descent(s)
  <2>1. d \in Name /\ e \in Name
    BY <1>2 DEF Descent, InitialStep
  <2>2. ASSUME NEW U \in SUBSET Name, s \in U, ClosedUnderInitial(U) PROVE e \in U
    BY <1>2, <2>2 DEF Descent, ClosedUnderInitial
  <2> QED BY <2>1, <2>2 DEF Descent
<1> QED BY <1>1, <1>2

\* When initial states are children the descent goes down, and must end.
LEMMA DescentEnds ==
  ASSUME IInv, Validate, ChildInitials, NEW s \in created
  PROVE  DeepestInitial(s) # {} /\ Descent(s) \subseteq created
<1> DEFINE D == Descent(s)
<1>0. s \in Name /\ created \subseteq Name /\ initial \in [Name -> Name]
  BY DEF IInv, TypeOK
<1>1. s \in D /\ \A d \in D : InitialStep(d) \subseteq D
  BY <1>0, DescentClosed
<1>2. D \subseteq created
  <2>1. ClosedUnderInitial(created)
    BY DEF ClosedUnderInitial, InitialStep, Validate
  <2> QED BY <1>0, <2>1 DEF Descent
<1>3. ASSUME NEW d \in D, InitialStep(d) # {}
      PROVE  \E e \in D : Depth(d) < Depth(e)
  <2>1. initial[d] \in InitialStep(d) /\ initial[d] # RootName
    BY <1>3 DEF InitialStep
  <2>2. ParentName(initial[d]) = d /\ initial[d] \in D
    BY <1>1, <1>2, <2>1 DEF ChildInitials
  <2> QED BY <1>0, <1>2, <2>1, <2>2, ParentAbove
<1> HIDE DEF D
<1>4. \E d \in D : InitialStep(d) = {}
  <2>1. PICK b \in Nat : \A d \in D : Depth(d) <= b
    BY <1>2 DEF IInv, DepthInv
  <2>2. \A d \in D : Depth(d) \in Nat
    BY <1>0, <1>2, ParentAbove
  <2> DEFINE M == {b - Depth(d) : d \in D}
  <2>3. M \in SUBSET Nat /\ M # {}
    BY <1>1, <2>1, <2>2
  <2>4. PICK i \in M : \A j \in M : i <= j
    BY <2>3, LeastNumber
  <2>5. PICK d \in D : i = b - Depth(d)
    BY <2>4
  <2>6. ASSUME NEW e \in D PROVE ~ (Depth(d) < Depth(e))
    <3>1. b - Depth(d) <= b - Depth(e)
      BY <2>4, <2>5
    <3>2. Depth(d) \in Nat /\ Depth(e) \in Nat
      BY <2>2
    <3> QED BY <3>1, <3>2
  <2> QED BY <1>3, <2>6
<1> QED BY <1>2, <1>4 DEF D, DeepestInitial

-----------------------------------------------------------------------------
(***************************************************************************)
(* The states of the machine.                                              *)
(***************************************************************************)

\* buildLUT reaches every declared state when they were declared from the top
\* down: else the highest one left out would have its parent in the machine.
LEMMA MachineIsAll ==
  ASSUME IInv, topDown
  PROVE  Machine = created
<1>0. RootName \in created /\ created \subseteq Name
  BY DEF IInv, TypeOK
<1>1. ASSUME NEW U \in SUBSET created, RootName \in U, ClosedUnderChildren(U)
      PROVE  created \subseteq U
  <2> SUFFICES ASSUME created \ U # {} PROVE FALSE
    OBVIOUS
  <2> DEFINE M == {Depth(s) : s \in created \ U}
  <2>1. \A s \in created : Depth(s) \in Nat
    BY <1>0, ParentAbove
  <2>2. M \in SUBSET Nat /\ M # {}
    BY <2>1
  <2>3. PICK i \in M : \A j \in M : i <= j
    BY <2>2, LeastNumber
  <2>4. PICK s \in created \ U : i = Depth(s)
    BY <2>3
  <2>5. s # RootName /\ parent[s] = ParentName(s) /\ parent[s] \in created
    <3>1. s # RootName /\ parent[s] = ParentName(s)
      BY <1>1 DEF IInv, TreeInv
    <3>2. ParentName(s) # Nowhere
      BY <1>0, NameAssumption DEF Nowhere
    <3> QED BY <1>0, <3>1, <3>2 DEF IInv, TypeOK
  <2>6. Depth(parent[s]) < Depth(s)
    BY <1>0, <2>5, ParentAbove
  <2>7. parent[s] \in U
    <3>1. parent[s] \notin U => Depth(parent[s]) \in M
      BY <2>5
    <3> QED BY <2>1, <2>3, <2>4, <2>5, <2>6, <3>1
  <2>8. s \in Children(parent[s])
    BY DEF Children
  <2> QED BY <1>1, <2>7, <2>8 DEF ClosedUnderChildren
<1> QED BY <1>1 DEF Machine

-----------------------------------------------------------------------------
(***************************************************************************)
(* The machine is a chart.                                                 *)
(***************************************************************************)

\* In a machine declared from the top down the links lead up, to the root.
LEMMA LinksLeadUp ==
  ASSUME IInv, topDown, NEW s \in Machine
  PROVE  /\ s \in Name /\ Depth(s) \in Nat
         /\ s = RootName => parent[s] = Nowhere
         /\ s # RootName => /\ parent[s] = ParentName(s) /\ parent[s] \in Machine
                           /\ parent[s] # Nowhere
                           /\ Depth(parent[s]) < Depth(s)
<1>1. s \in created /\ s \in Name
  BY MachineIsAll DEF IInv, TypeOK
<1>2. ParentName(s) \in Name /\ ParentName(s) # Nowhere
  BY <1>1, NameAssumption DEF Nowhere
<1>3. s # RootName => parent[s] = ParentName(s)
  BY <1>1 DEF IInv, TreeInv
<1>4. parent[s] # Nowhere => parent[s] \in Machine
  BY <1>1, MachineIsAll DEF IInv, TypeOK
<1>5. parent[RootName] = Nowhere
  BY DEF IInv, ParentInv
<1> QED BY <1>1, <1>2, <1>3, <1>4, <1>5, ParentAbove

\* Nowhere is not a state of the machine.
LEMMA NowhereIsNone == IInv => Nowhere \notin Machine
BY NameAssumption DEF IInv, TypeOK, Machine, Nowhere

\* The walk up from a state reaches the root: the highest state of a set that
\* the links do not leave can only be the root.
LEMMA RootIsAbove ==
  ASSUME IInv, topDown, NEW s \in Machine
  PROVE  RootName \in Tree!Ancestors(s)
<1>1. RootName \in Machine
  BY MachineIsAll DEF IInv, TypeOK
<1>2. ASSUME NEW U \in SUBSET Machine, s \in U, Tree!ClosedUnderParent(U)
      PROVE  RootName \in U
  <2> DEFINE M == {Depth(x) : x \in U}
  <2>1. M \in SUBSET Nat /\ M # {}
    BY <1>2, LinksLeadUp
  <2>2. PICK i \in M : \A j \in M : i <= j
    BY <2>1, LeastNumber
  <2>3. PICK x \in U : i = Depth(x)
    BY <2>2
  <2>4. x # RootName => parent[x] \in U /\ Depth(parent[x]) < Depth(x)
    BY <1>2, LinksLeadUp DEF Tree!ClosedUnderParent
  <2>5. x # RootName => Depth(x) <= Depth(parent[x])
    BY <2>2, <2>3, <2>4
  <2>6. x # RootName => Depth(parent[x]) \in Nat /\ Depth(x) \in Nat
    BY <2>4, LinksLeadUp
  <2> QED BY <2>4, <2>5, <2>6
<1> QED BY <1>1, <1>2 DEF Tree!Ancestors, Tree!Lineage, Tree!Above

\* The walk up from the parent of a state does not come to the state.
LEMMA NoStateAboveItself ==
  ASSUME IInv, topDown, NEW s \in Machine, s # RootName
  PROVE  s \notin Tree!Ancestors(parent[s])
<1> DEFINE U == {x \in Machine : Depth(x) < Depth(s)}
<1>1. parent[s] \in U /\ s \notin U
  BY LinksLeadUp
<1>2. ASSUME NEW x \in U, x # RootName PROVE parent[x] \in U
  <2>1. Depth(parent[x]) < Depth(x) /\ Depth(x) < Depth(s) /\ parent[x] \in Machine
    BY <1>2, LinksLeadUp
  <2>2. Depth(parent[x]) \in Nat /\ Depth(x) \in Nat /\ Depth(s) \in Nat
    BY <2>1, LinksLeadUp
  <2> QED BY <2>1, <2>2
<1>3. Tree!ClosedUnderParent(U)
  BY <1>2, LinksLeadUp DEF Tree!ClosedUnderParent
<1> QED BY <1>1, <1>3 DEF Tree!Ancestors, Tree!Lineage, Tree!Above

\* The links between the states of the machine make it a tree.
LEMMA MachineIsTree == IInv /\ topDown => Tree!IsTree
<1> SUFFICES ASSUME IInv, topDown PROVE Tree!IsTree
  OBVIOUS
<1>1. RootName \in Machine
  BY MachineIsAll DEF IInv, TypeOK
<1>2. [s \in Machine |-> parent[s]] \in [Machine -> Machine \cup {Nowhere}]
  BY LinksLeadUp
<1>3. \A s \in Machine : [x \in Machine |-> parent[x]][s] = Nowhere <=> s = RootName
  BY LinksLeadUp
<1>4. ASSUME NEW s \in Machine, [x \in Machine |-> parent[x]][s] # Nowhere
      PROVE  s \notin Tree!Ancestors([x \in Machine |-> parent[x]][s])
  BY <1>3, <1>4, NoStateAboveItself
<1> QED BY <1>1, <1>2, <1>3, <1>4, NowhereIsNone, RootIsAbove DEF Tree!IsTree

\* The descents of the machine are those of the chart, and end in it.
LEMMA MachineDescends ==
  ASSUME IInv, topDown, Validate, ChildInitials, NEW s \in Machine
  PROVE  \E d \in Machine : <<s, d>> \in Tree!InitialLineage /\ Tree!InitialChild(d) = Nowhere
<1>1. s \in created /\ Machine = created /\ created \subseteq Name
  BY MachineIsAll DEF IInv, TypeOK
<1>2. PICK d \in DeepestInitial(s) : d \in Machine
  BY <1>1, DescentEnds DEF DeepestInitial
<1>3. d \in Descent(s) /\ InitialStep(d) = {}
  BY <1>2 DEF DeepestInitial
<1>4. Tree!InitialChild(d) = Nowhere
  BY <1>2, <1>3 DEF Tree!InitialChild, InitialStep
<1>5. ASSUME NEW U \in SUBSET Machine, s \in U, Tree!ClosedUnderInitial(U)
      PROVE  d \in U
  <2>1. ASSUME NEW x \in U PROVE InitialStep(x) \subseteq U
    <3>1. InitialStep(x) # {} => Tree!InitialChild(x) = initial[x] /\ initial[x] # RootName
      BY <2>1 DEF InitialStep, Tree!InitialChild
    <3>2. InitialStep(x) # {} => initial[x] \in Name
      BY <1>1, <2>1 DEF IInv, TypeOK
    <3>3. InitialStep(x) # {} => initial[x] \in U
      BY <1>5, <3>1, <3>2, NameAssumption DEF Tree!ClosedUnderInitial, Nowhere
    <3> QED BY <3>3 DEF InitialStep
  <2> QED BY <1>1, <1>3, <1>5, <2>1 DEF Descent, ClosedUnderInitial
<1>6. d \in Tree!InitialBelow(s)
  BY <1>2, <1>5 DEF Tree!InitialBelow
<1> QED BY <1>2, <1>4, <1>6 DEF Tree!InitialLineage

\* Every compound state of the machine has a child to begin with.
LEMMA MachineInitials ==
  IInv /\ topDown /\ Validate /\ ChildInitials => Tree!InitialsLead
<1> SUFFICES ASSUME IInv, topDown, Validate, ChildInitials PROVE Tree!InitialsLead
  OBVIOUS
<1> DEFINE First == [s \in Machine |-> IF initial[s] = RootName THEN Nowhere ELSE initial[s]]
<1> DEFINE Up == [s \in Machine |-> parent[s]]
<1>1. Machine = created /\ created \subseteq Name
  BY MachineIsAll DEF IInv, TypeOK
<1>2. \A s \in Machine : initial[s] \in Machine /\ initial[s] # Nowhere
  BY <1>1, NowhereIsNone DEF Validate
<1>3. First \in [Machine -> Machine \cup {Nowhere}]
  BY <1>2
<1>4. ASSUME NEW s \in Machine, First[s] # Nowhere PROVE Up[First[s]] = s
  <2>1. First[s] = initial[s] /\ initial[s] # RootName /\ initial[s] \in Machine
    BY <1>2, <1>4
  <2>2. Up[First[s]] = parent[initial[s]]
    BY <2>1
  <2>3. parent[initial[s]] = ParentName(initial[s])
    BY <2>1, LinksLeadUp
  <2> QED BY <1>1, <2>1, <2>2, <2>3 DEF ChildInitials
<1>5. ASSUME NEW s \in Machine \ (parallel \cap Machine), Tree!Children(s) # {}
      PROVE  First[s] # Nowhere
  <2>1. Children(s) # {}
    BY <1>1, <1>5 DEF Tree!Children, Children
  <2>2. initial[s] # RootName
    BY <1>1, <2>1 DEF Validate
  <2> QED BY <1>2, <2>2
<1>6. \A s \in Machine : \E d \in Machine :
         <<s, d>> \in Tree!InitialLineage /\ Tree!InitialChild(d) = Nowhere
  BY MachineDescends
<1> QED BY <1>3, <1>4, <1>5, <1>6 DEF Tree!InitialsLead

-----------------------------------------------------------------------------
(***************************************************************************)
(* The theorems.                                                           *)
(***************************************************************************)

\* State, Compound, Parallel and On keep b.states and the links between them
\* in their types, and no link leads out of b.states.
THEOREM BuilderTypeCorrect == Spec => []TypeOK
<1>1. IInv => TypeOK
  BY DEF IInv
<1> QED BY <1>1, SpecIInv, PTL

\* Build comes back from findDeepestInitial whenever initial states are
\* children, in whatever order the states were declared.
THEOREM BuildReturnsCorrect == Spec => []BuildReturns
<1>1. IInv => BuildReturns
  <2> SUFFICES ASSUME IInv, ChildInitials, result = "endless" PROVE FALSE
    BY DEF BuildReturns
  <2>1. Validate /\ DeepestInitial(RootName) = {} /\ RootName \in created
    BY DEF IInv, ResultInv, TypeOK
  <2> QED BY <2>1, DescentEnds
<1> QED BY <1>1, SpecIInv, PTL

\* A machine that Build accepts, declared from the top down with children as
\* initial states, is a chart: nothing is missing, and it satisfies what the
\* theorems about the runtimes assume of a chart's tree and initial states.
THEOREM AcceptedIsChartCorrect == Spec => []AcceptedIsChart
<1>1. IInv => AcceptedIsChart
  <2> SUFFICES ASSUME IInv, result = "accepted", topDown, ChildInitials
               PROVE  /\ Machine = created
                      /\ \A s \in created \ {RootName} : parent[s] = ParentName(s)
                      /\ Tree!IsTree
                      /\ Tree!InitialsLead
                      /\ \A s \in Machine : targets[s] \subseteq Machine
    BY DEF AcceptedIsChart
  <2>1. Validate
    BY DEF IInv, ResultInv
  <2>2. Machine = created
    BY MachineIsAll
  <2>3. \A s \in created \ {RootName} : parent[s] = ParentName(s)
    BY DEF IInv, TreeInv
  <2>4. \A s \in Machine : targets[s] \subseteq Machine
    BY <2>1, <2>2 DEF Validate
  <2> QED BY <2>1, <2>2, <2>3, <2>4, MachineIsTree, MachineInitials
<1> QED BY <1>1, SpecIInv, PTL

=============================================================================
