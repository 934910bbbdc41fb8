------------------------- MODULE CountMethodsProofs -------------------------
(***************************************************************************)
(* Proofs that the counters never overstate, that the registers go to the  *)
(* first methods and that no breakpoint is left behind, for any number of  *)
(* CPUs, methods, registers, rounds and hits.                              *)
(***************************************************************************)
EXTENDS CountMethods, FiniteSetTheorems, TLAPS

\* The CPUs that are incrementing a counter.
BusyCpus(b) == {c \in Cpus : cpu[c].bp = b}

\* The inductive invariant: a counter, and every value a CPU has loaded from
\* it, leaves room for the increments that are under way.
IInv ==
    /\ counter \in [BPs -> Nat] /\ allHits \in [BPs -> Nat]
    /\ cpu \in [Cpus -> {NoBP} \cup [bp : BPs, val : Nat]]
    /\ attached \subseteq BPs
    /\ step \in Nat \ {0}
    /\ \A b \in BPs : counter[b] + Busy(b) <= allHits[b]
    /\ \A c \in Cpus, b \in BPs : cpu[c].bp = b => cpu[c].val + Busy(b) <= allHits[b]

\* The idle value is not that of a breakpoint.
LEMMA FreeIsNoBP == Free \notin BPs /\ NoBP.bp = Free
  <1>1. \A b \in BPs : b.kind \in Kinds
    BY DEF BPs
  <1>2. Free.kind = "none"
    BY DEF Free
  <1>3. "none" \notin Kinds
    BY DEF Kinds
  <1> QED
    BY <1>1, <1>2, <1>3 DEF NoBP

\* The number of CPUs at a counter is a natural number.
LEMMA BusyNat == \A b : IsFiniteSet(BusyCpus(b)) /\ Busy(b) = Cardinality(BusyCpus(b))
                        /\ Busy(b) \in Nat
  <1> SUFFICES ASSUME NEW b
               PROVE  IsFiniteSet(BusyCpus(b)) /\ Busy(b) = Cardinality(BusyCpus(b))
                      /\ Busy(b) \in Nat
    OBVIOUS
  <1>1. BusyCpus(b) \subseteq Cpus /\ Busy(b) = Cardinality(BusyCpus(b))
    BY DEF BusyCpus, Busy
  <1>2. IsFiniteSet(BusyCpus(b))
    BY <1>1, CpusAssumption, FS_Subset
  <1> QED
    BY <1>1, <1>2, FS_CardinalityType

\* Nobody is at a counter at the start.
LEMMA InitIInv == Init => IInv
  <1> SUFFICES ASSUME Init PROVE IInv
    OBVIOUS
  <1>1. \A c \in Cpus : cpu[c].bp = Free
    BY FreeIsNoBP DEF Init
  <1>2. \A b \in BPs : BusyCpus(b) = {}
    BY <1>1, FreeIsNoBP DEF BusyCpus
  <1>3. \A b \in BPs : Busy(b) = 0
    BY <1>2, BusyNat, FS_EmptySet
  <1>4. \A c \in Cpus : cpu[c].bp \notin BPs
    BY <1>1, FreeIsNoBP
  <1>5. cpu \in [Cpus -> {NoBP} \cup [bp : BPs, val : Nat]]
    BY DEF Init
  <1> QED
    BY <1>3, <1>4, <1>5 DEF Init, IInv, Zero

\* A step that leaves the CPUs and the counters alone keeps the invariant.
LEMMA OtherSteps ==
    ASSUME IInv, UNCHANGED <<counter, cpu, allHits>>,
           attached' \subseteq BPs, step' \in Nat \ {0}
    PROVE  IInv'
  <1>1. \A b : Busy(b)' = Busy(b)
    BY DEF Busy
  <1> QED
    BY <1>1 DEF IInv

\* The breakpoints of CountMethods are breakpoints.
LEMMA BPType == ASSUME step \in Nat \ {0}, step <= 2 * n
                PROVE  BP(step) \in BPs
  <1>1. n \in Nat
    BY CountAssumption
  <1>2. (step + 1) \div 2 \in 1..n
    BY <1>1
  <1>3. (IF step % 2 = 1 THEN "entry" ELSE "return") \in Kinds
    BY DEF Kinds
  <1> QED
    BY <1>2, <1>3 DEF BP, BPs, Counters

\* A hit: one more under way, one more hit, and the value loaded is the
\* counter's.
LEMMA HitStep ==
    ASSUME IInv, NEW c \in Cpus, NEW b \in BPs, Hit(c, b)
    PROVE  IInv'
  <1>1. cpu[c] = NoBP /\ cpu[c].bp = Free /\ b # Free
    BY FreeIsNoBP DEF Hit
  <1>2. cpu' = [cpu EXCEPT ![c] = [bp |-> b, val |-> counter[b]]]
        /\ counter' = counter /\ allHits' = [allHits EXCEPT ![b] = @ + 1]
        /\ UNCHANGED <<attached, step>>
    BY DEF Hit
  <1>3. c \notin BusyCpus(b) /\ BusyCpus(b)' = BusyCpus(b) \cup {c}
    BY <1>1, <1>2 DEF BusyCpus, IInv
  <1>4. Busy(b)' = Busy(b) + 1
    <2>1. Busy(b)' = Cardinality(BusyCpus(b)')
      BY DEF Busy, BusyCpus
    <2> QED
      BY <1>3, <2>1, BusyNat, FS_AddElement
  <1>5. \A a \in BPs : a # b => Busy(a)' = Busy(a)
    <2>1. ASSUME NEW a \in BPs, a # b PROVE BusyCpus(a)' = BusyCpus(a)
      <3>1. a # Free
        BY FreeIsNoBP
      <3> QED
        BY <1>1, <1>2, <2>1, <3>1 DEF BusyCpus, IInv
    <2> QED
      BY <2>1 DEF Busy, BusyCpus
  <1>6. counter[b] \in Nat /\ allHits[b] \in Nat /\ Busy(b) \in Nat
        /\ counter[b] + Busy(b) <= allHits[b]
    BY BusyNat DEF IInv
  <1>7. allHits'[b] = allHits[b] + 1 /\ \A a \in BPs : a # b => allHits'[a] = allHits[a]
    BY <1>2 DEF IInv
  <1>8. \A a \in BPs : counter'[a] + Busy(a)' <= allHits'[a]
    BY <1>2, <1>4, <1>5, <1>6, <1>7 DEF IInv
  <1>9. ASSUME NEW d \in Cpus, NEW a \in BPs, cpu'[d].bp = a
        PROVE  cpu'[d].val + Busy(a)' <= allHits'[a]
    <2>1. CASE d = c
      <3>1. a = b /\ cpu'[d].val = counter[b]
        BY <1>2, <1>9, <2>1 DEF IInv
      <3> QED
        BY <1>4, <1>6, <1>7, <3>1
    <2>2. CASE d # c
      <3>1. cpu'[d] = cpu[d] /\ cpu[d].bp = a
        BY <1>2, <1>9, <2>2 DEF IInv
      <3>2. cpu[d].val + Busy(a) <= allHits[a]
        BY <3>1 DEF IInv
      <3>3. cpu[d] \in [bp : BPs, val : Nat]
        BY <3>1, FreeIsNoBP DEF IInv
      <3>4. cpu[d].val \in Nat /\ allHits[a] \in Nat /\ Busy(a) \in Nat
        BY <3>3, BusyNat DEF IInv
      <3>5. CASE a = b
        BY <1>4, <1>7, <3>1, <3>2, <3>4, <3>5
      <3>6. CASE a # b
        BY <1>5, <1>7, <3>1, <3>2, <3>4, <3>6
      <3> QED
        BY <3>5, <3>6
    <2> QED
      BY <2>1, <2>2
  <1>10. allHits' \in [BPs -> Nat]
         /\ cpu' \in [Cpus -> {NoBP} \cup [bp : BPs, val : Nat]]
    BY <1>2, <1>6 DEF IInv
  <1> QED
    BY <1>2, <1>8, <1>9, <1>10 DEF IInv

\* A store: one less under way, and the counter becomes at most one more than a
\* value that left room for it.
LEMMA StoreStep ==
    ASSUME IInv, NEW c \in Cpus, Store(c)
    PROVE  IInv'
  <1>0. cpu[c] \in [bp : BPs, val : Nat]
    BY DEF Store, IInv
  <1>1. PICK b \in BPs, v \in Nat : cpu[c] = [bp |-> b, val |-> v]
    BY <1>0
  <1>2. counter' = [counter EXCEPT ![b] = v + 1] /\ cpu' = [cpu EXCEPT ![c] = NoBP]
        /\ allHits' = allHits /\ UNCHANGED <<attached, step>>
    BY <1>1 DEF Store
  <1>3. v + Busy(b) <= allHits[b] /\ allHits[b] \in Nat /\ Busy(b) \in Nat
    BY <1>1, BusyNat DEF IInv
  <1>4. c \in BusyCpus(b)
    BY <1>1 DEF BusyCpus
  <1>5. b # Free
    BY <1>1, FreeIsNoBP
  <1>6. BusyCpus(b)' = BusyCpus(b) \ {c}
    BY <1>1, <1>2, <1>5, FreeIsNoBP DEF BusyCpus, IInv
  <1>7. Busy(b)' = Busy(b) - 1
    <2>1. Busy(b)' = Cardinality(BusyCpus(b)')
      BY DEF Busy, BusyCpus
    <2> QED
      BY <1>4, <1>6, <2>1, BusyNat, FS_RemoveElement
  <1>8. ASSUME NEW a \in BPs, a # b PROVE Busy(a)' = Busy(a)
    <2>1. a # Free
      BY FreeIsNoBP
    <2>2. BusyCpus(a)' = BusyCpus(a)
      BY <1>1, <1>2, <1>8, <2>1, FreeIsNoBP DEF BusyCpus, IInv
    <2> QED
      BY <2>2 DEF Busy, BusyCpus
  <1>9. ASSUME NEW a \in BPs PROVE counter'[a] + Busy(a)' <= allHits'[a]
    <2>1. CASE a = b
      <3>1. counter'[a] = v + 1
        BY <1>1, <1>2, <2>1 DEF IInv
      <3> QED
        BY <1>1, <1>2, <1>3, <1>7, <2>1, <3>1
    <2>2. CASE a # b
      <3>1. counter'[a] = counter[a]
        BY <1>2, <2>2 DEF IInv
      <3> QED
        BY <1>2, <1>8, <2>2, <3>1 DEF IInv
    <2> QED
      BY <2>1, <2>2
  <1>10. ASSUME NEW d \in Cpus, NEW a \in BPs, cpu'[d].bp = a
         PROVE  cpu'[d].val + Busy(a)' <= allHits'[a]
    <2>1. d # c
      BY <1>2, <1>10, FreeIsNoBP DEF IInv
    <2>2. cpu'[d] = cpu[d] /\ cpu[d].bp = a
      BY <1>2, <1>10, <2>1 DEF IInv
    <2>3. cpu[d].val + Busy(a) <= allHits[a]
      BY <2>2 DEF IInv
    <2>4. cpu[d] \in [bp : BPs, val : Nat]
      BY <2>2, FreeIsNoBP DEF IInv
    <2>5. cpu[d].val \in Nat /\ allHits[a] \in Nat /\ Busy(a) \in Nat
      BY <2>4, BusyNat DEF IInv
    <2>6. Busy(a)' \in {Busy(a), Busy(a) - 1}
      BY <1>7, <1>8
    <2> QED
      BY <1>2, <2>2, <2>3, <2>5, <2>6
  <1>11. counter' \in [BPs -> Nat]
         /\ cpu' \in [Cpus -> {NoBP} \cup [bp : BPs, val : Nat]]
    BY <1>1, <1>2 DEF IInv
  <1> QED
    BY <1>2, <1>9, <1>10, <1>11 DEF IInv

\* No step breaks the invariant.
LEMMA NextIInv == IInv /\ [Next]_vars => IInv'
  <1> SUFFICES ASSUME IInv, [Next]_vars PROVE IInv'
    OBVIOUS
  <1>1. ASSUME NEW c \in Cpus, Store(c) PROVE IInv'
    BY <1>1, StoreStep
  <1>2. ASSUME NEW c \in Cpus, NEW b \in BPs, Hit(c, b) PROVE IInv'
    BY <1>2, HitStep
  <1>3. CASE CountMethods
    BY <1>3, OtherSteps DEF CountMethods, IInv
  <1>4. CASE AttachBreakPoint
    <2>1. BP(step) \in BPs
      BY <1>4, BPType DEF AttachBreakPoint, IInv
    <2> QED
      BY <1>4, <2>1, OtherSteps DEF AttachBreakPoint, Attach, IInv
  <1>5. CASE Sleep
    BY <1>5, OtherSteps DEF Sleep, IInv
  <1>6. CASE EndSleep
    BY <1>6, OtherSteps DEF EndSleep, IInv
  <1>7. CASE DetachBreakPoint
    BY <1>7, OtherSteps DEF DetachBreakPoint, IInv
  <1>8. CASE PrintCounts
    BY <1>8, OtherSteps DEF PrintCounts, IInv
  <1>9. CASE UNCHANGED vars
    BY <1>9, OtherSteps DEF vars, IInv
  <1> QED
    BY <1>1, <1>2, <1>3, <1>4, <1>5, <1>6, <1>7, <1>8, <1>9 DEF Next, Finished

\* No counter of CountMethods ever exceeds the hits of its own breakpoint,
\* whatever the CPUs do and however many rounds have run.
THEOREM NeverOverstated == Spec => []CountsNeverOverstated
  <1>1. IInv => CountsNeverOverstated
    BY DEF IInv, CountsNeverOverstated
  <1> QED
    BY <1>1, InitIInv, NextIInv, PTL DEF Spec

-----------------------------------------------------------------------------
\* Why a breakpoint is not attached.
Missing(b) ==
    \/ b \in refused \/ b.i > Functions
    \/ Cardinality({a \in attached : a.i <= b.i}) >= DebugRegs

\* The breakpoints in the registers.  A CPU is only at one that is attached; in
\* the first half of a round those up to step are attached as far as possible,
\* in the second half those from step on may still be.
Registers ==
    /\ IsFiniteSet(attached)
    /\ \A c \in Cpus : cpu[c] # NoBP => cpu[c].bp \in attached
    /\ pc = "idle" => attached = {}
    /\ pc \in {"attach", "sleep"} =>
          /\ \A b \in attached : \E k \in 1..(step - 1) : BP(k) = b
          /\ \A k \in 1..(step - 1) : BP(k) \in attached \/ Missing(BP(k))
    /\ pc = "sleep" => step = 2 * n + 1
    /\ pc = "detach" => \A b \in attached : \E k \in step..(2 * n) : BP(k) = b

RInv == IInv /\ TypeOK /\ Registers

\* BP goes through all breakpoints.
LEMMA EveryBP ==
    ASSUME NEW b \in BPs
    PROVE  \E k \in 1..(2 * n) : BP(k) = b
<1>0. n \in Nat /\ b.i \in 1..n /\ b.kind \in {"entry", "return"}
      /\ b = [kind |-> b.kind, i |-> b.i]
  BY CountAssumption DEF BPs, Kinds, Counters
<1>1. CASE b.kind = "entry"
  <2> DEFINE k == 2 * b.i - 1
  <2>1. k \in 1..(2 * n) /\ k % 2 = 1 /\ (k + 1) \div 2 = b.i
    BY <1>0
  <2>2. BP(k) = b
    BY <1>0, <1>1, <2>1 DEF BP
  <2> QED
    BY <2>1, <2>2
<1>2. CASE b.kind = "return"
  <2> DEFINE k == 2 * b.i
  <2>1. k \in 1..(2 * n) /\ k % 2 # 1 /\ (k + 1) \div 2 = b.i
    BY <1>0
  <2>2. BP(k) = b
    BY <1>0, <1>2, <2>1 DEF BP
  <2> QED
    BY <2>1, <2>2
<1> QED
  BY <1>0, <1>1, <1>2

\* BP goes through the methods in their order.
LEMMA BPOrder ==
    ASSUME NEW k \in Nat, NEW l \in Nat, k <= l
    PROVE  BP(k).i <= BP(l).i
<1>1. (k + 1) \div 2 <= (l + 1) \div 2
  OBVIOUS
<1> QED
  BY <1>1 DEF BP

LEMMA RInvInit == Init => RInv
<1> SUFFICES ASSUME Init PROVE RInv
  OBVIOUS
<1>0. n \in Nat \ {0} /\ MaxRounds \in Nat
  BY CountAssumption, CountBounds
<1>1. NoBP \in [bp : BPs \cup {Free}, val : Nat]
  BY DEF NoBP
<1>2. TypeOK
  BY <1>0, <1>1 DEF Init, TypeOK, Zero
<1>3. Registers
  BY FS_EmptySet DEF Init, Registers
<1> QED
  BY <1>2, <1>3, InitIInv DEF RInv

\* The types.
LEMMA TypesStep == TypeOK /\ [Next]_vars => TypeOK'
<1> SUFFICES ASSUME TypeOK, [Next]_vars PROVE TypeOK'
  OBVIOUS
<1>0. n \in Nat \ {0} /\ MaxRounds \in Nat
  BY CountAssumption, CountBounds
<1>n. NoBP \in [bp : BPs \cup {Free}, val : Nat]
  BY DEF NoBP
<1> USE DEF TypeOK
<1>1. ASSUME NEW c \in Cpus, Store(c) PROVE TypeOK'
  <2>1. cpu[c].bp \in BPs \cup {Free} /\ cpu[c].val + 1 \in Nat
    OBVIOUS
  <2>2. counter' \in [BPs -> Nat]
    BY <1>1, <2>1 DEF Store
  <2> QED
    BY <1>1, <1>n, <2>2 DEF Store
<1>2. ASSUME NEW c \in Cpus, NEW b \in BPs, Hit(c, b) PROVE TypeOK'
  <2>1. [bp |-> b, val |-> counter[b]] \in [bp : BPs \cup {Free}, val : Nat]
    OBVIOUS
  <2>2. cpu' \in [Cpus -> [bp : BPs \cup {Free}, val : Nat]]
    BY <1>2, <2>1 DEF Hit
  <2>3. hits' \in [BPs -> Nat] /\ allHits' \in [BPs -> Nat]
    BY <1>2 DEF Hit
  <2> QED
    BY <1>2, <2>2, <2>3 DEF Hit
<1>3. CASE CountMethods
  BY <1>0, <1>3 DEF CountMethods, Zero
<1>4. CASE AttachBreakPoint
  <2>1. BP(step) \in BPs
    BY <1>4, BPType DEF AttachBreakPoint
  <2>2. step + 1 \in 1..(2 * n + 1)
    BY <1>0, <1>4 DEF AttachBreakPoint
  <2> QED
    BY <1>4, <2>1, <2>2 DEF AttachBreakPoint, Attach
<1>5. CASE Sleep \/ EndSleep \/ PrintCounts
  BY <1>0, <1>5 DEF Sleep, EndSleep, PrintCounts
<1>6. CASE DetachBreakPoint
  <2>1. step + 1 \in 1..(2 * n + 1)
    BY <1>0, <1>6 DEF DetachBreakPoint
  <2> QED
    BY <1>6, <2>1 DEF DetachBreakPoint
<1>7. CASE UNCHANGED vars
  BY <1>7 DEF vars
<1> QED
  BY <1>1, <1>2, <1>3, <1>4, <1>5, <1>6, <1>7 DEF Next, Finished

\* What is missing stays missing when another breakpoint gets a register.
LEMMA StillMissing ==
    ASSUME IsFiniteSet(attached'), attached \subseteq attached', refused \subseteq refused',
           DebugRegs \in Nat, NEW b, Missing(b)
    PROVE  Missing(b)'
<1> DEFINE S == {a \in attached : a.i <= b.i}
           T == {a \in attached' : a.i <= b.i}
<1>1. S \subseteq T /\ IsFiniteSet(T)
  BY FS_Subset
<1>2. Cardinality(S) \in Nat /\ Cardinality(T) \in Nat /\ Cardinality(S) <= Cardinality(T)
  BY <1>1, FS_Subset, FS_CardinalityType
<1> QED
  BY <1>2 DEF Missing

\* One breakpoint more in the registers, or a reason why not: before it come the
\* breakpoints of its own method and of those before.
LEMMA AttachStep == RInv /\ AttachBreakPoint => Registers'
<1> SUFFICES ASSUME RInv, AttachBreakPoint PROVE Registers'
  OBVIOUS
<1>1. /\ pc = "attach" /\ pc' = pc /\ cpu' = cpu /\ step' = step + 1
      /\ step \in 1..(2 * n) /\ n \in Nat /\ DebugRegs \in Nat /\ Functions \in Nat
      /\ IsFiniteSet(attached)
  BY CountAssumption DEF AttachBreakPoint, RInv, TypeOK, Registers
<1>2. Attach(BP(step)) /\ Cardinality(attached) \in Nat
  BY <1>1, FS_CardinalityType DEF AttachBreakPoint
<1>3. /\ attached \subseteq attached' /\ refused \subseteq refused'
      /\ attached' \subseteq attached \cup {BP(step)}
  BY <1>2 DEF Attach
<1>4. IsFiniteSet(attached')
  BY <1>1, <1>3, FS_AddElement, FS_Subset
<1>5. ASSUME NEW b \in attached'
      PROVE  \E k \in 1..(step' - 1) : BP(k) = b
  <2>1. CASE b \in attached
    <3>1. PICK k \in 1..(step - 1) : BP(k) = b
      BY <1>1, <2>1 DEF RInv, Registers
    <3>2. k \in 1..(step' - 1)
      BY <1>1
    <3> QED
      BY <3>1, <3>2
  <2>2. CASE b = BP(step)
    <3>1. step \in 1..(step' - 1)
      BY <1>1
    <3> QED
      BY <2>2, <3>1
  <2> QED
    BY <1>3, <2>1, <2>2
<1>6. ASSUME NEW k \in 1..(step' - 1)
      PROVE  BP(k) \in attached' \/ Missing(BP(k))'
  <2>1. CASE k \in 1..(step - 1)
    <3>1. BP(k) \in attached \/ Missing(BP(k))
      BY <1>1, <2>1 DEF RInv, Registers
    <3>2. ASSUME Missing(BP(k)) PROVE Missing(BP(k))'
      <4> DEFINE b == BP(k)
      <4>1. Missing(b)
        BY <3>2
      <4>2. b' = b
        BY DEF BP
      <4> HIDE DEF b
      <4>3. Missing(b)'
        BY <1>1, <1>3, <1>4, <4>1, <4>2, StillMissing DEF Missing
      <4> QED
        BY <4>3 DEF b
    <3> QED
      BY <1>3, <3>1, <3>2
  <2>2. CASE k = step
    <3>1. CASE BP(step) \in attached'
      BY <2>2, <3>1
    <3>2. CASE BP(step) \in refused'
      BY <2>2, <3>2 DEF Missing, BP
    <3>3. CASE ~ Permitted /\ UNCHANGED <<attached, refused>>
      <4>1. CASE ~ (BP(step).i <= Functions)
        <5>1. BP(step).i \in Nat
          BY <1>1 DEF BP
        <5> QED
          BY <1>1, <2>2, <4>1, <5>1 DEF Missing, BP
      <4>2. CASE ~ (Cardinality(attached) < DebugRegs)
        <5>1. ASSUME NEW a \in attached PROVE a.i <= BP(step).i
          <6>1. PICK j \in 1..(step - 1) : BP(j) = a
            BY <1>1 DEF RInv, Registers
          <6>2. j \in Nat /\ step \in Nat /\ j <= step
            BY <1>1
          <6> QED
            BY <6>1, <6>2, BPOrder
        <5>2. {a \in attached' : a.i <= BP(step).i} = attached
          BY <3>3, <5>1
        <5>3. Cardinality({a \in attached' : a.i <= BP(step).i}) >= DebugRegs
          <6>1. Cardinality(attached) >= DebugRegs
            BY <1>1, <1>2, <4>2
          <6> QED
            BY <5>2, <6>1, Zenon
        <5> QED
          BY <2>2, <5>3 DEF Missing, BP
      <4> QED
        BY <3>3, <4>1, <4>2 DEF Permitted
    <3> QED
      BY <1>2, <3>1, <3>2, <3>3 DEF Attach
  <2> QED
    BY <1>1, <2>1, <2>2
<1>7. \A c \in Cpus : cpu'[c] # NoBP => cpu'[c].bp \in attached'
  BY <1>1, <1>3 DEF RInv, Registers
<1> QED
  BY <1>1, <1>4, <1>5, <1>6, <1>7 DEF Registers

\* One breakpoint less, with nobody at it.
LEMMA DetachStep == RInv /\ DetachBreakPoint => Registers'
<1> SUFFICES ASSUME RInv, DetachBreakPoint PROVE Registers'
  OBVIOUS
<1>1. /\ pc = "detach" /\ pc' = pc /\ cpu' = cpu /\ step' = step + 1
      /\ step \in 1..(2 * n) /\ n \in Nat
      /\ \A c \in Cpus : cpu[c].bp # BP(step)
      /\ attached' = attached \ {BP(step)}
  BY CountAssumption DEF DetachBreakPoint, RInv, TypeOK
<1>2. IsFiniteSet(attached')
  BY <1>1, FS_Subset DEF RInv, Registers
<1>3. ASSUME NEW b \in attached' PROVE \E k \in step'..(2 * n) : BP(k) = b
  <2>1. PICK k \in step..(2 * n) : BP(k) = b
    BY <1>1, <1>3 DEF RInv, Registers
  <2>2. k # step
    BY <1>1, <1>3, <2>1
  <2> QED
    BY <1>1, <2>1, <2>2
<1> QED
  BY <1>1, <1>2, <1>3 DEF RInv, Registers

\* The registers after every step.
LEMMA RegistersStep == RInv /\ [Next]_vars => Registers'
<1> SUFFICES ASSUME RInv, [Next]_vars PROVE Registers'
  OBVIOUS
<1>0. n \in Nat \ {0}
  BY CountAssumption
<1>1. ASSUME NEW c \in Cpus, Store(c) PROVE Registers'
  BY <1>1 DEF Store, RInv, TypeOK, Registers, Missing, BP
<1>2. ASSUME NEW c \in Cpus, NEW b \in BPs, Hit(c, b) PROVE Registers'
  BY <1>2 DEF Hit, RInv, TypeOK, Registers, Missing, BP
<1>3. CASE CountMethods
  BY <1>3, FS_EmptySet DEF CountMethods, RInv, Registers
<1>4. CASE AttachBreakPoint
  BY <1>4, AttachStep
<1>5. CASE Sleep
  <2>1. /\ pc = "attach" /\ pc' = "sleep" /\ step = 2 * n + 1
        /\ UNCHANGED <<step, attached, refused, cpu>>
    BY <1>0, <1>5 DEF Sleep, RInv, TypeOK
  <2>2. \A k \in 1..(step' - 1) : BP(k) \in attached' \/ Missing(BP(k))'
    BY <2>1 DEF RInv, Registers, Missing, BP
  <2>3. Registers
    BY DEF RInv
  <2> QED
    BY <2>1, <2>2, <2>3 DEF Registers
<1>6. CASE EndSleep
  <2>1. \A b \in attached : \E k \in 1..(2 * n) : BP(k) = b
    BY EveryBP DEF RInv, TypeOK
  <2> QED
    BY <1>6, <2>1 DEF EndSleep, RInv, Registers
<1>7. CASE DetachBreakPoint
  BY <1>7, DetachStep
<1>8. CASE PrintCounts
  <2>1. \A k : k \notin step..(2 * n)
    BY <1>0, <1>8 DEF PrintCounts, RInv, TypeOK
  <2>2. attached = {}
    BY <1>8, <2>1 DEF PrintCounts, RInv, Registers
  <2> QED
    BY <1>8, <2>2 DEF PrintCounts, RInv, Registers
<1>9. CASE UNCHANGED vars
  BY <1>9 DEF vars, RInv, Registers, Missing, BP
<1> QED
  BY <1>1, <1>2, <1>3, <1>4, <1>5, <1>6, <1>7, <1>8, <1>9 DEF Next, Finished

LEMMA RegistersInvariant == Spec => []RInv
<1>1. RInv /\ [Next]_vars => RInv'
  BY NextIInv, TypesStep, RegistersStep DEF RInv
<1> QED
  BY <1>1, RInvInit, PTL DEF Spec

\* The variables keep their types.
THEOREM TypeCorrect == Spec => []TypeOK
<1>1. RInv => TypeOK
  BY DEF RInv
<1> QED
  BY <1>1, RegistersInvariant, PTL

\* Between two rounds no breakpoint is left and no BPF function is running.
THEOREM RegistersFreed == Spec => []NothingLeftAttached
<1>1. RInv => NothingLeftAttached
  BY DEF RInv, Registers, NothingLeftAttached
<1> QED
  BY <1>1, RegistersInvariant, PTL

\* While CountMethods sleeps, a breakpoint is missing only for the reasons of
\* FirstMethodsCounted, whatever the number of registers and functions, in every
\* round.
THEOREM FirstCounted == Spec => []FirstMethodsCounted
<1>1. ASSUME RInv, pc = "sleep", NEW b \in BPs \ attached
      PROVE  Missing(b)
  <2>1. PICK k \in 1..(2 * n) : BP(k) = b
    BY <1>1, EveryBP
  <2>2. k \in 1..(step - 1)
    BY <1>1, <2>1, CountAssumption DEF RInv, Registers
  <2> QED
    BY <1>1, <2>1, <2>2 DEF RInv, Registers
<1>2. RInv => FirstMethodsCounted
  BY <1>1 DEF FirstMethodsCounted, Missing
<1> QED
  BY <1>2, RegistersInvariant, PTL
=============================================================================
