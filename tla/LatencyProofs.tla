--------------------------- MODULE LatencyProofs ---------------------------
(***************************************************************************)
(* Proofs about module Latency, for any threads, methods and targets, any  *)
(* capacity of the entry table and any bounds: no trapped call is recorded *)
(* twice, what is recorded for a trapped call never exceeds what it took,  *)
(* and the latency returned is that of its window.                         *)
(***************************************************************************)
EXTENDS Latency, FiniteSetTheorems, SequenceTheorems, WellFoundedInduction, TLAPS

-----------------------------------------------------------------------------
\* Counting entries and records

\* The counters, and the entries that are still to be recorded.
CountOK ==
    /\ entries \in Nat /\ records \in Nat
    /\ now \in Nat /\ start \in [Threads -> Int]
    /\ EachEntryRecordedOnce

\* The slots in use are finitely many.
LEMMA SlotsFinite == IsFiniteSet(SlotsUsed) /\ Cardinality(SlotsUsed) \in Nat
<1>1. SlotsUsed \in SUBSET Threads
  BY DEF SlotsUsed
<1>2. IsFiniteSet(SlotsUsed)
  BY <1>1, ThreadsAssumption, FS_Subset
<1> QED
  BY <1>2, FS_CardinalityType

\* The entry function takes at most one new slot and counts one entry.
LEMMA EntryCounts ==
    ASSUME CountOK, NEW t \in Threads, func_entry0(t), now' = now
    PROVE  CountOK'
<1> DEFINE S == SlotsUsed \cup {t}
<1>1. SlotsUsed' \in SUBSET S
  BY DEF func_entry0, SlotsUsed
<1>2. IsFiniteSet(S) /\ Cardinality(S) \in Nat /\ Cardinality(S) <= Cardinality(SlotsUsed) + 1
  <2>1. IsFiniteSet(S)
    BY SlotsFinite, FS_AddElement
  <2>2. Cardinality(S) = IF t \in SlotsUsed THEN Cardinality(SlotsUsed)
                         ELSE Cardinality(SlotsUsed) + 1
    BY SlotsFinite, FS_AddElement
  <2> QED
    BY <2>1, <2>2, SlotsFinite
<1> HIDE DEF S
<1>3. IsFiniteSet(SlotsUsed') /\ Cardinality(SlotsUsed') <= Cardinality(S)
  BY <1>1, <1>2, FS_Subset
<1>4. Cardinality(SlotsUsed') \in Nat
  BY <1>3, FS_CardinalityType
<1>5. entries' = entries + 1 /\ records' = records
  BY DEF func_entry0
<1>6. start' \in [Threads -> Int]
  BY DEF func_entry0, CountOK
<1> QED
  BY <1>2, <1>3, <1>4, <1>5, <1>6, SlotsFinite DEF CountOK, EachEntryRecordedOnce

\* The return function gives a slot back for the record it makes.
LEMMA ReturnCounts ==
    ASSUME CountOK, NEW t \in Threads, NEW frame, func_return0(t, frame), now' = now
    PROVE  CountOK'
<1>1. CASE start[t] = NoTime
  BY <1>1 DEF func_return0, tableVars, CountOK, EachEntryRecordedOnce, SlotsUsed
<1>2. CASE start[t] # NoTime
  <2>1. SlotsUsed' = SlotsUsed \ {t} /\ t \in SlotsUsed
    <3>1. start' = [start EXCEPT ![t] = NoTime]
      BY <1>2 DEF func_return0
    <3>2. start'[t] = NoTime
      BY <3>1 DEF CountOK
    <3>3. \A u \in Threads : u # t => start'[u] = start[u]
      BY <3>1
    <3> QED
      BY <1>2, <3>2, <3>3 DEF SlotsUsed
  <2>2. Cardinality(SlotsUsed') = Cardinality(SlotsUsed) - 1
    BY <2>1, SlotsFinite, FS_RemoveElement
  <2>3. entries' = entries /\ records' = records + 1
    BY <1>2 DEF func_return0
  <2>4. start' \in [Threads -> Int]
    BY <1>2 DEF func_return0, CountOK, NoTime
  <2> QED
    BY <2>2, <2>3, <2>4, SlotsFinite DEF CountOK, EachEntryRecordedOnce
<1> QED
  BY <1>1, <1>2

\* No other step touches the table or the counters.
LEMMA CountStep == CountOK /\ [Next]_vars => CountOK'
<1> SUFFICES ASSUME CountOK, [Next]_vars PROVE CountOK'
  OBVIOUS
<1>0. UNCHANGED <<now, start, entries, records>> => CountOK'
  BY DEF CountOK, EachEntryRecordedOnce, SlotsUsed
<1>1. ASSUME NEW t \in Threads, Return(t) PROVE CountOK'
  <2>1. CASE UNCHANGED tableVars
    BY <1>0, <1>1, <2>1 DEF Return, tableVars
  <2>2. CASE func_return0(t, stack[t][Len(stack[t])])
    BY <1>1, <2>2, ReturnCounts DEF Return
  <2> QED
    BY <1>1, <2>1, <2>2 DEF Return
<1>2. ASSUME NEW t \in Threads, NEW m \in Methods, Call(t, m) PROVE CountOK'
  <2>1. CASE UNCHANGED tableVars
    BY <1>0, <1>2, <2>1 DEF Call, tableVars
  <2>2. CASE func_entry0(t)
    BY <1>2, <2>2, EntryCounts DEF Call
  <2> QED
    BY <1>2, <2>1, <2>2 DEF Call
<1>3. CASE Tick
  BY <1>3 DEF Tick, CountOK, EachEntryRecordedOnce, SlotsUsed, tableVars
<1>4. CASE AttachEntry \/ AttachReturn \/ Monitor \/ DetachEntry \/ DetachReturn \/ Detached
  BY <1>0, <1>4 DEF stackVars, tableVars, AttachEntry, AttachReturn, Monitor, DetachEntry,
     DetachReturn, Detached
<1>5. CASE PrintLatency
  BY <1>0, <1>5 DEF PrintLatency, stackVars
<1>6. CASE Finished \/ UNCHANGED vars
  BY <1>0, <1>6 DEF Finished, vars
<1> QED
  BY <1>1, <1>2, <1>3, <1>4, <1>5, <1>6 DEF Next

\* Nothing is recorded that was not trapped on entry, and no entry is recorded
\* twice: func_return0 deletes the entry time it has used.
THEOREM EntriesBoundRecords == Spec => []EachEntryRecordedOnce
<1>1. Init => CountOK
  <2> SUFFICES ASSUME Init PROVE CountOK
    OBVIOUS
  <2>1. SlotsUsed = {}
    BY DEF Init, SlotsUsed
  <2>2. Cardinality(SlotsUsed) = 0
    BY <2>1, FS_EmptySet
  <2> QED
    BY <2>2 DEF Init, CountOK, NoTime, EachEntryRecordedOnce
<1>2. CountOK => EachEntryRecordedOnce
  BY DEF CountOK
<1> QED
  BY <1>1, <1>2, CountStep, PTL DEF Spec

-----------------------------------------------------------------------------
\* Stacks

\* Marking changes nothing but the marks.
LEMMA ShadowedFrames ==
    ASSUME NEW s \in Seq(Frames)
    PROVE  /\ Shadowed(s) \in Seq(Frames) /\ Len(Shadowed(s)) = Len(s)
           /\ \A i \in 1..Len(s) : /\ Shadowed(s)[i].at = s[i].at
                                   /\ Shadowed(s)[i].trapped = s[i].trapped
                                   /\ Shadowed(s)[i].shadowed = TRUE
<1>1. DOMAIN s = 1..Len(s) /\ Len(s) \in Nat
  OBVIOUS
<1>2. ASSUME NEW i \in 1..Len(s)
      PROVE  /\ Shadowed(s)[i] \in Frames /\ Shadowed(s)[i].at = s[i].at
             /\ Shadowed(s)[i].trapped = s[i].trapped /\ Shadowed(s)[i].shadowed = TRUE
  <2>1. s[i] \in Frames
    BY <1>2
  <2>2. Shadowed(s)[i] = [s[i] EXCEPT !.shadowed = TRUE]
    BY <1>1, <1>2 DEF Shadowed
  <2> QED
    BY <2>1, <2>2 DEF Frames
<1>3. Shadowed(s) \in [1..Len(s) -> Frames]
  BY <1>1, <1>2 DEF Shadowed
<1>4. Shadowed(s) \in Seq(Frames) /\ Len(Shadowed(s)) = Len(s)
  BY <1>1, <1>3
<1> QED
  BY <1>2, <1>4

\* The frame a call pushes.
NewFrame(t, m, hit) ==
    [m |-> m, from |-> Caller(t), at |-> now, trapped |-> hit, shadowed |-> FALSE]

\* The types of what the functions of the breakpoints use.
Shape ==
    /\ now \in Nat
    /\ stack \in [Threads -> Seq(Frames)]
    /\ start \in [Threads -> Nat \cup {NoTime}]

\* The stacks after a call of m by t, trapped or not.
PushedBy(t, m, hit) ==
    /\ stack' \in [Threads -> Seq(Frames)]
    /\ \A u \in Threads : u # t => stack'[u] = stack[u]
    /\ Len(stack'[t]) = Len(stack[t]) + 1
    /\ stack'[t][Len(stack[t]) + 1] = NewFrame(t, m, hit)
    /\ \A i \in 1..Len(stack[t]) :
          /\ stack'[t][i].at = stack[t][i].at
          /\ stack'[t][i].trapped = stack[t][i].trapped
          /\ stack'[t][i].shadowed = (stack[t][i].shadowed \/ hit)

\* It is so when the call has pushed its frame.
LEMMA Pushed ==
    ASSUME Shape, NEW t \in Threads, NEW m \in Methods, NEW hit \in BOOLEAN,
           stack' = [stack EXCEPT ![t] =
                       Append(IF hit THEN Shadowed(stack[t]) ELSE stack[t], NewFrame(t, m, hit))]
    PROVE  PushedBy(t, m, hit)
<1> DEFINE s == stack[t]
           marked == IF hit THEN Shadowed(s) ELSE s
           f == NewFrame(t, m, hit)
<1>1. s \in Seq(Frames) /\ Len(s) \in Nat
  BY DEF Shape
<1>2. f \in Frames
  <2>1. Caller(t) \in Methods \cup {Root}
    <3>1. CASE s = <<>>
      BY <3>1 DEF Caller
    <3>2. CASE s # <<>>
      <4>1. s[Len(s)] \in Frames
        BY <1>1, <3>2
      <4> QED
        BY <3>2, <4>1 DEF Caller, Frames
    <3> QED
      BY <3>1, <3>2
  <2> QED
    BY <2>1 DEF NewFrame, Frames, Shape
<1>3. /\ marked \in Seq(Frames) /\ Len(marked) = Len(s)
      /\ \A i \in 1..Len(s) : /\ marked[i].at = s[i].at
                              /\ marked[i].trapped = s[i].trapped
                              /\ marked[i].shadowed = (s[i].shadowed \/ hit)
  <2>1. CASE hit
    BY <1>1, <2>1, ShadowedFrames
  <2>2. CASE ~hit
    <3>1. \A i \in 1..Len(s) : s[i].shadowed \in BOOLEAN
      <4>1. \A i \in 1..Len(s) : s[i] \in Frames
        BY <1>1
      <4> QED
        BY <4>1 DEF Frames
    <3> QED
      BY <1>1, <2>2, <3>1
  <2> QED
    BY <2>1, <2>2
<1>4. stack' = [stack EXCEPT ![t] = Append(marked, f)]
  OBVIOUS
<1>5. stack'[t] = Append(marked, f)
  BY <1>4 DEF Shape
<1> HIDE DEF marked, f
<1>6. Append(marked, f) \in Seq(Frames)
  BY <1>2, <1>3
<1>7. /\ Len(stack'[t]) = Len(s) + 1 /\ stack'[t][Len(s) + 1] = f
      /\ \A i \in 1..Len(s) : stack'[t][i] = marked[i]
  <2>1. marked \in Seq(Frames) /\ Len(marked) = Len(s)
    BY <1>3
  <2>2. /\ Len(Append(marked, f)) = Len(marked) + 1
        /\ \A i \in 1..Len(marked) : Append(marked, f)[i] = marked[i]
        /\ Append(marked, f)[Len(marked) + 1] = f
    BY <1>2, <2>1, AppendProperties
  <2> QED
    BY <1>5, <2>1, <2>2
<1>8. stack' \in [Threads -> Seq(Frames)]
  BY <1>4, <1>6 DEF Shape
<1>9. \A u \in Threads : u # t => stack'[u] = stack[u]
  BY <1>4 DEF Shape
<1> QED
  BY <1>1, <1>3, <1>7, <1>8, <1>9 DEF f, PushedBy

\* The stack of the thread after a return.
LEMMA Popped ==
    ASSUME Shape, NEW t \in Threads, Return(t)
    PROVE  /\ stack' \in [Threads -> Seq(Frames)]
           /\ \A u \in Threads : u # t => stack'[u] = stack[u]
           /\ Len(stack[t]) \in 1..Len(stack[t])
           /\ Len(stack'[t]) = Len(stack[t]) - 1
           /\ \A i \in 1..Len(stack'[t]) : stack'[t][i] = stack[t][i]
<1> DEFINE s == stack[t]
<1>1. s \in Seq(Frames) /\ s # <<>> /\ Len(s) \in Nat
  BY DEF Shape, Return
<1>2. stack' = [stack EXCEPT ![t] = SubSeq(s, 1, Len(s) - 1)]
  BY DEF Return
<1>3. stack'[t] = SubSeq(s, 1, Len(s) - 1)
  BY <1>2 DEF Shape
<1>4. Len(s) \in Nat \ {0}
  BY <1>1, EmptySeq, Zenon
<1> DEFINE n == Len(s) - 1
           popped == SubSeq(s, 1, n)
<1>5. n \in Int /\ 1 \in Int /\ \A i \in 1..n : s[i] \in Frames
  BY <1>1, <1>4
<1>6. n \in Nat /\ n = Len(s) - 1
  BY <1>4
<1> HIDE DEF n
<1>7. /\ popped \in Seq(Frames)
      /\ Len(popped) = IF 1 <= n THEN n - 1 + 1 ELSE 0
      /\ \A i \in 1..(n - 1 + 1) : popped[i] = s[1 + i - 1]
  BY <1>5, SubSeqProperties
<1> HIDE DEF popped
<1>8. Len(popped) = n /\ \A i \in 1..n : popped[i] = s[i]
  BY <1>6, <1>7
<1>9. stack' = [stack EXCEPT ![t] = popped] /\ stack'[t] = popped
  BY <1>2, <1>3 DEF n, popped
<1>10. \A u \in Threads : u # t => stack'[u] = stack[u]
  BY <1>9 DEF Shape
<1>11. stack' \in [Threads -> Seq(Frames)]
  BY <1>7, <1>9 DEF Shape
<1> QED
  BY <1>4, <1>6, <1>8, <1>9, <1>10, <1>11

-----------------------------------------------------------------------------
\* What is recorded for a call that was trapped

\* A trapped frame f and an entry time: the time is that of the frame, or of a
\* later trapped call inside it.
Covers(f, time) == f.trapped => f.at <= time /\ (f.shadowed \/ f.at = time)

\* Every time in the table, however old, covers the trapped frames of its thread.
TimesInv ==
    /\ Shape
    /\ \A t \in Threads : \A i \in 1..Len(stack[t]) : stack[t][i].at <= now
    /\ \A t \in Threads : start[t] <= now
    /\ \A t \in Threads : start[t] # NoTime =>
          \A i \in 1..Len(stack[t]) : Covers(stack[t][i], start[t])
    /\ TrappedCallsNotOverstated

\* The table is empty at first.
LEMMA TimesInit == Init => TimesInv
<1> SUFFICES ASSUME Init PROVE TimesInv
  OBVIOUS
<1>1. \A t \in Threads : stack[t] = <<>> /\ start[t] = NoTime
  BY DEF Init
<1>2. Shape
  <2>1. stack \in [Threads -> Seq(Frames)]
    BY EmptySeq DEF Init
  <2>2. start \in [Threads -> Nat \cup {NoTime}] /\ now \in Nat
    BY DEF Init
  <2> QED
    BY <2>1, <2>2 DEF Shape
<1> QED
  BY <1>1, <1>2 DEF TimesInv, TrappedCallsNotOverstated, Init, NoTime

\* A trapped call restarts the time of its thread and marks the frames below it;
\* one that is not trapped changes nothing that counts.
LEMMA TimesCall ==
    ASSUME TimesInv, NEW t \in Threads, NEW m \in Methods, Call(t, m)
    PROVE  TimesInv'
<1> USE DEF TimesInv
<1>h. PICK hit \in BOOLEAN :
         /\ stack' = [stack EXCEPT ![t] =
                       Append(IF hit THEN Shadowed(stack[t]) ELSE stack[t], NewFrame(t, m, hit))]
         /\ IF hit THEN func_entry0(t) ELSE UNCHANGED tableVars
  BY DEF Call, NewFrame, Hits
<1>g. Shape /\ stack' = [stack EXCEPT ![t] =
                Append(IF hit THEN Shadowed(stack[t]) ELSE stack[t], NewFrame(t, m, hit))]
  BY <1>h
<1>p. /\ stack' \in [Threads -> Seq(Frames)]
      /\ \A u \in Threads : u # t => stack'[u] = stack[u]
      /\ Len(stack'[t]) = Len(stack[t]) + 1
      /\ stack'[t][Len(stack[t]) + 1] = NewFrame(t, m, hit)
      /\ \A i \in 1..Len(stack[t]) :
            /\ stack'[t][i].at = stack[t][i].at
            /\ stack'[t][i].trapped = stack[t][i].trapped
            /\ stack'[t][i].shadowed = (stack[t][i].shadowed \/ hit)
  <2>1. PushedBy(t, m, hit)
    BY <1>g, Pushed
  <2> QED
    BY <2>1, Zenon DEF PushedBy
<1>l. Len(stack[t]) \in Nat
  BY DEF Shape
<1>n. NewFrame(t, m, hit).at = now /\ NewFrame(t, m, hit).trapped = hit
  BY DEF NewFrame
<1>1. UNCHANGED <<now, inexact>>
  BY <1>h DEF Call, func_entry0, tableVars
<1>2. start' \in [Threads -> Nat \cup {NoTime}] /\ \A u \in Threads : u # t => start'[u] = start[u]
  BY <1>h DEF func_entry0, tableVars, Shape
<1>3. \/ start'[t] = now /\ hit
      \/ start'[t] = start[t] /\ (hit => start[t] = NoTime)
  BY <1>h DEF func_entry0, tableVars, Shape
<1>4. Shape'
  BY <1>1, <1>2, <1>p DEF Shape
<1>5. ASSUME NEW u \in Threads, NEW i \in 1..Len(stack'[u]) PROVE stack'[u][i].at <= now'
  <2>1. CASE u = t /\ i = Len(stack[t]) + 1
    BY <1>1, <2>1, <1>p, <1>n DEF Shape
  <2>2. CASE u = t /\ i \in 1..Len(stack[t])
    BY <1>1, <2>2, <1>p
  <2>3. CASE u # t
    BY <1>1, <1>5, <2>3, <1>p
  <2>4. u = t => i = Len(stack[t]) + 1 \/ i \in 1..Len(stack[t])
    BY <1>5, <1>p, <1>l
  <2> QED
    BY <2>1, <2>2, <2>3, <2>4
<1>6. ASSUME NEW u \in Threads PROVE start'[u] <= now'
  <2>1. CASE start'[u] = start[u]
    BY <1>1, <2>1
  <2>2. CASE u = t /\ start'[t] = now
    BY <1>1, <2>2 DEF Shape
  <2> QED
    BY <1>2, <1>3, <2>1, <2>2
<1>7. ASSUME NEW u \in Threads, start'[u] # NoTime, NEW i \in 1..Len(stack'[u])
      PROVE  Covers(stack'[u][i], start'[u])
  <2>1. CASE u # t
    BY <1>2, <1>7, <2>1, <1>p
  <2>2. CASE u = t /\ i = Len(stack[t]) + 1
    <3>1. stack'[u][i].at = now /\ stack'[u][i].trapped = hit
      BY <2>2, <1>p, <1>n
    <3>2. hit => start'[u] = now
      BY <1>3, <1>7, <2>2
    <3> QED
      BY <3>1, <3>2 DEF Covers, Shape
  <2>3. CASE u = t /\ i \in 1..Len(stack[t])
    <3>1. /\ stack'[t][i].at = stack[t][i].at
          /\ stack'[t][i].trapped = stack[t][i].trapped
          /\ stack'[t][i].shadowed = (stack[t][i].shadowed \/ hit)
          /\ stack[t][i].at <= now
      BY <2>3, <1>p
    <3>2. CASE start'[t] = now /\ hit
      BY <2>3, <3>1, <3>2 DEF Covers
    <3>3. CASE start'[t] = start[t]
      <4>1. Covers(stack[t][i], start[t])
        BY <1>7, <2>3, <3>3
      <4> QED
        BY <2>3, <3>1, <3>3, <4>1 DEF Covers
    <3> QED
      BY <1>3, <3>2, <3>3
  <2>4. u = t => i = Len(stack[t]) + 1 \/ i \in 1..Len(stack[t])
    BY <1>7, <1>p, <1>l
  <2> QED
    BY <2>1, <2>2, <2>3, <2>4
<1>8. TrappedCallsNotOverstated'
  BY <1>1 DEF TrappedCallsNotOverstated
<1> QED
  BY <1>4, <1>5, <1>6, <1>7, <1>8

\* A return takes its frame away; when it is recorded, the frame is covered by
\* the time that is used.
LEMMA TimesReturn ==
    ASSUME TimesInv, NEW t \in Threads, Return(t)
    PROVE  TimesInv'
<1> USE DEF TimesInv
<1> DEFINE top == Len(stack[t])
           frame == stack[t][top]
<1>p. /\ stack' \in [Threads -> Seq(Frames)]
      /\ \A u \in Threads : u # t => stack'[u] = stack[u]
      /\ top \in 1..Len(stack[t])
      /\ Len(stack'[t]) = Len(stack[t]) - 1
      /\ \A i \in 1..Len(stack'[t]) : stack'[t][i] = stack[t][i]
  BY Popped
<1>i. \A u \in Threads : \A i \in 1..Len(stack'[u]) :
         i \in 1..Len(stack[u]) /\ stack'[u][i] = stack[u][i]
  <2> SUFFICES ASSUME NEW u \in Threads, NEW i \in 1..Len(stack'[u])
               PROVE  i \in 1..Len(stack[u]) /\ stack'[u][i] = stack[u][i]
    OBVIOUS
  <2>1. CASE u = t
    BY <2>1, <1>p
  <2>2. CASE u # t
    BY <2>2, <1>p
  <2> QED
    BY <2>1, <2>2
<1>1. now' = now
  BY DEF Return
<1>2. start' \in [Threads -> Nat \cup {NoTime}]
  BY DEF Return, func_return0, tableVars, Shape
<1>3. \A u \in Threads : start'[u] = start[u] \/ start'[u] = NoTime
  BY DEF Return, func_return0, tableVars, Shape
<1>4. Shape'
  BY <1>1, <1>2, <1>p DEF Shape
<1>5. \A u \in Threads : \A i \in 1..Len(stack'[u]) : stack'[u][i].at <= now'
  BY <1>1, <1>i
<1>6. \A u \in Threads : start'[u] <= now'
  <2>1. now \in Nat /\ NoTime <= now
    BY DEF Shape, NoTime
  <2> QED
    BY <1>1, <1>3, <2>1
<1>8. ASSUME NEW u \in Threads, start'[u] # NoTime, NEW i \in 1..Len(stack'[u])
      PROVE  Covers(stack'[u][i], start'[u])
  BY <1>3, <1>i, <1>8
<1>9. TrappedCallsNotOverstated'
  <2>1. CASE inexact' = inexact
    BY <2>1 DEF TrappedCallsNotOverstated
  <2>2. CASE inexact' # inexact
    <3> DEFINE delta == now - start[t]
               r == [delta |-> delta, took |-> now - frame.at, trapped |-> frame.trapped,
                     shadowed |-> frame.shadowed]
    <3>1. func_return0(t, frame) /\ start[t] # NoTime
      BY <2>2 DEF Return, tableVars, func_return0
    <3>2. inexact' = inexact \cup Inexact(delta, frame)
      BY <3>1 DEF func_return0
    <3>3. inexact' = inexact \cup {r} /\ delta # now - frame.at
      BY <2>2, <3>2 DEF Inexact
    <3>4. ASSUME r.trapped PROVE r.shadowed /\ r.delta < r.took
      <4>2. frame.at <= start[t] /\ (frame.shadowed \/ frame.at = start[t])
        BY <3>1, <3>4, <1>p DEF Covers
      <4>3. frame.at \in Nat /\ start[t] \in Nat /\ now \in Nat
        <5>1. stack[t] \in Seq(Frames) /\ start[t] \in Nat /\ now \in Nat
          BY <3>1 DEF Shape
        <5>2. frame \in Frames
          BY <5>1, <1>p
        <5> QED
          BY <5>1, <5>2 DEF Frames
      <4>4. delta < now - frame.at /\ frame.shadowed
        BY <3>3, <4>2, <4>3
      <4> QED
        BY <4>4
    <3> HIDE DEF r
    <3> QED
      BY <3>3, <3>4 DEF TrappedCallsNotOverstated
  <2> QED
    BY <2>1, <2>2
<1> QED
  BY <1>4, <1>5, <1>6, <1>8, <1>9

\* The other steps keep the table, the stacks and what was recorded.
LEMMA TimesStep == TimesInv /\ [Next]_vars => TimesInv'
<1> SUFFICES ASSUME TimesInv, [Next]_vars PROVE TimesInv'
  OBVIOUS
<1>1. ASSUME NEW t \in Threads, Return(t) PROVE TimesInv'
  BY <1>1, TimesReturn
<1>2. ASSUME NEW t \in Threads, NEW m \in Methods, Call(t, m) PROVE TimesInv'
  BY <1>2, TimesCall
<1> USE DEF TimesInv, Shape, TrappedCallsNotOverstated
<1>3. CASE Tick
  <2>1. now' = now + 1 /\ UNCHANGED <<stack, start, inexact>>
    BY <1>3 DEF Tick, tableVars
  <2>2. \A t \in Threads : \A i \in 1..Len(stack[t]) : stack[t][i].at \in Nat
    <3>1. \A t \in Threads : \A i \in 1..Len(stack[t]) : stack[t][i] \in Frames
      OBVIOUS
    <3> QED
      BY <3>1 DEF Frames
  <2>3. \A t \in Threads : \A i \in 1..Len(stack'[t]) : stack'[t][i].at <= now'
    BY <2>1, <2>2
  <2>4. \A t \in Threads : start'[t] <= now'
    BY <2>1 DEF NoTime
  <2> QED
    BY <2>1, <2>3, <2>4
<1>4. CASE AttachEntry \/ AttachReturn \/ Monitor \/ DetachEntry \/ DetachReturn \/ Detached
           \/ PrintLatency \/ Finished \/ UNCHANGED vars
  <2>1. UNCHANGED <<now, stack, start, inexact>>
    BY <1>4 DEF AttachEntry, AttachReturn, Monitor, DetachEntry, DetachReturn, Detached,
       PrintLatency, Finished, vars, tableVars, stackVars
  <2> QED
    BY <2>1
<1> QED
  BY <1>1, <1>2, <1>3, <1>4 DEF Next

\* What is recorded for a call whose entry was trapped never exceeds what the call
\* took, and is less only when a call inside it was trapped too: in every window,
\* whatever the windows before left in start, whichever thread found the table full
\* and however the breakpoints are armed CPU by CPU.
THEOREM TrappedNotOverstated == Spec => []TrappedCallsNotOverstated
<1>1. TimesInv => TrappedCallsNotOverstated
  BY DEF TimesInv
<1> QED
  BY TimesInit, TimesStep, <1>1, PTL DEF Spec

-----------------------------------------------------------------------------
\* Types

\* What TimesInv leaves open: the histogram, where LatencyMethod is with its
\* breakpoints, and what was counted and recorded.
MeasureTypes ==
    /\ dist \in [Keys -> Nat]
    /\ pc \in {"idle", "entry", "return", "measuring", "unentry", "unreturn", "printing"}
    /\ target \in 1..(Len(Targets) + IF pc = "idle" THEN 1 ELSE 0)
    /\ entryBP \in Armed /\ (entryBP # "off" => pc \notin {"idle", "unreturn", "printing"})
    /\ returnBP \in Armed
    /\ returnBP # "off" => pc \in {"return", "measuring", "unentry", "unreturn"}
    /\ DOMAIN maxLat = 1..Len(Targets)
    /\ entries \in Nat /\ records \in Nat /\ longest \in Nat \cup {NoTime}
    /\ inexact \subseteq [delta : Nat, took : Nat, trapped : BOOLEAN, shadowed : BOOLEAN]

\* A record is a time that has passed: the entry is not later than the return.
LEMMA RecordTypes ==
    ASSUME TimesInv, MeasureTypes, NEW t \in Threads, Return(t)
    PROVE  MeasureTypes'
<1> DEFINE top == Len(stack[t])
           frame == stack[t][top]
           delta == now - start[t]
<1>1. UNCHANGED <<now, pc, target, entryBP, returnBP, maxLat>>
  BY DEF Return
<1>2. CASE UNCHANGED tableVars
  BY <1>1, <1>2 DEF MeasureTypes, tableVars
<1>3. CASE ~UNCHANGED tableVars
  <2>1. returnBP # "off" /\ func_return0(t, frame) /\ start[t] # NoTime
    BY <1>3 DEF Return, func_return0
  <2>3. frame \in Frames /\ frame.at <= now
    BY Popped DEF TimesInv, Shape
  <2>4. start[t] \in Nat /\ start[t] <= now /\ now \in Nat
    BY <2>1 DEF TimesInv, Shape
  <2>5. /\ delta \in Nat /\ now - frame.at \in Nat
        /\ frame.trapped \in BOOLEAN /\ frame.shadowed \in BOOLEAN
    BY <2>3, <2>4 DEF Frames
  <2>6. Inexact(delta, frame) \subseteq [delta : Nat, took : Nat, trapped : BOOLEAN,
                                         shadowed : BOOLEAN]
    BY <2>5 DEF Inexact
  <2>7. inexact' = inexact \cup Inexact(delta, frame)
    BY <2>1 DEF func_return0
  <2>8. records' = records + 1 /\ longest' \in {delta, longest} /\ entries' = entries
    BY <2>1 DEF func_return0
  <2>9. dist' \in [Keys -> Nat]
    <3> DEFINE k == bpf_log2l(delta)
    <3>1. dist' = [dist EXCEPT ![k] = @ + 1]
      BY <2>1 DEF func_return0
    <3> HIDE DEF k
    <3>2. CASE k \in Keys
      BY <3>1, <3>2 DEF MeasureTypes
    <3>3. CASE k \notin Keys
      <4>1. dist' = dist
        BY <3>1, <3>3 DEF MeasureTypes
      <4> QED
        BY <4>1 DEF MeasureTypes
    <3> QED
      BY <3>2, <3>3
  <2> QED
    BY <1>1, <2>5, <2>6, <2>7, <2>8, <2>9 DEF MeasureTypes
<1> QED
  BY <1>2, <1>3

\* The other steps keep the types.
LEMMA MeasureTypesStep == TimesInv /\ MeasureTypes /\ [Next]_vars => MeasureTypes'
<1> SUFFICES ASSUME TimesInv, MeasureTypes, [Next]_vars PROVE MeasureTypes'
  OBVIOUS
<1>1. ASSUME NEW t \in Threads, Return(t) PROVE MeasureTypes'
  BY <1>1, RecordTypes
<1> USE DEF MeasureTypes, Armed, tableVars, stackVars
<1>2. ASSUME NEW t \in Threads, NEW m \in Methods, Call(t, m) PROVE MeasureTypes'
  BY <1>2 DEF Call, func_entry0
<1>3. CASE Tick
  BY <1>3 DEF Tick
<1>4. CASE AttachEntry
  <2>1. Len(Targets) \in Nat
    BY TargetsAssumption
  <2>2. target' \in 1..Len(Targets) /\ pc' = "entry"
    BY <1>4, <2>1 DEF AttachEntry
  <2> QED
    BY <1>4, <2>2 DEF AttachEntry
<1>5. CASE AttachReturn \/ Monitor \/ DetachEntry \/ DetachReturn \/ Detached
  <2>1. CASE AttachReturn
    BY <2>1 DEF AttachReturn
  <2>2. CASE DetachEntry
    BY <2>2 DEF DetachEntry, Closing
  <2>3. CASE DetachReturn
    BY <2>3 DEF DetachReturn, Closing
  <2>4. CASE Monitor
    BY <2>4 DEF Monitor
  <2>5. CASE Detached
    BY <2>5 DEF Detached
  <2> QED
    BY <1>5, <2>1, <2>2, <2>3, <2>4, <2>5
<1>6. CASE PrintLatency
  <2>1. Len(Targets) \in Nat /\ target \in 1..Len(Targets)
    BY <1>6, TargetsAssumption DEF PrintLatency
  <2>2. target' \in 1..(Len(Targets) + 1) /\ pc' = "idle"
    BY <1>6, <2>1 DEF PrintLatency
  <2>3. dist' \in [Keys -> Nat] /\ DOMAIN maxLat' = DOMAIN maxLat
    BY <1>6 DEF PrintLatency
  <2>4. UNCHANGED <<entryBP, returnBP, entries, records, inexact>> /\ longest' = NoTime
    BY <1>6 DEF PrintLatency
  <2>5. entryBP = "off" /\ returnBP = "off"
    BY <1>6 DEF PrintLatency
  <2> QED
    BY <2>2, <2>3, <2>4, <2>5
<1>7. CASE Finished \/ UNCHANGED vars
  BY <1>7 DEF Finished, vars
<1> QED
  BY <1>1, <1>2, <1>3, <1>4, <1>5, <1>6, <1>7 DEF Next

\* The types at the start.
LEMMA TypesInit == Init => MeasureTypes
<1> SUFFICES ASSUME Init PROVE MeasureTypes
  OBVIOUS
<1>1. Len(Targets) \in Nat
  BY TargetsAssumption
<1>2. target \in 1..(Len(Targets) + 1) /\ pc = "idle"
  BY <1>1 DEF Init
<1>3. dist \in [Keys -> Nat] /\ DOMAIN maxLat = 1..Len(Targets)
  BY DEF Init
<1> QED
  BY <1>2, <1>3 DEF Init, MeasureTypes, Armed

\* Every reachable state is well typed: no stack, entry time, slot or record
\* leaves its range, and no time recorded is negative.
THEOREM TypeCorrect == Spec => []TypeOK
<1>1. TimesInv /\ MeasureTypes => TypeOK
  BY DEF TimesInv, Shape, MeasureTypes, TypeOK
<1> QED
  BY <1>1, TimesInit, TypesInit, TimesStep, MeasureTypesStep, PTL DEF Spec

-----------------------------------------------------------------------------
\* The powers of two and the logarithm

\* A set of numbers that is not empty has a smallest one.
LEMMA Smallest ==
    ASSUME NEW S \in SUBSET Nat, S # {}
    PROVE  \E i \in S : \A j \in S : i <= j
<1>1. PICK i \in S : \A j \in S : <<j, i>> \notin OpToRel(<, Nat)
  BY WFMin, NatLessThanWellFounded, Zenon
<1>2. \A j \in S : ~(j < i)
  BY <1>1, Zenon DEF OpToRel
<1> QED
  BY <1>2

\* So induction holds: a set that has 0, and n + 1 with every n, has all numbers.
LEMMA Induction ==
    ASSUME NEW S \in SUBSET Nat, 0 \in S, \A n \in S : n + 1 \in S
    PROVE  S = Nat
<1> SUFFICES ASSUME S # Nat PROVE FALSE
  OBVIOUS
<1>1. PICK i \in Nat \ S : \A j \in Nat \ S : i <= j
  BY Smallest
<1>2. i - 1 \in Nat \ S \/ i = 0
  BY <1>1
<1> QED
  BY <1>1, <1>2

\* The functions on numbers that begin with a and go on by F.
Iterations(S, a, F) == {f \in [Nat -> S] : f[0] = a /\ \A n \in Nat : f[n + 1] = F[f[n]]}

\* A function on numbers can be defined by its value at 0 and by how a value
\* follows from the one before it: there is a beginning of it up to every number,
\* and any two of these agree.
LEMMA Iteration ==
    ASSUME NEW S, NEW a \in S, NEW F \in [S -> S]
    PROVE  Iterations(S, a, F) # {}
<1> DEFINE Begins(n) == {g \in [0..n -> S] : g[0] = a /\ \A k \in 0..(n - 1) : g[k + 1] = F[g[k]]}
           Some == {n \in Nat : Begins(n) # {}}
<1>1. Some = Nat
  <2>1. 0 \in Some
    <3> DEFINE g == [k \in 0..0 |-> a]
    <3>1. g \in Begins(0)
      OBVIOUS
    <3> HIDE DEF g
    <3> QED
      BY <3>1
  <2>2. ASSUME NEW n \in Some PROVE n + 1 \in Some
    <3>1. PICK g \in Begins(n) : TRUE
      OBVIOUS
    <3>0. n \in Nat /\ g \in [0..n -> S] /\ g[0] = a /\ \A k \in 0..(n - 1) : g[k + 1] = F[g[k]]
      BY <3>1
    <3> DEFINE h == [k \in 0..(n + 1) |-> IF k = n + 1 THEN F[g[n]] ELSE g[k]]
    <3>2. h \in [0..(n + 1) -> S] /\ h[n + 1] = F[g[n]] /\ \A k \in 0..n : h[k] = g[k]
      BY <3>0
    <3> HIDE DEF h
    <3>3. ASSUME NEW k \in 0..n PROVE h[k + 1] = F[h[k]]
      <4>1. CASE k = n
        <5>1. k + 1 = n + 1 /\ h[k] = g[n]
          BY <3>2, <4>1
        <5> QED
          BY <3>2, <5>1
      <4>2. CASE k # n
        <5>1. k \in 0..(n - 1) /\ k + 1 \in 0..n
          BY <3>0, <4>2
        <5> QED
          BY <3>0, <3>2, <5>1
      <4> QED
        BY <4>1, <4>2
    <3>4. h[0] = a /\ 0..((n + 1) - 1) = 0..n
      BY <3>0, <3>2
    <3>5. h \in Begins(n + 1)
      BY <3>2, <3>3, <3>4
    <3> QED
      BY <3>0, <3>5
  <2> HIDE DEF Some
  <2>3. Some \in SUBSET Nat
    BY DEF Some
  <2> QED
    BY <2>1, <2>2, <2>3, Induction
<1> DEFINE G == [n \in Nat |-> CHOOSE g \in Begins(n) : TRUE]
<1>2. \A n \in Nat : G[n] \in Begins(n)
  BY <1>1
<1> HIDE DEF G, Some
<1>3. ASSUME NEW n \in Nat
      PROVE  /\ G[n] \in [0..n -> S] /\ G[n][0] = a
             /\ \A k \in 0..(n - 1) : G[n][k + 1] = F[G[n][k]]
  BY <1>2
<1> DEFINE Agree == {n \in Nat : \A m \in Nat : n <= m => G[m][n] = G[n][n]}
<1>4. Agree = Nat
  <2>1. 0 \in Agree
    BY <1>3
  <2>2. ASSUME NEW n \in Agree PROVE n + 1 \in Agree
    <3> SUFFICES ASSUME NEW m \in Nat, n + 1 <= m PROVE G[m][n + 1] = G[n + 1][n + 1]
      OBVIOUS
    <3>1. G[m][n] = G[n][n] /\ G[n + 1][n] = G[n][n]
      OBVIOUS
    <3>2. n \in 0..(m - 1) /\ n \in 0..((n + 1) - 1) /\ n + 1 \in Nat
      OBVIOUS
    <3>3. G[m][n + 1] = F[G[m][n]] /\ G[n + 1][n + 1] = F[G[n + 1][n]]
      BY <1>3, <3>2
    <3> QED
      BY <3>1, <3>3
  <2>3. Agree \in SUBSET Nat
    OBVIOUS
  <2> HIDE DEF Agree
  <2> QED
    BY <2>1, <2>2, <2>3, Induction
<1> DEFINE f == [n \in Nat |-> G[n][n]]
<1>5. f \in [Nat -> S] /\ f[0] = a
  BY <1>3
<1>6. ASSUME NEW n \in Nat PROVE f[n + 1] = F[f[n]]
  <2>1. n + 1 \in Nat /\ n \in 0..((n + 1) - 1)
    OBVIOUS
  <2>2. G[n + 1][n + 1] = F[G[n + 1][n]]
    BY <1>3, <2>1
  <2>3. G[n + 1][n] = G[n][n]
    BY <1>4, <2>1
  <2> QED
    BY <2>1, <2>2, <2>3
<1> HIDE DEF f
<1>7. f \in Iterations(S, a, F)
  BY <1>5, <1>6 DEF Iterations
<1> QED
  BY <1>7

\* Exp2 is what its definition says.
LEMMA Exp2Values == Exp2 \in [Nat -> Nat] /\ Exp2[0] = 1 /\ \A k \in Nat : Exp2[k + 1] = 2 * Exp2[k]
<1> DEFINE F == [n \in Nat |-> 2 * n]
<1>1. F \in [Nat -> Nat] /\ 1 \in Nat
  OBVIOUS
<1>2. PICK f \in [Nat -> Nat] : f[0] = 1 /\ \A k \in Nat : f[k + 1] = F[f[k]]
  <2> HIDE DEF F
  <2>1. Iterations(Nat, 1, F) # {}
    BY <1>1, Iteration
  <2> QED
    BY <2>1 DEF Iterations
<1>3. \A k \in Nat : f[k + 1] = 2 * f[k]
  BY <1>2
<1> HIDE DEF F
<1>4. ASSUME NEW k \in Nat PROVE f[k] = IF k = 0 THEN 1 ELSE 2 * f[k - 1]
  <2>1. CASE k = 0
    BY <1>2, <2>1
  <2>2. CASE k # 0
    <3>1. k - 1 \in Nat /\ (k - 1) + 1 = k
      BY <2>2
    <3> QED
      BY <1>3, <2>2, <3>1
  <2> QED
    BY <2>1, <2>2
<1>5. f = [k \in Nat |-> IF k = 0 THEN 1 ELSE 2 * f[k - 1]]
  BY <1>2, <1>4
<1>6. Exp2 = [k \in Nat |-> IF k = 0 THEN 1 ELSE 2 * Exp2[k - 1]]
  BY <1>5 DEF Exp2
<1>7. Exp2[0] = 1 /\ \A k \in Nat : Exp2[k + 1] = 2 * Exp2[k]
  BY <1>6
<1> DEFINE Good == {k \in Nat : Exp2[k] \in Nat}
<1>8. Good = Nat
  <2>1. Good \in SUBSET Nat /\ 0 \in Good /\ \A k \in Good : k + 1 \in Good
    BY <1>7
  <2> HIDE DEF Good
  <2> QED
    BY <2>1, Induction
<1>9. \A k \in Nat : Exp2[k] \in Nat
  BY <1>8
<1>10. DOMAIN Exp2 = Nat /\ Exp2 = [k \in Nat |-> Exp2[k]]
  BY <1>6
<1> QED
  BY <1>7, <1>9, <1>10

\* The powers grow, and faster than their exponents.
LEMMA Exp2Grows ==
    /\ \A k \in Nat : k < Exp2[k]
    /\ \A i, j \in Nat : i <= j => Exp2[i] <= Exp2[j]
<1> DEFINE Above == {k \in Nat : k < Exp2[k]}
           Mono  == {j \in Nat : \A i \in Nat : i <= j => Exp2[i] <= Exp2[j]}
<1>0. \A k \in Nat : Exp2[k] \in Nat
  BY Exp2Values
<1>1. Above = Nat
  <2>1. Above \in SUBSET Nat /\ 0 \in Above
    BY Exp2Values
  <2>2. \A k \in Above : k + 1 \in Above
    BY <1>0, Exp2Values
  <2> HIDE DEF Above
  <2> QED
    BY <2>1, <2>2, Induction
<1>2. Mono = Nat
  <2>1. Mono \in SUBSET Nat /\ 0 \in Mono
    BY <1>0
  <2>2. ASSUME NEW j \in Mono PROVE j + 1 \in Mono
    <3>1. Exp2[j + 1] = 2 * Exp2[j] /\ Exp2[j] \in Nat /\ j \in Nat
      BY <1>0, Exp2Values
    <3>2. ASSUME NEW i \in Nat, i <= j + 1 PROVE Exp2[i] <= Exp2[j + 1]
      <4>1. CASE i = j + 1
        BY <1>0, <4>1
      <4>2. CASE i # j + 1
        <5>1. i <= j
          BY <3>1, <3>2, <4>2
        <5>2. Exp2[i] <= Exp2[j] /\ Exp2[i] \in Nat
          BY <1>0, <5>1
        <5> QED
          BY <3>1, <5>2
      <4> QED
        BY <4>1, <4>2
    <3> QED
      BY <3>1, <3>2
  <2> HIDE DEF Mono
  <2> QED
    BY <2>1, <2>2, Induction
<1> QED
  BY <1>1, <1>2

\* The slot of a time, and its ends: the upper one is above the time, and at most
\* twice the time.
LEMMA SlotEnds ==
    ASSUME NEW v \in Nat
    PROVE  /\ bpf_log2l(v) \in 1..(v + 1)
           /\ v < Exp2[bpf_log2l(v)]
           /\ v > 0 => Exp2[bpf_log2l(v)] <= 2 * v /\ bpf_log2l(v) <= v
<1>0. \A k \in Nat : Exp2[k] \in Nat /\ Exp2[k + 1] = 2 * Exp2[k] /\ k < Exp2[k]
  BY Exp2Values, Exp2Grows
<1>1. CASE v = 0
  <2>1. bpf_log2l(v) = 1 /\ Exp2[1] = 2
    <3>1. Exp2[0 + 1] = 2 * Exp2[0] /\ Exp2[0] = 1
      BY Exp2Values
    <3> QED
      BY <1>1, <3>1 DEF bpf_log2l, Log2
  <2> QED
    BY <1>1, <2>1
<1>2. CASE v > 0
  <2> DEFINE T == {k \in Nat : v < Exp2[k]}
             P(k) == Exp2[k] <= v /\ v < Exp2[k + 1]
  <2>1. v \in T
    BY <1>0
  <2>2. PICK m \in T : \A k \in T : m <= k
    <3>1. T \in SUBSET Nat /\ T # {}
      BY <2>1
    <3> HIDE DEF T
    <3> QED
      BY <3>1, Smallest
  <2>3. m # 0
    BY <1>2, <2>2, Exp2Values
  <2>4. m - 1 \in Nat /\ (m - 1) + 1 = m /\ m <= v
    BY <2>1, <2>2, <2>3
  <2>5. m - 1 \notin T
    BY <2>2, <2>4
  <2>6. m - 1 \in 0..v /\ P(m - 1)
    BY <1>0, <2>2, <2>4, <2>5
  <2>7. Log2(v) \in 0..v /\ P(Log2(v))
    <3> DEFINE l == CHOOSE k \in 0..v : P(k)
    <3>1. l \in 0..v /\ P(l)
      BY <2>6
    <3>2. Log2(v) = l
      BY <1>2 DEF Log2
    <3> QED
      BY <3>1, <3>2
  <2> DEFINE k == Log2(v)
  <2>8. k \in Nat /\ Exp2[k] <= v /\ v < Exp2[k + 1] /\ k < Exp2[k] /\ Exp2[k] \in Nat
        /\ Exp2[k + 1] = 2 * Exp2[k]
    BY <1>0, <2>7
  <2>9. bpf_log2l(v) = k + 1
    BY DEF bpf_log2l
  <2> HIDE DEF k
  <2>10. k + 1 <= v /\ k + 1 \in 1..(v + 1) /\ Exp2[k + 1] <= 2 * v
    BY <2>8
  <2> QED
    BY <2>8, <2>9, <2>10
<1> QED
  BY <1>1, <1>2

\* Longer times do not lie in lower slots.
LEMMA SlotsOrdered ==
    ASSUME NEW v \in Nat, NEW w \in Nat, v <= w
    PROVE  bpf_log2l(v) <= bpf_log2l(w)
<1> DEFINE i == bpf_log2l(v)
           j == bpf_log2l(w)
<1>1. i \in Nat \ {0} /\ j \in Nat \ {0} /\ w < Exp2[j] /\ (v > 0 => Exp2[i] <= 2 * v)
      /\ (v = 0 => i = 1)
  BY SlotEnds
<1> HIDE DEF i, j
<1> SUFFICES ASSUME i > j PROVE FALSE
  BY <1>1 DEF i, j
<1>2. v > 0
  BY <1>1
<1>3. i - 1 \in Nat /\ j <= i - 1 /\ (i - 1) + 1 = i
  BY <1>1
<1>4. Exp2[j] <= Exp2[i - 1] /\ Exp2[i] = 2 * Exp2[i - 1]
      /\ Exp2[j] \in Nat /\ Exp2[i - 1] \in Nat
  BY <1>1, <1>3, Exp2Grows, Exp2Values
<1> QED
  BY <1>1, <1>2, <1>4

-----------------------------------------------------------------------------
\* The histogram of a window

\* The longest time recorded in the window lies in the highest slot used, and
\* nothing of the windows before is left.  (A time is not longer than the clock, so
\* its slot is one of dist.)
WindowInv ==
    /\ now <= MaxTime
    /\ longest = NoTime => KeysUsed = {}
    /\ longest # NoTime => /\ longest <= MaxTime
                           /\ bpf_log2l(longest) \in KeysUsed
                           /\ \A k \in KeysUsed : k <= bpf_log2l(longest)

\* The slot of a time is one of dist.
LEMMA SlotInDist ==
    ASSUME NEW v \in Nat, v <= MaxTime
    PROVE  bpf_log2l(v) \in Keys
<1>1. bpf_log2l(v) \in 1..(v + 1) /\ (v > 0 => bpf_log2l(v) <= v) /\ MaxTime \in Nat
  BY SlotEnds, LatencyBounds
<1> QED
  BY <1>1 DEF Keys

\* A record goes to its slot, and becomes the longest if its slot can be the highest.
LEMMA WindowReturn ==
    ASSUME TimesInv, MeasureTypes, WindowInv, NEW t \in Threads, Return(t)
    PROVE  WindowInv'
<1> DEFINE frame == stack[t][Len(stack[t])]
           delta == now - start[t]
           key == bpf_log2l(delta)
<1>1. now' = now
  BY DEF Return
<1>2. CASE UNCHANGED tableVars
  BY <1>1, <1>2 DEF WindowInv, KeysUsed, tableVars
<1>3. CASE ~UNCHANGED tableVars
  <2>1. func_return0(t, frame) /\ start[t] # NoTime
    BY <1>3 DEF Return, func_return0
  <2>2. now \in Nat /\ start[t] \in Nat /\ start[t] <= now /\ now <= MaxTime /\ MaxTime \in Nat
    BY <2>1, LatencyBounds DEF TimesInv, Shape, WindowInv
  <2>3. delta \in Nat /\ delta <= MaxTime
    BY <2>2
  <2>4. dist' = [dist EXCEPT ![key] = @ + 1]
        /\ longest' = IF delta > longest THEN delta ELSE longest
    BY <2>1 DEF func_return0
  <2> HIDE DEF delta
  <2>5. key \in Keys /\ key \in Nat
    BY <2>3, SlotInDist DEF Keys
  <2>6. dist \in [Keys -> Nat] /\ longest \in Nat \cup {NoTime}
    BY DEF MeasureTypes
  <2>k. \A v \in Nat : v <= delta => bpf_log2l(v) <= key
    BY <2>3, SlotsOrdered
  <2>l. \A v \in Nat : delta <= v => key <= bpf_log2l(v)
    BY <2>3, SlotsOrdered
  <2> HIDE DEF key
  <2>7. KeysUsed' = KeysUsed \cup {key}
    <3>1. dist'[key] = dist[key] + 1 /\ dist[key] \in Nat
      BY <2>4, <2>5, <2>6
    <3>2. \A k \in Keys \ {key} : dist'[k] = dist[k]
      BY <2>4, <2>5, <2>6
    <3>3. dist'[key] > 0
      BY <3>1
    <3>4. \A k \in Keys : dist'[k] > 0 <=> dist[k] > 0 \/ k = key
      BY <2>5, <3>2, <3>3
    <3> QED
      BY <2>5, <3>4 DEF KeysUsed
  <2>8. CASE longest = NoTime
    <3>1. KeysUsed' = {key} /\ longest' = delta /\ longest' # NoTime
      BY <2>3, <2>4, <2>7, <2>8 DEF WindowInv, NoTime
    <3>2. bpf_log2l(longest') = key
      BY <3>1 DEF key
    <3> QED
      BY <1>1, <2>2, <2>3, <2>5, <3>1, <3>2 DEF WindowInv
  <2>9. CASE longest # NoTime
    <3> DEFINE top == bpf_log2l(longest)
    <3>1. longest \in Nat /\ longest <= MaxTime /\ top \in KeysUsed /\ \A k \in KeysUsed : k <= top
      BY <2>6, <2>9 DEF WindowInv
    <3>t. KeysUsed \subseteq Nat /\ top \in Nat
      BY <2>2, <3>1 DEF KeysUsed, Keys
    <3>2. CASE delta > longest
      <4>1. longest' = delta /\ bpf_log2l(longest') = key
        BY <2>4, <3>2 DEF key
      <4>2. top <= key
        BY <2>3, <2>k, <3>1, <3>2
      <4> HIDE DEF top
      <4>3. \A k \in KeysUsed' : k <= key
        BY <2>5, <2>7, <3>1, <3>t, <4>2
      <4>4. longest' # NoTime
        BY <2>3, <4>1 DEF NoTime
      <4> QED
        BY <1>1, <2>2, <2>3, <2>7, <4>1, <4>3, <4>4 DEF WindowInv
    <3>3. CASE ~(delta > longest)
      <4>1. longest' = longest /\ bpf_log2l(longest') = top
        BY <2>4, <3>3
      <4>2. key <= top
        BY <2>3, <2>l, <3>1, <3>3
      <4> HIDE DEF top
      <4>3. \A k \in KeysUsed' : k <= top
        BY <2>7, <3>1, <4>2
      <4> QED
        BY <1>1, <2>2, <2>7, <2>9, <3>1, <4>1, <4>3 DEF WindowInv
    <3> QED
      BY <3>2, <3>3
  <2> QED
    BY <2>8, <2>9
<1> QED
  BY <1>2, <1>3

\* The other steps record nothing; PrintLatency clears the histogram.
LEMMA WindowStep == TimesInv /\ MeasureTypes /\ WindowInv /\ [Next]_vars => WindowInv'
<1> SUFFICES ASSUME TimesInv, MeasureTypes, WindowInv, [Next]_vars PROVE WindowInv'
  OBVIOUS
<1>0. ASSUME now' <= MaxTime, UNCHANGED <<dist, longest>> PROVE WindowInv'
  BY <1>0 DEF WindowInv, KeysUsed
<1>b. now \in Nat /\ MaxTime \in Nat /\ now <= MaxTime
  BY LatencyBounds DEF TimesInv, Shape, WindowInv
<1>1. ASSUME NEW t \in Threads, Return(t) PROVE WindowInv'
  BY <1>1, WindowReturn
<1>2. ASSUME NEW t \in Threads, NEW m \in Methods, Call(t, m) PROVE WindowInv'
  <2>1. UNCHANGED <<now, dist, longest>>
    BY <1>2 DEF Call, func_entry0, tableVars
  <2> QED
    BY <1>0, <1>b, <2>1
<1>3. CASE Tick
  <2>1. now' <= MaxTime /\ UNCHANGED <<dist, longest>>
    BY <1>3, <1>b DEF Tick, tableVars
  <2> QED
    BY <1>0, <2>1
<1>4. CASE AttachEntry \/ AttachReturn \/ Monitor \/ DetachEntry \/ DetachReturn \/ Detached
           \/ Finished \/ UNCHANGED vars
  <2>1. UNCHANGED <<now, dist, longest>>
    BY <1>4 DEF AttachEntry, AttachReturn, Monitor, DetachEntry, DetachReturn, Detached,
                Finished, vars, tableVars, stackVars
  <2> QED
    BY <1>0, <1>b, <2>1
<1>5. CASE PrintLatency
  <2>1. now' = now /\ dist' = [k \in Keys |-> 0] /\ longest' = NoTime
    BY <1>5 DEF PrintLatency, stackVars
  <2>2. KeysUsed' = {}
    BY <2>1 DEF KeysUsed
  <2> QED
    BY <1>b, <2>1, <2>2 DEF WindowInv
<1> QED
  BY <1>1, <1>2, <1>3, <1>4, <1>5 DEF Next

\* What LatencyMethod returns to the tuning rules is above every latency recorded
\* in the window and at most twice the longest, whatever the windows before it
\* recorded and however long it lasts.
THEOREM MaxLatWithinTwo == Spec => []MaxLatBoundsWindow
<1>1. ASSUME Init PROVE WindowInv
  <2>1. now = 0 /\ longest = NoTime /\ dist = [k \in Keys |-> 0]
    BY <1>1 DEF Init
  <2>2. KeysUsed = {}
    BY <2>1 DEF KeysUsed
  <2> QED
    BY <2>1, <2>2, LatencyBounds DEF WindowInv
<1>2. ASSUME MeasureTypes, WindowInv PROVE MaxLatBoundsWindow
  <2>1. CASE longest = NoTime
    BY <1>2, <2>1 DEF WindowInv, MaxLatBoundsWindow
  <2>2. CASE longest # NoTime
    <3> DEFINE top == bpf_log2l(longest)
    <3>1. longest \in Nat /\ top \in KeysUsed /\ \A k \in KeysUsed : k <= top
      BY <1>2, <2>2 DEF MeasureTypes, WindowInv
    <3>2. longest < Exp2[top] /\ (longest > 0 => Exp2[top] <= 2 * longest)
      BY <3>1, SlotEnds
    <3>3. KeysUsed \subseteq Nat
      BY LatencyBounds DEF KeysUsed, Keys
    <3> HIDE DEF top
    <3>4. Largest(KeysUsed) = top
      <4> DEFINE l == CHOOSE k \in KeysUsed : \A j \in KeysUsed : j <= k
      <4>1. l \in KeysUsed /\ \A j \in KeysUsed : j <= l
        BY <3>1, Zenon
      <4>2. l <= top /\ top <= l /\ l \in Nat /\ top \in Nat
        BY <3>1, <3>3, <4>1
      <4>3. l = top
        BY <4>2
      <4> QED
        BY <4>3 DEF Largest
    <3> QED
      BY <2>2, <3>1, <3>2, <3>4 DEF MaxLatBoundsWindow
  <2> QED
    BY <2>1, <2>2
<1> QED
  BY <1>1, <1>2, TypesInit, TimesInit, TimesStep, MeasureTypesStep, WindowStep, PTL DEF Spec
=============================================================================
