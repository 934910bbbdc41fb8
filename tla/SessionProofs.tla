--------------------------- MODULE SessionProofs ---------------------------
(***************************************************************************)
(* Proofs about modules Session and Agent, for every number of rounds and  *)
(* samples and every option string: type correctness, the invariants about *)
(* windows, reports and streams, that a session in method mode implements  *)
(* module Windows, and that the agent implements module Session.           *)
(***************************************************************************)
EXTENDS Agent, TLAPS

\* Before the first round nothing has happened yet, and a round that has not
\* started has no samples and no report.
Beginning ==
    /\ pc \in {"none", "sleep", "wait"} => round = 0 /\ counts = 0
    /\ \A r \in Rounds : r > round => taken[r] = 0 /\ reports[r] = NoReport

\* Until the agent is loaded there is no session, and all streams but stdout
\* are closed; afterwards the options are those of the command.
Unloaded ==
    /\ ~jvmti => /\ pc = "none" /\ opts = NoOptions /\ ~ATTACH /\ ~loading
                 /\ vm # "unloaded" /\ faults = {} /\ open = {"stdout"}
    /\ jvmti => opts \in Options /\ pc # "none"
    /\ (jvmti /\ ATTACH /\ ~loading) => pc = "done"

\* Where the windows are: every sample in the table has been taken in the
\* window that is not reported yet.
MethodWindow ==
    opts.id = 4 =>
        /\ counts = IF pc \in {"sampling", "print"} THEN taken[round] ELSE 0
        /\ pc \in {"sampling", "print"} => round > 0 /\ reports[round] = NoReport
        /\ pc \in {"tune", "round"} /\ round > 0 => reports[round] # NoReport

\* The same for thread and flame modes, whose table is never cleared: it holds
\* what the last report counted and the samples taken since.
OtherWindow ==
    opts.id \in {1, 2} =>
        /\ counts = IF pc \in {"sampling", "print"}
                     THEN Counted(round - 1) + taken[round] ELSE Counted(round)
        /\ pc \in {"sampling", "print"} => round > 0 /\ reports[round] = NoReport
        /\ \A r \in Rounds : r < round \/ (r = round /\ pc \in {"tune", "round"}) =>
                             reports[r] # NoReport

\* wait_until is not over before the marker is written.
Waiting == (opts.until /\ ~marker) => ~UNTIL /\ pc \in {"sleep", "wait"}

\* In method mode the files are open until Agent_OnUnload, which an attached
\* session meets only when it is done.
StreamsOpen ==
    /\ (vm = "live" /\ jvmti /\ opts.id \in {-1, 4}) =>
          {Out, "stdout", "perf"} \subseteq open
    /\ (vm = "unloaded" /\ ATTACH) => pc = "done"

IInv ==
    /\ TypeOK
    /\ Beginning
    /\ Unloaded
    /\ SamplingOnlyInWindow
    /\ MethodWindow
    /\ MethodReportsAreFresh
    /\ OtherWindow
    /\ OtherReportsAccumulate
    /\ Waiting
    /\ StreamsOpen
    /\ AttachedMethodThreadIsClean

-----------------------------------------------------------------------------
\* Types

\* What the options left behind may be.
LEMMA OptionTypes ==
    ASSUME NEW o \in Options \cup {NoOptions}
    PROVE  /\ o.id \in Int /\ o.n \in 0..MaxRounds
           /\ o.until \in BOOLEAN /\ o.log \in BOOLEAN
<1>1. CASE o = NoOptions
  BY <1>1, BoundsAssumption DEF NoOptions
<1>2. CASE o \in Options
  <2>1. o \in [id : Ids, n : 0..MaxRounds, until : BOOLEAN, log : BOOLEAN,
               rule : {"none", "field", "method"}]
    BY <1>2 DEF Options
  <2>2. o.id \in Ids /\ o.n \in 0..MaxRounds /\ o.until \in BOOLEAN /\ o.log \in BOOLEAN
    BY <2>1
  <2>3. \A i \in Ids : i \in Int
    BY DEF Ids
  <2> QED
    BY <2>2, <2>3, Zenon
<1> QED
  BY <1>1, <1>2

\* The initial state is well typed.
LEMMA TypeInit == Init => TypeOK
<1> SUFFICES ASSUME Init PROVE TypeOK
  OBVIOUS
<1>1. opts \in Options \cup {NoOptions}
  BY DEF Init
<1>2. /\ round \in 0..MaxRounds /\ counts \in Nat
      /\ taken \in [Rounds -> Nat] /\ reports \in [Rounds -> Nat \cup {NoReport}]
  BY BoundsAssumption DEF Init
<1>3. open \in SUBSET Streams /\ faults \in SUBSET Faults
  BY DEF Init, Streams
<1> QED
  BY <1>1, <1>2, <1>3 DEF Init, TypeOK

\* Every step keeps the types.
LEMMA TypeStep == TypeOK /\ [Next]_vars => TypeOK'
<1> SUFFICES ASSUME TypeOK, [Next]_vars PROVE TypeOK'
  OBVIOUS
<1> USE DEF TypeOK
<1>s. Out \in Streams
  BY DEF Out, Streams
<1>o. opts.n \in 0..MaxRounds
  BY OptionTypes
<1>w. \A s \in Streams : Write(s) \subseteq Faults /\ Close(s) \subseteq Faults
  BY DEF Write, Close, Faults
<1>p. "perf" \in Streams /\ "stdout" \in Streams /\ "log" \in Streams
  BY DEF Streams
<1>1. ASSUME NEW o \in Options, Agent_OnLoad(o) PROVE TypeOK'
  BY <1>1, <1>p DEF Agent_OnLoad, Load, bpfVars, Options
<1>2. ASSUME NEW o \in Options, Agent_OnAttach(o) PROVE TypeOK'
  <2>1. CASE UNCHANGED vars
    BY <2>1 DEF vars
  <2>2. CASE ATTACH' = TRUE /\ Load(o) /\ UNCHANGED <<vm, round, marker, bpfVars, reports, faults>>
    BY <2>2, <1>p DEF Load, bpfVars, Options
  <2> QED
    BY <1>2, <2>1, <2>2 DEF Agent_OnAttach
<1>3. CASE Profile
  <2> USE DEF loadVars, bpfVars
  <2>1. CASE StartProfile
    BY <2>1 DEF StartProfile
  <2>2. CASE Poll
    BY <2>2, <1>w, <1>p DEF Poll
  <2>3. CASE WaitUntil
    BY <2>3 DEF WaitUntil
  <2>4. CASE StartBPF
    <3>1. round' \in 0..MaxRounds
      BY <2>4, <1>o, BoundsAssumption DEF StartBPF
    <3>2. loaded' \in BOOLEAN /\ BPF_INIT' \in BOOLEAN
      <4>1. CASE BPF_INIT
        BY <2>4, <4>1 DEF StartBPF
      <4>2. CASE ~BPF_INIT /\ opts.id \in {1, 2, 4}
        BY <2>4, <4>2 DEF StartBPF
      <4>3. CASE ~BPF_INIT /\ opts.id \notin {1, 2, 4}
        BY <2>4, <4>3 DEF StartBPF
      <4> QED
        BY <4>1, <4>2, <4>3
    <3>3. attached' \in BOOLEAN
      <4>1. CASE loaded' /\ ~attached
        BY <2>4, <4>1 DEF StartBPF
      <4>2. CASE ~(loaded' /\ ~attached)
        BY <2>4, <4>2 DEF StartBPF
      <4> QED
        BY <4>1, <4>2
    <3> QED
      BY <2>4, <3>1, <3>2, <3>3, <1>w, <1>p DEF StartBPF
  <2>5. CASE StopBPF
    BY <2>5, <1>w, <1>p DEF StopBPF
  <2>6. CASE StopAlloc
    BY <2>6, <1>w, <1>p DEF StopAlloc
  <2>7. CASE EndProfile
    BY <2>7 DEF EndProfile
  <2>8. CASE NoTable
    BY <2>8 DEF NoTable
  <2>9. CASE PrintFlame
    BY <2>9, <1>w, <1>s DEF PrintFlame, Reported
  <2>10. CASE PrintThread
    BY <2>10, <1>w, <1>s DEF PrintThread, Reported
  <2>11. CASE PrintTopMethods
    BY <2>11, <1>w, <1>s, <1>p DEF PrintTopMethods, Reported
  <2>12. CASE PrintAlloc
    BY <2>12, <1>w, <1>s DEF PrintAlloc
  <2>13. CASE PrintNothing
    BY <2>13 DEF PrintNothing
  <2>14. CASE TuneAllFields
    <3>1. faults' \in SUBSET Faults
      <4>1. PICK fires \in BOOLEAN, logs \in BOOLEAN :
                faults' = faults \cup (IF opts.rule # "none" THEN Write("stdout") ELSE {})
                                 \cup (IF fires /\ ~ATTACH THEN {"jni"} ELSE {})
                                 \cup (IF logs THEN Write(Out) ELSE {})
        BY <2>14 DEF TuneAllFields
      <4>2. Write(Out) \subseteq Faults /\ Write("stdout") \subseteq Faults /\ {"jni"} \subseteq Faults
        BY <1>w, <1>s, <1>p DEF Faults
      <4> QED
        BY <4>1, <4>2
    <3> QED
      BY <2>14, <3>1 DEF TuneAllFields
  <2> QED
    BY <1>3, <2>1, <2>2, <2>3, <2>4, <2>5, <2>6, <2>7, <2>8, <2>9, <2>10,
       <2>11, <2>12, <2>13, <2>14 DEF Profile
<1>4. CASE Sample
  <2>1. taken' \in [Rounds -> Nat]
    <3>1. taken' = [taken EXCEPT ![round] = @ + 1]
      BY <1>4 DEF Sample
    <3>2. CASE round \in Rounds
      BY <3>1, <3>2
    <3>3. CASE round \notin Rounds
      <4>1. taken' = taken
        BY <3>1, <3>3
      <4> QED
        BY <4>1
    <3> QED
      BY <3>2, <3>3
  <2>2. counts' \in Nat
    BY <1>4 DEF Sample
  <2> QED
    BY <1>4, <2>1, <2>2 DEF Sample, loadVars
<1>5. CASE MarkerWritten
  BY <1>5 DEF MarkerWritten, loadVars, bpfVars
<1>6. CASE Agent_OnUnload
  BY <1>6, <1>w, <1>p, <1>s DEF Agent_OnUnload, loadVars, bpfVars
<1>7. CASE VMExit
  BY <1>7 DEF VMExit, loadVars, bpfVars
<1>8. CASE Stopped \/ UNCHANGED vars
  BY <1>8 DEF Stopped, vars, loadVars, bpfVars
<1>9. CASE LoadReturns
  BY <1>9, <1>w, <1>p DEF LoadReturns, loadVars, bpfVars
<1> QED
  BY <1>1, <1>2, <1>3, <1>4, <1>5, <1>6, <1>7, <1>8, <1>9 DEF Next

\* Every reachable state is well typed: no round, sample or report leaves its
\* range and no stream or fault is anything but the named ones.
THEOREM TypeCorrect == Spec => []TypeOK
  BY TypeInit, TypeStep, PTL DEF Spec

-----------------------------------------------------------------------------
\* The inductive invariant

\* It holds at the start.
LEMMA IInvInit == Init => IInv
<1> SUFFICES ASSUME Init PROVE IInv
  OBVIOUS
<1>1. TypeOK
  BY TypeInit
<1>2. Beginning /\ MethodReportsAreFresh
  BY DEF Init, Beginning, MethodReportsAreFresh, NoReport
<1>3. Unloaded /\ SamplingOnlyInWindow /\ StreamsOpen /\ AttachedMethodThreadIsClean
  BY DEF Init, Unloaded, SamplingOnlyInWindow, StreamsOpen, AttachedMethodThreadIsClean
<1>4. MethodWindow /\ Waiting
  BY DEF Init, MethodWindow, Waiting, NoOptions
<1>5. OtherWindow /\ OtherReportsAccumulate
  BY DEF Init, OtherWindow, OtherReportsAccumulate, NoOptions
<1> QED
  BY <1>1, <1>2, <1>3, <1>4, <1>5 DEF IInv

\* Loading happens once, and only options of the command are kept.
LEMMA UnloadedStep == IInv /\ [Next]_vars => Unloaded'
<1> SUFFICES ASSUME IInv, [Next]_vars PROVE Unloaded'
  OBVIOUS
<1> USE DEF IInv, Unloaded, vars, loadVars, bpfVars
<1>1. ASSUME NEW o \in Options, Agent_OnLoad(o) PROVE Unloaded'
  BY <1>1 DEF Agent_OnLoad, Load
<1>2. ASSUME NEW o \in Options, Agent_OnAttach(o) PROVE Unloaded'
  BY <1>2 DEF Agent_OnAttach, Load
<1>3. CASE Profile
  <2>1. CASE StartProfile
    BY <2>1 DEF StartProfile
  <2>2. CASE Poll
    BY <2>2 DEF Poll
  <2>3. CASE WaitUntil
    BY <2>3 DEF WaitUntil
  <2>4. CASE StartBPF
    BY <2>4 DEF StartBPF
  <2>5. CASE StopBPF
    BY <2>5 DEF StopBPF
  <2>6. CASE StopAlloc
    BY <2>6 DEF StopAlloc
  <2>7. CASE EndProfile
    BY <2>7 DEF EndProfile
  <2>8. CASE NoTable
    BY <2>8 DEF NoTable, Printing
  <2>9. CASE PrintFlame
    BY <2>9 DEF PrintFlame, Printing, Reported
  <2>10. CASE PrintThread
    BY <2>10 DEF PrintThread, Printing, Reported
  <2>11. CASE PrintTopMethods
    BY <2>11 DEF PrintTopMethods, Printing, Reported
  <2>12. CASE PrintAlloc
    BY <2>12 DEF PrintAlloc, Printing
  <2>13. CASE PrintNothing
    BY <2>13 DEF PrintNothing, Printing
  <2>14. CASE TuneAllFields
    BY <2>14 DEF TuneAllFields
  <2> QED
    BY <1>3, <2>1, <2>2, <2>3, <2>4, <2>5, <2>6, <2>7,
       <2>8, <2>9, <2>10, <2>11, <2>12, <2>13, <2>14 DEF Profile
<1>4. CASE Sample
  BY <1>4 DEF Sample
<1>5. CASE MarkerWritten
  BY <1>5 DEF MarkerWritten
<1>6. CASE Agent_OnUnload
  BY <1>6 DEF Agent_OnUnload
<1>7. CASE VMExit
  BY <1>7 DEF VMExit
<1>8. CASE Stopped \/ UNCHANGED vars
  BY <1>8 DEF Stopped
<1>9. CASE LoadReturns
  BY <1>9 DEF LoadReturns
<1> QED
  BY <1>1, <1>2, <1>3, <1>4, <1>5, <1>6, <1>7, <1>8, <1>9 DEF Next

\* The event is attached by StartBPF and detached by StopBPF.
LEMMA SamplingStep == IInv /\ [Next]_vars => SamplingOnlyInWindow'
<1> SUFFICES ASSUME IInv, [Next]_vars PROVE SamplingOnlyInWindow'
  OBVIOUS
<1> USE DEF IInv, Unloaded, SamplingOnlyInWindow, vars, loadVars, bpfVars
<1>1. ASSUME NEW o \in Options, Agent_OnLoad(o) PROVE SamplingOnlyInWindow'
  BY <1>1 DEF Agent_OnLoad, Load
<1>2. ASSUME NEW o \in Options, Agent_OnAttach(o) PROVE SamplingOnlyInWindow'
  BY <1>2 DEF Agent_OnAttach, Load
<1>3. CASE Profile
  <2>1. CASE StartProfile
    BY <2>1 DEF StartProfile
  <2>2. CASE Poll
    BY <2>2 DEF Poll
  <2>3. CASE WaitUntil
    BY <2>3 DEF WaitUntil
  <2>4. CASE StartBPF
    BY <2>4 DEF StartBPF
  <2>5. CASE StopBPF
    BY <2>5 DEF StopBPF
  <2>6. CASE StopAlloc
    BY <2>6 DEF StopAlloc
  <2>7. CASE EndProfile
    BY <2>7 DEF EndProfile
  <2>8. CASE NoTable
    BY <2>8 DEF NoTable, Printing
  <2>9. CASE PrintFlame
    BY <2>9 DEF PrintFlame, Printing, Reported
  <2>10. CASE PrintThread
    BY <2>10 DEF PrintThread, Printing, Reported
  <2>11. CASE PrintTopMethods
    BY <2>11 DEF PrintTopMethods, Printing, Reported
  <2>12. CASE PrintAlloc
    BY <2>12 DEF PrintAlloc, Printing
  <2>13. CASE PrintNothing
    BY <2>13 DEF PrintNothing, Printing
  <2>14. CASE TuneAllFields
    BY <2>14 DEF TuneAllFields
  <2> QED
    BY <1>3, <2>1, <2>2, <2>3, <2>4, <2>5, <2>6, <2>7,
       <2>8, <2>9, <2>10, <2>11, <2>12, <2>13, <2>14 DEF Profile
<1>4. CASE Sample
  BY <1>4 DEF Sample
<1>5. CASE MarkerWritten
  BY <1>5 DEF MarkerWritten
<1>6. CASE Agent_OnUnload
  BY <1>6 DEF Agent_OnUnload
<1>7. CASE VMExit
  BY <1>7 DEF VMExit
<1>8. CASE Stopped \/ UNCHANGED vars
  BY <1>8 DEF Stopped
<1>9. CASE LoadReturns
  BY <1>9 DEF LoadReturns
<1> QED
  BY <1>1, <1>2, <1>3, <1>4, <1>5, <1>6, <1>7, <1>8, <1>9 DEF Next

\* The rounds begin with wait_until over, and the next window is empty.
LEMMA BeginningStep == IInv /\ [Next]_vars => Beginning'
<1> SUFFICES ASSUME IInv, [Next]_vars PROVE Beginning'
  OBVIOUS
<1> USE DEF IInv, TypeOK, Unloaded, SamplingOnlyInWindow, Beginning, vars, loadVars, bpfVars
<1>1. ASSUME NEW o \in Options, Agent_OnLoad(o) PROVE Beginning'
  BY <1>1 DEF Agent_OnLoad, Load
<1>2. ASSUME NEW o \in Options, Agent_OnAttach(o) PROVE Beginning'
  BY <1>2 DEF Agent_OnAttach, Load
<1>3. CASE Profile
  <2>1. CASE StartProfile
    BY <2>1 DEF StartProfile
  <2>2. CASE Poll
    BY <2>2 DEF Poll
  <2>3. CASE WaitUntil
    BY <2>3 DEF WaitUntil
  <2>4. CASE StartBPF
    <3>1. round' = round + 1 /\ round \in Nat /\ pc' = "sampling"
      BY <2>4 DEF StartBPF
    <3>2. taken' = taken /\ reports' = reports
      BY <2>4 DEF StartBPF
    <3>3. \A r \in Rounds : r > round' => r > round
      BY <3>1 DEF Rounds
    <3> QED
      BY <3>1, <3>2, <3>3
  <2>5. CASE StopBPF
    BY <2>5 DEF StopBPF
  <2>6. CASE StopAlloc
    BY <2>6 DEF StopAlloc
  <2>7. CASE EndProfile
    BY <2>7 DEF EndProfile
  <2>8. CASE NoTable
    BY <2>8 DEF NoTable, Printing
  <2>9. CASE PrintFlame
    BY <2>9 DEF PrintFlame, Printing, Reported
  <2>10. CASE PrintThread
    BY <2>10 DEF PrintThread, Printing, Reported
  <2>11. CASE PrintTopMethods
    BY <2>11 DEF PrintTopMethods, Printing, Reported
  <2>12. CASE PrintAlloc
    BY <2>12 DEF PrintAlloc, Printing
  <2>13. CASE PrintNothing
    BY <2>13 DEF PrintNothing, Printing
  <2>14. CASE TuneAllFields
    BY <2>14 DEF TuneAllFields
  <2> QED
    BY <1>3, <2>1, <2>2, <2>3, <2>4, <2>5, <2>6, <2>7,
       <2>8, <2>9, <2>10, <2>11, <2>12, <2>13, <2>14 DEF Profile
<1>4. CASE Sample
  BY <1>4 DEF Sample
<1>5. CASE MarkerWritten
  BY <1>5 DEF MarkerWritten
<1>6. CASE Agent_OnUnload
  BY <1>6 DEF Agent_OnUnload
<1>7. CASE VMExit
  BY <1>7 DEF VMExit
<1>8. CASE Stopped \/ UNCHANGED vars
  BY <1>8 DEF Stopped
<1>9. CASE LoadReturns
  BY <1>9 DEF LoadReturns
<1> QED
  BY <1>1, <1>2, <1>3, <1>4, <1>5, <1>6, <1>7, <1>8, <1>9 DEF Next

\* PrintTopMethods leaves an empty table to the next window.
LEMMA MethodWindowStep == IInv /\ [Next]_vars => MethodWindow'
<1> SUFFICES ASSUME IInv, [Next]_vars PROVE MethodWindow'
  OBVIOUS
<1> USE DEF IInv, TypeOK, Unloaded, SamplingOnlyInWindow, Beginning, MethodWindow, vars, loadVars, bpfVars
<1>1. ASSUME NEW o \in Options, Agent_OnLoad(o) PROVE MethodWindow'
  BY <1>1 DEF Agent_OnLoad, Load
<1>2. ASSUME NEW o \in Options, Agent_OnAttach(o) PROVE MethodWindow'
  BY <1>2 DEF Agent_OnAttach, Load
<1>3. CASE Profile
  <2>1. CASE StartProfile
    BY <2>1 DEF StartProfile
  <2>2. CASE Poll
    BY <2>2 DEF Poll
  <2>3. CASE WaitUntil
    BY <2>3 DEF WaitUntil
  <2>4. CASE StartBPF
    <3>1. opts.n \in 0..MaxRounds /\ round < opts.n
      BY <2>4, OptionTypes DEF StartBPF
    <3>2. round' = round + 1 /\ round' \in Rounds /\ round' > round /\ round' > 0
      BY <2>4, <3>1, BoundsAssumption DEF StartBPF, Rounds
    <3>3. /\ pc = "round" /\ pc' = "sampling" /\ opts' = opts
          /\ counts' = counts /\ taken' = taken /\ reports' = reports
      BY <2>4 DEF StartBPF
    <3>4. taken[round'] = 0 /\ reports[round'] = NoReport
      BY <3>2
    <3> QED
      BY <3>2, <3>3, <3>4
  <2>5. CASE StopBPF
    BY <2>5 DEF StopBPF
  <2>6. CASE StopAlloc
    BY <2>6 DEF StopAlloc
  <2>7. CASE EndProfile
    BY <2>7 DEF EndProfile
  <2>8. CASE NoTable
    BY <2>8 DEF NoTable, Printing
  <2>9. CASE PrintFlame
    BY <2>9 DEF PrintFlame, Printing, Reported
  <2>10. CASE PrintThread
    BY <2>10 DEF PrintThread, Printing, Reported
  <2>11. CASE PrintTopMethods
    <3>1. CASE opts.id = 4
      <4>1. round \in Rounds
        BY <2>11, <3>1 DEF PrintTopMethods, Printing, Rounds
      <4>2. reports'[round] = counts /\ counts # NoReport
        BY <2>11, <4>1 DEF PrintTopMethods, Reported, NoReport
      <4> QED
        BY <2>11, <4>2 DEF PrintTopMethods, Reported
    <3>2. CASE opts.id # 4
      BY <2>11, <3>2 DEF PrintTopMethods
    <3> QED
      BY <3>1, <3>2
  <2>12. CASE PrintAlloc
    BY <2>12 DEF PrintAlloc, Printing
  <2>13. CASE PrintNothing
    BY <2>13 DEF PrintNothing, Printing
  <2>14. CASE TuneAllFields
    BY <2>14 DEF TuneAllFields
  <2> QED
    BY <1>3, <2>1, <2>2, <2>3, <2>4, <2>5, <2>6, <2>7,
       <2>8, <2>9, <2>10, <2>11, <2>12, <2>13, <2>14 DEF Profile
<1>4. CASE Sample
  <2>1. pc = "sampling" /\ pc' = pc /\ opts' = opts /\ round' = round /\ reports' = reports
    BY <1>4 DEF Sample
  <2>2. CASE opts.id = 4
    <3>1. round \in Rounds
      BY <2>1, <2>2 DEF Rounds
    <3>2. taken'[round] = taken[round] + 1 /\ counts' = counts + 1
      BY <1>4, <3>1 DEF Sample
    <3> QED
      BY <2>1, <2>2, <3>2
  <2>3. CASE opts.id # 4
    BY <2>1, <2>3
  <2> QED
    BY <2>2, <2>3
<1>5. CASE MarkerWritten
  BY <1>5 DEF MarkerWritten
<1>6. CASE Agent_OnUnload
  BY <1>6 DEF Agent_OnUnload
<1>7. CASE VMExit
  BY <1>7 DEF VMExit
<1>8. CASE Stopped \/ UNCHANGED vars
  BY <1>8 DEF Stopped
<1>9. CASE LoadReturns
  BY <1>9 DEF LoadReturns
<1> QED
  BY <1>1, <1>2, <1>3, <1>4, <1>5, <1>6, <1>7, <1>8, <1>9 DEF Next

\* A report is made from the table, which holds its own window.
LEMMA FreshStep == IInv /\ [Next]_vars => MethodReportsAreFresh'
<1> SUFFICES ASSUME IInv, [Next]_vars PROVE MethodReportsAreFresh'
  OBVIOUS
<1> USE DEF IInv, TypeOK, Unloaded, SamplingOnlyInWindow, Beginning, MethodWindow, MethodReportsAreFresh, vars, loadVars, bpfVars
<1>1. ASSUME NEW o \in Options, Agent_OnLoad(o) PROVE MethodReportsAreFresh'
  <2>1. CASE UNCHANGED vars
    BY <2>1
  <2>2. CASE ~jvmti
    <3>1. \A r \in Rounds : reports[r] = NoReport
      BY <2>2 DEF Rounds
    <3> QED
      BY <1>1, <2>2, <3>1 DEF Agent_OnLoad, Load
  <2> QED
    BY <1>1, <2>1, <2>2 DEF Agent_OnLoad, Load
<1>2. ASSUME NEW o \in Options, Agent_OnAttach(o) PROVE MethodReportsAreFresh'
  <2>1. CASE UNCHANGED vars
    BY <2>1
  <2>2. CASE ~jvmti
    <3>1. \A r \in Rounds : reports[r] = NoReport
      BY <2>2 DEF Rounds
    <3> QED
      BY <1>2, <2>2, <3>1 DEF Agent_OnAttach, Load
  <2> QED
    BY <1>2, <2>1, <2>2 DEF Agent_OnAttach, Load
<1>3. CASE Profile
  <2>1. CASE StartProfile
    BY <2>1 DEF StartProfile
  <2>2. CASE Poll
    BY <2>2 DEF Poll
  <2>3. CASE WaitUntil
    BY <2>3 DEF WaitUntil
  <2>4. CASE StartBPF
    BY <2>4 DEF StartBPF
  <2>5. CASE StopBPF
    BY <2>5 DEF StopBPF
  <2>6. CASE StopAlloc
    BY <2>6 DEF StopAlloc
  <2>7. CASE EndProfile
    BY <2>7 DEF EndProfile
  <2>8. CASE NoTable
    BY <2>8 DEF NoTable, Printing
  <2>9. CASE PrintFlame
    BY <2>9 DEF PrintFlame, Printing, Reported
  <2>10. CASE PrintThread
    BY <2>10 DEF PrintThread, Printing, Reported
  <2>11. CASE PrintTopMethods
    BY <2>11 DEF PrintTopMethods, Printing, Reported
  <2>12. CASE PrintAlloc
    BY <2>12 DEF PrintAlloc, Printing
  <2>13. CASE PrintNothing
    BY <2>13 DEF PrintNothing, Printing
  <2>14. CASE TuneAllFields
    BY <2>14 DEF TuneAllFields
  <2> QED
    BY <1>3, <2>1, <2>2, <2>3, <2>4, <2>5, <2>6, <2>7,
       <2>8, <2>9, <2>10, <2>11, <2>12, <2>13, <2>14 DEF Profile
<1>4. CASE Sample
  BY <1>4 DEF Sample
<1>5. CASE MarkerWritten
  BY <1>5 DEF MarkerWritten
<1>6. CASE Agent_OnUnload
  BY <1>6 DEF Agent_OnUnload
<1>7. CASE VMExit
  BY <1>7 DEF VMExit
<1>8. CASE Stopped \/ UNCHANGED vars
  BY <1>8 DEF Stopped
<1>9. CASE LoadReturns
  BY <1>9 DEF LoadReturns
<1> QED
  BY <1>1, <1>2, <1>3, <1>4, <1>5, <1>6, <1>7, <1>8, <1>9 DEF Next

\* A thread or flame report leaves the table as it is to the next window.
LEMMA OtherWindowStep == IInv /\ [Next]_vars => OtherWindow'
<1> SUFFICES ASSUME IInv, [Next]_vars PROVE OtherWindow'
  OBVIOUS
<1>t. TypeOK
  BY DEF IInv
<1>k. ASSUME opts' = opts, round' = round, counts' = counts, taken' = taken, reports' = reports,
             pc' \in {"sampling", "print"} <=> pc \in {"sampling", "print"},
             pc' \in {"tune", "round"} => pc \in {"tune", "round"} \/ round = 0
      PROVE  OtherWindow'
  BY <1>t, <1>k DEF IInv, OtherWindow, TypeOK, Counted, Rounds
<1>l. ASSUME NEW o \in Options, Load(o), ~jvmti, round' = round, bpfVars' = bpfVars,
             reports' = reports
      PROVE  OtherWindow'
  <2>1. round = 0 /\ counts = 0 /\ counts' = 0 /\ round' = 0 /\ pc' = "sleep"
    BY <1>l DEF IInv, Unloaded, Beginning, Load, bpfVars
  <2> QED
    BY <2>1 DEF OtherWindow, Counted, Rounds
<1>1. CASE \E o \in Options : Agent_OnLoad(o) \/ Agent_OnAttach(o)
  <2>1. PICK o \in Options : Agent_OnLoad(o) \/ Agent_OnAttach(o)
    BY <1>1
  <2>2. CASE UNCHANGED vars
    BY <2>2, <1>k DEF vars, loadVars, bpfVars
  <2>3. CASE ~UNCHANGED vars
    BY <2>1, <2>3, <1>l DEF Agent_OnLoad, Agent_OnAttach
  <2> QED
    BY <2>2, <2>3
<1>2. CASE StartProfile \/ Poll \/ WaitUntil \/ EndProfile \/ NoTable \/ PrintNothing \/ TuneAllFields
  <2>1. CASE opts.id \in {1, 2}
    BY <1>2, <2>1, <1>k DEF StartProfile, Poll, WaitUntil, EndProfile, NoTable, PrintNothing,
       Printing, TuneAllFields, loadVars, bpfVars, IInv, Beginning
  <2>2. CASE opts.id \notin {1, 2}
    BY <1>2, <2>2 DEF StartProfile, Poll, WaitUntil, EndProfile, NoTable, PrintNothing,
       TuneAllFields, loadVars, OtherWindow
  <2> QED
    BY <2>1, <2>2
<1>3. CASE StartBPF
  <2>1. opts.n \in 0..MaxRounds /\ round < opts.n
    BY <1>3, <1>t, OptionTypes DEF StartBPF, TypeOK
  <2>2. round' = round + 1 /\ round' \in Rounds /\ round \in Nat
    BY <1>3, <2>1, <1>t, BoundsAssumption DEF StartBPF, Rounds, TypeOK
  <2>3. /\ pc = "round" /\ pc' = "sampling" /\ opts' = opts
        /\ counts' = counts /\ taken' = taken /\ reports' = reports
    BY <1>3 DEF StartBPF, loadVars
  <2>4. taken[round'] = 0 /\ reports[round'] = NoReport
    BY <2>2 DEF IInv, Beginning
  <2>5. opts.id \in {1, 2} => counts = Counted(round) /\ Counted(round) \in Int
    BY <1>t, <2>3 DEF IInv, OtherWindow, TypeOK
  <2>6. Counted(round)' = IF round' = 0 THEN 0 ELSE reports[round']
    BY <2>3 DEF Counted
  <2>7. Counted(round' - 1) = Counted(round) /\ (Counted(round - 1))' = Counted(round)
    BY <2>2, <2>3 DEF Counted
  <2> QED
    BY <1>t, <2>2, <2>3, <2>4, <2>5, <2>7 DEF IInv, OtherWindow, Rounds, TypeOK
<1>4. CASE Sample
  <2>1. pc = "sampling" /\ pc' = pc /\ opts' = opts /\ round' = round /\ reports' = reports
    BY <1>4 DEF Sample, IInv, SamplingOnlyInWindow, loadVars
  <2>2. CASE opts.id \in {1, 2}
    <3>1. round \in Rounds
      BY <1>t, <2>1, <2>2 DEF Rounds, IInv, OtherWindow, TypeOK
    <3>2. taken'[round] = taken[round] + 1 /\ counts' = counts + 1
      BY <1>t, <1>4, <3>1 DEF Sample, TypeOK
    <3>3. Counted(round - 1) \in Int
      <4>1. CASE round = 1
        BY <4>1 DEF Counted
      <4>2. CASE round # 1
        <5>1. round - 1 \in Rounds /\ round - 1 # 0
          BY <3>1, <4>2, BoundsAssumption DEF Rounds
        <5> QED
          BY <1>t, <5>1 DEF Counted, TypeOK, NoReport
      <4> QED
        BY <4>1, <4>2
    <3>4. counts = Counted(round - 1) + taken[round]
      BY <2>1, <2>2 DEF IInv, OtherWindow
    <3>5. (Counted(round - 1))' = Counted(round - 1)
      BY <2>1 DEF Counted
    <3>6. counts' = (Counted(round - 1))' + taken'[round']
      BY <1>t, <2>1, <3>1, <3>2, <3>3, <3>4, <3>5 DEF TypeOK
    <3> QED
      BY <2>1, <2>2, <3>6 DEF IInv, OtherWindow
  <2>3. CASE opts.id \notin {1, 2}
    BY <2>1, <2>3 DEF OtherWindow
  <2> QED
    BY <2>2, <2>3
<1>5. CASE StopBPF
  BY <1>5, <1>k DEF StopBPF, loadVars
<1>6. CASE PrintFlame \/ PrintThread
  <2>1. /\ pc = "print" /\ pc' = "tune" /\ opts' = opts /\ opts.id \in {1, 2}
        /\ round' = round /\ counts' = counts /\ reports' = [reports EXCEPT ![round] = counts]
    BY <1>6 DEF PrintFlame, PrintThread, Printing, Reported, loadVars, bpfVars
  <2>2. round \in Rounds
    BY <1>t, <2>1 DEF Rounds, IInv, OtherWindow, TypeOK
  <2>3. reports'[round] = counts /\ counts # NoReport
    BY <1>t, <2>1, <2>2 DEF TypeOK, NoReport
  <2>4. \A r \in Rounds : r < round => reports'[r] = reports[r] /\ reports[r] # NoReport
    BY <1>t, <2>1, <2>2 DEF TypeOK, IInv, OtherWindow, Rounds
  <2>5. Counted(round)' = counts
    BY <2>1, <2>2, <2>3 DEF Counted, Rounds
  <2> QED
    BY <2>1, <2>3, <2>4, <2>5 DEF OtherWindow
<1>7. CASE PrintTopMethods \/ PrintAlloc \/ StopAlloc
  BY <1>7 DEF PrintTopMethods, PrintAlloc, StopAlloc, Printing, loadVars, OtherWindow
<1>8. CASE LoadReturns \/ MarkerWritten \/ Agent_OnUnload \/ VMExit \/ Stopped \/ UNCHANGED vars
  BY <1>8, <1>k DEF LoadReturns, MarkerWritten, Agent_OnUnload, VMExit, Stopped, vars, loadVars, bpfVars
<1> QED
  BY <1>1, <1>2, <1>3, <1>4, <1>5, <1>6, <1>7, <1>8 DEF Next, Profile

\* So a report counts its own window on top of the report before it.
LEMMA AccumulateStep == IInv /\ [Next]_vars => OtherReportsAccumulate'
<1> SUFFICES ASSUME IInv, [Next]_vars PROVE OtherReportsAccumulate'
  OBVIOUS
<1>t. TypeOK
  BY DEF IInv
<1>k. ASSUME opts' = opts, taken' = taken, reports' = reports
      PROVE  OtherReportsAccumulate'
  BY <1>k DEF IInv, OtherReportsAccumulate, Counted
<1>1. CASE \E o \in Options : Agent_OnLoad(o) \/ Agent_OnAttach(o)
  <2>1. PICK o \in Options : Agent_OnLoad(o) \/ Agent_OnAttach(o)
    BY <1>1
  <2>2. CASE UNCHANGED vars
    BY <2>2, <1>k DEF vars, loadVars, bpfVars
  <2>3. CASE ~UNCHANGED vars
    <3>1. ~jvmti /\ reports' = reports
      BY <2>1, <2>3 DEF Agent_OnLoad, Agent_OnAttach
    <3>2. \A r \in Rounds : reports[r] = NoReport
      BY <3>1 DEF IInv, Unloaded, Beginning, Rounds
    <3> QED
      BY <3>1, <3>2 DEF OtherReportsAccumulate
  <2> QED
    BY <2>2, <2>3
<1>2. CASE PrintFlame \/ PrintThread
  <2>1. /\ pc = "print" /\ opts' = opts /\ opts.id \in {1, 2}
        /\ taken' = taken /\ reports' = [reports EXCEPT ![round] = counts]
    BY <1>2 DEF PrintFlame, PrintThread, Printing, Reported, loadVars, bpfVars
  <2>2. round \in Rounds /\ counts = Counted(round - 1) + taken[round]
    BY <1>t, <2>1 DEF Rounds, IInv, OtherWindow, TypeOK
  <2>3. reports'[round] = Counted(round - 1) + taken[round]
    BY <1>t, <2>1, <2>2 DEF TypeOK
  <2>4. Counted(round - 1) # NoReport
    <3>1. CASE round = 1
      BY <2>1, <3>1 DEF Counted, NoReport
    <3>2. CASE round # 1
      <4>1. round - 1 \in Rounds /\ round - 1 # 0 /\ round - 1 < round /\ round - 1 # round
        BY <2>2, <3>2, BoundsAssumption DEF Rounds
      <4>2. reports'[round - 1] = reports[round - 1] /\ reports[round - 1] # NoReport
        BY <1>t, <2>1, <4>1 DEF TypeOK, IInv, OtherWindow
      <4> QED
        BY <2>1, <4>1, <4>2 DEF Counted
    <3> QED
      BY <3>1, <3>2
  <2> SUFFICES ASSUME NEW r \in Rounds, reports'[r] # NoReport
               PROVE  Counted(r - 1)' # NoReport /\ reports'[r] = Counted(r - 1)' + taken'[r]
    BY DEF OtherReportsAccumulate
  <2>5. CASE r = round
    <3>1. Counted(r - 1)' = Counted(r - 1)
      BY <1>t, <2>1, <2>2, <2>5 DEF Counted, TypeOK, Rounds
    <3> QED
      BY <2>1, <2>3, <2>4, <2>5, <3>1
  <2>6. CASE r # round
    <3>1. reports'[r] = reports[r] /\ reports[r] # NoReport
      BY <1>t, <2>1, <2>6 DEF TypeOK
    <3>2. r < round /\ reports[round] = NoReport
      BY <1>t, <2>1, <2>2, <2>6, <3>1 DEF IInv, Beginning, OtherWindow, Rounds, TypeOK
    <3>3. Counted(r - 1)' = Counted(r - 1)
      BY <1>t, <2>1, <2>2, <3>2 DEF Counted, TypeOK, Rounds
    <3> QED
      BY <2>1, <3>1, <3>3 DEF IInv, OtherReportsAccumulate
  <2> QED
    BY <2>5, <2>6
<1>3. CASE Sample
  <2>1. /\ pc = "sampling" /\ opts' = opts /\ reports' = reports
        /\ taken' = [taken EXCEPT ![round] = @ + 1]
    BY <1>3 DEF Sample, IInv, SamplingOnlyInWindow, loadVars
  <2>2. opts.id \in {1, 2} => reports[round] = NoReport
    BY <2>1 DEF IInv, OtherWindow
  <2>3. \A r \in Rounds : r # round => taken'[r] = taken[r]
    BY <1>t, <2>1 DEF TypeOK
  <2> QED
    BY <2>1, <2>2, <2>3 DEF IInv, OtherReportsAccumulate, Counted
<1>4. CASE PrintTopMethods
  BY <1>4 DEF PrintTopMethods, Printing, loadVars, OtherReportsAccumulate
<1>5. CASE StartProfile \/ Poll \/ WaitUntil \/ StartBPF \/ StopBPF \/ StopAlloc \/ EndProfile
  BY <1>5, <1>k DEF StartProfile, Poll, WaitUntil, StartBPF, StopBPF, StopAlloc, EndProfile,
     loadVars, bpfVars
<1>6. CASE NoTable \/ PrintAlloc \/ PrintNothing \/ TuneAllFields
  BY <1>6, <1>k DEF NoTable, PrintAlloc, PrintNothing, TuneAllFields, loadVars, bpfVars
<1>7. CASE LoadReturns \/ MarkerWritten \/ Agent_OnUnload \/ VMExit \/ Stopped \/ UNCHANGED vars
  BY <1>7, <1>k DEF LoadReturns, MarkerWritten, Agent_OnUnload, VMExit, Stopped, vars, loadVars, bpfVars
<1> QED
  BY <1>1, <1>2, <1>3, <1>4, <1>5, <1>6, <1>7 DEF Next, Profile

\* Only Poll ends the wait, and it needs the marker.
LEMMA WaitingStep == IInv /\ [Next]_vars => Waiting'
<1> SUFFICES ASSUME IInv, [Next]_vars PROVE Waiting'
  OBVIOUS
<1> USE DEF IInv, TypeOK, Unloaded, Waiting, vars, loadVars, bpfVars
<1>1. ASSUME NEW o \in Options, Agent_OnLoad(o) PROVE Waiting'
  BY <1>1 DEF Agent_OnLoad, Load
<1>2. ASSUME NEW o \in Options, Agent_OnAttach(o) PROVE Waiting'
  BY <1>2 DEF Agent_OnAttach, Load
<1>3. CASE Profile
  <2>1. CASE StartProfile
    BY <2>1 DEF StartProfile
  <2>2. CASE Poll
    BY <2>2 DEF Poll
  <2>3. CASE WaitUntil
    BY <2>3 DEF WaitUntil
  <2>4. CASE StartBPF
    BY <2>4 DEF StartBPF
  <2>5. CASE StopBPF
    BY <2>5 DEF StopBPF
  <2>6. CASE StopAlloc
    BY <2>6 DEF StopAlloc
  <2>7. CASE EndProfile
    BY <2>7 DEF EndProfile
  <2>8. CASE NoTable
    BY <2>8 DEF NoTable, Printing
  <2>9. CASE PrintFlame
    BY <2>9 DEF PrintFlame, Printing, Reported
  <2>10. CASE PrintThread
    BY <2>10 DEF PrintThread, Printing, Reported
  <2>11. CASE PrintTopMethods
    BY <2>11 DEF PrintTopMethods, Printing, Reported
  <2>12. CASE PrintAlloc
    BY <2>12 DEF PrintAlloc, Printing
  <2>13. CASE PrintNothing
    BY <2>13 DEF PrintNothing, Printing
  <2>14. CASE TuneAllFields
    BY <2>14 DEF TuneAllFields
  <2> QED
    BY <1>3, <2>1, <2>2, <2>3, <2>4, <2>5, <2>6, <2>7,
       <2>8, <2>9, <2>10, <2>11, <2>12, <2>13, <2>14 DEF Profile
<1>4. CASE Sample
  BY <1>4 DEF Sample
<1>5. CASE MarkerWritten
  BY <1>5 DEF MarkerWritten
<1>6. CASE Agent_OnUnload
  BY <1>6 DEF Agent_OnUnload
<1>7. CASE VMExit
  BY <1>7 DEF VMExit
<1>8. CASE Stopped \/ UNCHANGED vars
  BY <1>8 DEF Stopped
<1>9. CASE LoadReturns
  BY <1>9 DEF LoadReturns
<1> QED
  BY <1>1, <1>2, <1>3, <1>4, <1>5, <1>6, <1>7, <1>8, <1>9 DEF Next

\* Only the other reports and Agent_OnUnload close a stream.
LEMMA StreamsStep == IInv /\ [Next]_vars => StreamsOpen'
<1> SUFFICES ASSUME IInv, [Next]_vars PROVE StreamsOpen'
  OBVIOUS
<1> USE DEF IInv, TypeOK, Unloaded, StreamsOpen, Out, vars, loadVars, bpfVars
<1>1. ASSUME NEW o \in Options, Agent_OnLoad(o) PROVE StreamsOpen'
  BY <1>1 DEF Agent_OnLoad, Load
<1>2. ASSUME NEW o \in Options, Agent_OnAttach(o) PROVE StreamsOpen'
  BY <1>2 DEF Agent_OnAttach, Load
<1>3. CASE Profile
  <2>1. CASE StartProfile
    BY <2>1 DEF StartProfile
  <2>2. CASE Poll
    BY <2>2 DEF Poll
  <2>3. CASE WaitUntil
    BY <2>3 DEF WaitUntil
  <2>4. CASE StartBPF
    BY <2>4 DEF StartBPF
  <2>5. CASE StopBPF
    BY <2>5 DEF StopBPF
  <2>6. CASE StopAlloc
    BY <2>6 DEF StopAlloc
  <2>7. CASE EndProfile
    BY <2>7 DEF EndProfile
  <2>8. CASE NoTable
    BY <2>8 DEF NoTable, Printing
  <2>9. CASE PrintFlame
    BY <2>9 DEF PrintFlame, Printing, Reported
  <2>10. CASE PrintThread
    BY <2>10 DEF PrintThread, Printing, Reported
  <2>11. CASE PrintTopMethods
    BY <2>11 DEF PrintTopMethods, Printing, Reported
  <2>12. CASE PrintAlloc
    BY <2>12 DEF PrintAlloc, Printing
  <2>13. CASE PrintNothing
    BY <2>13 DEF PrintNothing, Printing
  <2>14. CASE TuneAllFields
    BY <2>14 DEF TuneAllFields
  <2> QED
    BY <1>3, <2>1, <2>2, <2>3, <2>4, <2>5, <2>6, <2>7,
       <2>8, <2>9, <2>10, <2>11, <2>12, <2>13, <2>14 DEF Profile
<1>4. CASE Sample
  BY <1>4 DEF Sample
<1>5. CASE MarkerWritten
  BY <1>5 DEF MarkerWritten
<1>6. CASE Agent_OnUnload
  BY <1>6 DEF Agent_OnUnload
<1>7. CASE VMExit
  BY <1>7 DEF VMExit
<1>8. CASE Stopped \/ UNCHANGED vars
  BY <1>8 DEF Stopped
<1>9. CASE LoadReturns
  BY <1>9 DEF LoadReturns
<1> QED
  BY <1>1, <1>2, <1>3, <1>4, <1>5, <1>6, <1>7, <1>8, <1>9 DEF Next

\* What runs while the streams are open is clean.
LEMMA CleanStep == IInv /\ [Next]_vars => AttachedMethodThreadIsClean'
<1> SUFFICES ASSUME IInv, [Next]_vars PROVE AttachedMethodThreadIsClean'
  OBVIOUS
<1> USE DEF IInv, TypeOK, Unloaded, StreamsOpen, AttachedMethodThreadIsClean, Out, Write, Close, Alive, vars, loadVars, bpfVars
<1>1. ASSUME NEW o \in Options, Agent_OnLoad(o) PROVE AttachedMethodThreadIsClean'
  BY <1>1 DEF Agent_OnLoad, Load
<1>2. ASSUME NEW o \in Options, Agent_OnAttach(o) PROVE AttachedMethodThreadIsClean'
  BY <1>2 DEF Agent_OnAttach, Load
<1>3. CASE Profile
  <2>1. CASE StartProfile
    BY <2>1 DEF StartProfile
  <2>2. CASE Poll
    BY <2>2 DEF Poll
  <2>3. CASE WaitUntil
    BY <2>3 DEF WaitUntil
  <2>4. CASE StartBPF
    BY <2>4 DEF StartBPF
  <2>5. CASE StopBPF
    BY <2>5 DEF StopBPF
  <2>6. CASE StopAlloc
    BY <2>6 DEF StopAlloc
  <2>7. CASE EndProfile
    BY <2>7 DEF EndProfile
  <2>8. CASE NoTable
    BY <2>8 DEF NoTable, Printing
  <2>9. CASE PrintFlame
    BY <2>9 DEF PrintFlame, Printing, Reported
  <2>10. CASE PrintThread
    BY <2>10 DEF PrintThread, Printing, Reported
  <2>11. CASE PrintTopMethods
    BY <2>11 DEF PrintTopMethods, Printing, Reported
  <2>12. CASE PrintAlloc
    BY <2>12 DEF PrintAlloc, Printing
  <2>13. CASE PrintNothing
    BY <2>13 DEF PrintNothing, Printing
  <2>14. CASE TuneAllFields
    BY <2>14 DEF TuneAllFields
  <2> QED
    BY <1>3, <2>1, <2>2, <2>3, <2>4, <2>5, <2>6, <2>7,
       <2>8, <2>9, <2>10, <2>11, <2>12, <2>13, <2>14 DEF Profile
<1>4. CASE Sample
  BY <1>4 DEF Sample
<1>5. CASE MarkerWritten
  BY <1>5 DEF MarkerWritten
<1>6. CASE Agent_OnUnload
  BY <1>6 DEF Agent_OnUnload
<1>7. CASE VMExit
  BY <1>7 DEF VMExit
<1>8. CASE Stopped \/ UNCHANGED vars
  BY <1>8 DEF Stopped
<1>9. CASE LoadReturns
  BY <1>9 DEF LoadReturns
<1> QED
  BY <1>1, <1>2, <1>3, <1>4, <1>5, <1>6, <1>7, <1>8, <1>9 DEF Next

-----------------------------------------------------------------------------
\* The safety of a session

\* The invariant holds in every reachable state.
THEOREM Invariance == Spec => []IInv
<1>1. IInv /\ [Next]_vars => IInv'
  <2> SUFFICES ASSUME IInv, [Next]_vars PROVE IInv'
    OBVIOUS
  <2>1. TypeOK'
    BY TypeStep DEF IInv
  <2> QED
    BY <2>1, BeginningStep, UnloadedStep, SamplingStep, MethodWindowStep, FreshStep,
       OtherWindowStep, AccumulateStep, WaitingStep, StreamsStep, CleanStep DEF IInv
<1> QED
  BY IInvInit, <1>1, PTL DEF Spec

\* The event is attached only while profile() sleeps in a window, so a round
\* never finds it still attached: StopBPF detaches it in every round, and
\* nothing but StartBPF attaches it.
THEOREM SamplingSafe == Spec => []SamplingOnlyInWindow
<1>1. IInv => SamplingOnlyInWindow
  BY DEF IInv
<1> QED
  BY Invariance, <1>1, PTL

\* With start_until no window opens, no eBPF sample is taken and nothing is reported
\* before wait_until has found the text, in a session of any kind.
THEOREM MarkerSafe == Spec => []RoundsWaitForMarker
<1>1. IInv => RoundsWaitForMarker
  BY DEF IInv, TypeOK, Beginning, Waiting, RoundsWaitForMarker, Rounds
<1> QED
  BY Invariance, <1>1, PTL

\* The report of a round in method mode counts its own window, all of it and
\* nothing else: PrintTopMethods runs when the event is detached and clears the
\* table before StartBPF attaches it again.
THEOREM ReportsFresh == Spec => []MethodReportsAreFresh
<1>1. IInv => MethodReportsAreFresh
  BY DEF IInv
<1> QED
  BY Invariance, <1>1, PTL

\* A thread or flame report counts its own window on top of the report before
\* it, which was made: no sample of a window is lost or counted twice, however
\* many rounds run.
THEOREM ReportsAccumulate == Spec => []OtherReportsAccumulate
<1>1. IInv => OtherReportsAccumulate
  BY DEF IInv
<1> QED
  BY Invariance, <1>1, PTL

\* In an attached method session the thread of profile() and Agent_OnUnload use no
\* closed stream and no foreign JNIEnv: profile() runs on the attach listener,
\* PrintTopMethods leaves the log open, and Agent_OnUnload comes after its end.
THEOREM AttachedClean == Spec => []AttachedMethodThreadIsClean
<1>1. IInv => AttachedMethodThreadIsClean
  BY DEF IInv
<1> QED
  BY Invariance, <1>1, PTL

-----------------------------------------------------------------------------
\* The streams while the JVM runs

\* While the JVM runs the perf map is open, and so is stdout unless it is the log,
\* which is closed only by the report of an allocation session, after which nothing
\* runs, or of a flame or thread session, which reaches its next window with the log
\* closed.
LogOpen ==
    vm = "live" /\ jvmti =>
        /\ "perf" \in open
        /\ opts.id # 0 /\ pc \in {"sampling", "print"} => round >= 1
        /\ Out = "log" => "stdout" \in open
        /\ Out \notin open => \/ opts.id = 0 /\ pc = "done"
                             \/ /\ opts.id \in {1, 2} /\ round >= 1
                                /\ pc \in {"tune", "round", "sampling", "print", "done"}
                                /\ pc \in {"sampling", "print"} => round >= 2

LInv == LogOpen /\ LiveUseOfClosedStream

\* A window opened after a report is at least the second one.
LEMMA LogStep == IInv /\ LInv /\ [Next]_vars => LogOpen'
<1> SUFFICES ASSUME IInv, LInv, [Next]_vars PROVE LogOpen'
  OBVIOUS
<1> USE DEF IInv, TypeOK, Unloaded, LInv, LogOpen, LiveUseOfClosedStream, Out, vars, loadVars, bpfVars
<1>1. ASSUME NEW o \in Options, Agent_OnLoad(o) PROVE LogOpen'
  BY <1>1 DEF Agent_OnLoad, Load
<1>2. ASSUME NEW o \in Options, Agent_OnAttach(o) PROVE LogOpen'
  BY <1>2 DEF Agent_OnAttach, Load
<1>3. CASE Profile
  <2>1. CASE StartProfile
    BY <2>1 DEF StartProfile
  <2>2. CASE Poll
    BY <2>2 DEF Poll
  <2>3. CASE WaitUntil
    BY <2>3 DEF WaitUntil
  <2>4. CASE StartBPF
    BY <2>4 DEF StartBPF
  <2>5. CASE StopBPF
    BY <2>5 DEF StopBPF
  <2>6. CASE StopAlloc
    BY <2>6 DEF StopAlloc
  <2>7. CASE EndProfile
    BY <2>7 DEF EndProfile
  <2>8. CASE NoTable
    BY <2>8 DEF NoTable, Printing
  <2>9. CASE PrintFlame
    BY <2>9 DEF PrintFlame, Printing, Reported
  <2>10. CASE PrintThread
    BY <2>10 DEF PrintThread, Printing, Reported
  <2>11. CASE PrintTopMethods
    BY <2>11 DEF PrintTopMethods, Printing, Reported
  <2>12. CASE PrintAlloc
    BY <2>12 DEF PrintAlloc, Printing
  <2>13. CASE PrintNothing
    BY <2>13 DEF PrintNothing, Printing
  <2>14. CASE TuneAllFields
    BY <2>14 DEF TuneAllFields
  <2> QED
    BY <1>3, <2>1, <2>2, <2>3, <2>4, <2>5, <2>6, <2>7,
       <2>8, <2>9, <2>10, <2>11, <2>12, <2>13, <2>14 DEF Profile
<1>4. CASE Sample
  BY <1>4 DEF Sample
<1>5. CASE MarkerWritten
  BY <1>5 DEF MarkerWritten
<1>6. CASE Agent_OnUnload
  BY <1>6 DEF Agent_OnUnload
<1>7. CASE VMExit
  BY <1>7 DEF VMExit
<1>8. CASE Stopped \/ UNCHANGED vars
  BY <1>8 DEF Stopped
<1>9. CASE LoadReturns
  BY <1>9 DEF LoadReturns
<1> QED
  BY <1>1, <1>2, <1>3, <1>4, <1>5, <1>6, <1>7, <1>8, <1>9 DEF Next

\* What finds a stream closed is a later window, a rule after the report, or the end
\* of Agent_OnLoad.
LEMMA LiveUseStep == IInv /\ LInv /\ [Next]_vars => LiveUseOfClosedStream'
<1> SUFFICES ASSUME IInv, LInv, [Next]_vars PROVE LiveUseOfClosedStream'
  OBVIOUS
<1> USE DEF IInv, TypeOK, Unloaded, LInv, LogOpen, LiveUseOfClosedStream, Out, Write, Close, Alive, vars, loadVars, bpfVars
<1>1. ASSUME NEW o \in Options, Agent_OnLoad(o) PROVE LiveUseOfClosedStream'
  BY <1>1 DEF Agent_OnLoad, Load
<1>2. ASSUME NEW o \in Options, Agent_OnAttach(o) PROVE LiveUseOfClosedStream'
  BY <1>2 DEF Agent_OnAttach, Load
<1>3. CASE Profile
  <2>1. CASE StartProfile
    BY <2>1 DEF StartProfile
  <2>2. CASE Poll
    BY <2>2 DEF Poll
  <2>3. CASE WaitUntil
    BY <2>3 DEF WaitUntil
  <2>4. CASE StartBPF
    BY <2>4 DEF StartBPF
  <2>5. CASE StopBPF
    BY <2>5 DEF StopBPF
  <2>6. CASE StopAlloc
    BY <2>6 DEF StopAlloc
  <2>7. CASE EndProfile
    BY <2>7 DEF EndProfile
  <2>8. CASE NoTable
    BY <2>8 DEF NoTable, Printing
  <2>9. CASE PrintFlame
    BY <2>9 DEF PrintFlame, Printing, Reported
  <2>10. CASE PrintThread
    BY <2>10 DEF PrintThread, Printing, Reported
  <2>11. CASE PrintTopMethods
    BY <2>11 DEF PrintTopMethods, Printing, Reported
  <2>12. CASE PrintAlloc
    BY <2>12 DEF PrintAlloc, Printing
  <2>13. CASE PrintNothing
    BY <2>13 DEF PrintNothing, Printing
  <2>14. CASE TuneAllFields
    <3>1. /\ opts' = opts /\ loading' = loading /\ vm' = vm /\ round' = round
          /\ open' = open /\ pc = "tune"
      BY <2>14 DEF TuneAllFields
    <3>2. PICK fires \in BOOLEAN, logs \in BOOLEAN :
             /\ fires => opts.rule # "none" /\ opts.id \in {2, 4} /\ reports[round] > 0
             /\ logs => fires /\ opts.rule = "field"
             /\ faults' = faults \cup (IF opts.rule # "none" THEN Write("stdout") ELSE {})
                                 \cup (IF fires /\ ~ATTACH THEN {"jni"} ELSE {})
                                 \cup (IF logs THEN Write(Out) ELSE {})
      BY <2>14 DEF TuneAllFields
    <3>3. "close" \in faults' => "close" \in faults
      BY <3>2
    <3>4. "write" \in faults' => \/ "write" \in faults
                                 \/ opts.rule # "none" /\ "stdout" \notin open
                                 \/ logs /\ Out \notin open
      BY <3>2
    <3>5. vm = "live" /\ Out \notin open => opts.id \in {1, 2} /\ round >= 1
      BY <3>1
    <3>6. vm = "live" /\ "stdout" \notin open => ~opts.log /\ opts.id = 2
      BY <3>1, <3>5 DEF Options
    <3>7. logs => opts.rule = "field" /\ opts.id \in {2, 4}
      BY <3>2
    <3> QED
      BY <3>1, <3>3, <3>4, <3>5, <3>6, <3>7
  <2> QED
    BY <1>3, <2>1, <2>2, <2>3, <2>4, <2>5, <2>6, <2>7,
       <2>8, <2>9, <2>10, <2>11, <2>12, <2>13, <2>14 DEF Profile
<1>4. CASE Sample
  BY <1>4 DEF Sample
<1>5. CASE MarkerWritten
  BY <1>5 DEF MarkerWritten
<1>6. CASE Agent_OnUnload
  BY <1>6 DEF Agent_OnUnload
<1>7. CASE VMExit
  BY <1>7 DEF VMExit
<1>8. CASE Stopped \/ UNCHANGED vars
  BY <1>8 DEF Stopped
<1>9. CASE LoadReturns
  <2>1. /\ opts' = opts /\ ~loading' /\ round' = round /\ vm' = vm
        /\ faults' = faults \cup (IF "stdout" \in open THEN {} ELSE {"write"})
    BY <1>9 DEF LoadReturns
  <2>2. vm = "live" /\ "stdout" \notin open => ~opts.log /\ opts.id \in {0, 2}
    BY DEF Options
  <2> QED
    BY <2>1, <2>2
<1> QED
  BY <1>1, <1>2, <1>3, <1>4, <1>5, <1>6, <1>7, <1>8, <1>9 DEF Next

\* While the JVM runs, a closed stream is used only by the sessions named: in a
\* second round, by a field rule after the report, and through cout once a report
\* has closed stdout.
THEOREM LiveUse == Spec => []LiveUseOfClosedStream
<1>1. Init => LInv
  BY DEF Init, LInv, LogOpen, LiveUseOfClosedStream
<1>2. IInv /\ LInv /\ [Next]_vars => LInv'
  BY LogStep, LiveUseStep DEF LInv
<1>3. LInv => LiveUseOfClosedStream
  BY DEF LInv
<1> QED
  BY <1>1, <1>2, <1>3, Invariance, PTL DEF Spec

\* The agent is loaded once: the second Agent_OnAttach changes nothing.
THEOREM LoadedOnce == Spec => OneSession
<1> DEFINE A == pc # "none" => opts' = opts /\ (pc' = "sleep" => pc = "sleep")
<1>1. IInv /\ [Next]_vars => [A]_vars
  <2> SUFFICES ASSUME IInv, Next, pc # "none" PROVE A \/ UNCHANGED vars
    OBVIOUS
  <2>1. jvmti
    BY DEF IInv, TypeOK, Unloaded
  <2>2. ASSUME NEW o \in Options, Agent_OnLoad(o) \/ Agent_OnAttach(o)
        PROVE  A \/ UNCHANGED vars
    BY <2>1, <2>2 DEF Agent_OnLoad, Agent_OnAttach
  <2>3. CASE Profile
    BY <2>3 DEF Profile, loadVars, StartProfile, Poll, WaitUntil, StartBPF, StopBPF,
       StopAlloc, EndProfile, NoTable, PrintFlame, PrintThread, PrintTopMethods,
       PrintAlloc, PrintNothing, TuneAllFields, Reported
  <2>4. CASE LoadReturns \/ Sample \/ MarkerWritten \/ Agent_OnUnload \/ VMExit \/ Stopped
    BY <2>4 DEF loadVars, vars, LoadReturns, Sample, MarkerWritten, Agent_OnUnload, VMExit, Stopped
  <2> QED
    BY <2>2, <2>3, <2>4 DEF Next
<1> QED
  BY Invariance, <1>1, PTL DEF Spec, OneSession

-----------------------------------------------------------------------------
\* The refinement

\* Every step of a session is a step of Windows or leaves its variables alone.
LEMMA RefinementStep ==
    ASSUME IInv, [Next]_vars
    PROVE  [W!Next]_(W!vars)
<1> USE DEF IInv, TypeOK, W!vars, vars, loadVars, bpfVars, Method
<1>1. ASSUME NEW o \in Options, Agent_OnLoad(o) \/ Agent_OnAttach(o)
      PROVE  UNCHANGED W!vars
  <2>1. CASE UNCHANGED vars
    BY <2>1
  <2>2. CASE Load(o) /\ ~jvmti
    <3>1. round = 0 /\ round' = 0 /\ pc # "sampling" /\ pc' # "sampling"
          /\ opts.id # 4 /\ taken' = taken /\ reports' = reports
      BY <1>1, <2>2 DEF Agent_OnLoad, Agent_OnAttach, Load, Unloaded, Beginning, NoOptions
    <3>2. \A r \in Rounds : taken[r] = 0 /\ reports[r] = NoReport
      BY <3>1 DEF Beginning, Rounds
    <3> QED
      BY <3>1, <3>2
  <2> QED
    BY <1>1, <2>1, <2>2 DEF Agent_OnLoad, Agent_OnAttach
<1>2. CASE opts.id # 4 /\ opts' = opts
  BY <1>2
<1>3. CASE opts.id = 4 /\ opts' = opts
  <2> USE <1>3
  <2>0. /\ [r \in Rounds |-> IF Method THEN taken[r] ELSE 0] = taken
        /\ [r \in Rounds |-> IF Method THEN reports[r] ELSE NoReport] = reports
        /\ [r \in Rounds |-> IF Method' THEN taken'[r] ELSE 0] = [r \in Rounds |-> taken'[r]]
        /\ [r \in Rounds |-> IF Method' THEN reports'[r] ELSE NoReport]
              = [r \in Rounds |-> reports'[r]]
    OBVIOUS
  <2>t. TypeOK'
    BY TypeStep
  <2>q. /\ [r \in Rounds |-> taken'[r]] = taken'
        /\ [r \in Rounds |-> reports'[r]] = reports'
    BY <2>t
  <2>2. CASE StartBPF
    <3>2. round < MaxRounds
      BY <2>2, OptionTypes, BoundsAssumption DEF StartBPF
    <3>3. round > 0 => reports[round] # NoReport
      BY <2>2 DEF StartBPF, MethodWindow
    <3>4. W!Open
      BY <2>0, <2>q, <2>2, <3>2, <3>3 DEF StartBPF, W!Open
    <3> QED
      BY <3>4 DEF W!Next
  <2>3. CASE Sample
    <3>1. W!Sample
      BY <2>0, <2>q, <2>3 DEF Sample, SamplingOnlyInWindow, W!Sample
    <3> QED
      BY <3>1 DEF W!Next
  <2>4. CASE StopBPF
    <3>1. W!Close
      BY <2>0, <2>q, <2>4 DEF StopBPF, W!Close
    <3> QED
      BY <3>1 DEF W!Next
  <2>5. CASE PrintTopMethods
    <3>1. pc = "print" /\ pc' = "tune"
      BY <2>5 DEF PrintTopMethods, Printing, Reported
    <3>2. round > 0 /\ reports[round] = NoReport /\ counts = taken[round]
      BY <3>1 DEF MethodWindow
    <3>3. W!Report
      BY <2>0, <2>q, <2>5, <3>1, <3>2 DEF PrintTopMethods, Reported, W!Report
    <3> QED
      BY <3>3 DEF W!Next
  <2>6. CASE StartProfile \/ Poll \/ WaitUntil \/ StopAlloc \/ EndProfile \/ NoTable \/ TuneAllFields
    BY <2>6 DEF StartProfile, Poll, WaitUntil, StopAlloc, EndProfile, NoTable, Printing, TuneAllFields
  <2>7. CASE PrintFlame \/ PrintThread \/ PrintAlloc \/ PrintNothing
    BY <2>7 DEF PrintFlame, PrintThread, PrintAlloc, PrintNothing, Printing
  <2>8. CASE LoadReturns \/ MarkerWritten \/ Agent_OnUnload \/ VMExit \/ Stopped
               \/ UNCHANGED vars
    BY <2>8 DEF LoadReturns, MarkerWritten, Agent_OnUnload, VMExit, Stopped
  <2> QED
    BY <1>1, <2>2, <2>3, <2>4, <2>5, <2>6, <2>7, <2>8 DEF Next, Profile
<1>4. (\E o \in Options : Agent_OnLoad(o) \/ Agent_OnAttach(o)) \/ opts' = opts
  BY DEF Next, Profile, LoadReturns, Sample, MarkerWritten, Agent_OnUnload, VMExit, Stopped,
     StartProfile, Poll, WaitUntil, StartBPF, StopBPF, StopAlloc, EndProfile, NoTable,
     PrintFlame, PrintThread, PrintTopMethods, PrintAlloc, PrintNothing, TuneAllFields
<1> QED
  BY <1>1, <1>2, <1>3, <1>4

\* A session implements Windows: in method mode its windows open one after the
\* other, each is reported once after it is closed, and with its own samples.
THEOREM Refinement == Spec => ImplementsWindows
<1>1. Init => W!Init
  BY DEF Init, W!Init, Rounds, W!Rounds, Method, NoOptions
<1>2. IInv /\ [Next]_vars => [W!Next]_(W!vars)
  BY RefinementStep
<1> QED
  BY Invariance, <1>1, <1>2, PTL DEF Spec, ImplementsWindows, W!Spec

-----------------------------------------------------------------------------
\* The agent, for option strings of any length: what a string leaves behind is
\* what a session starts with, so the agent implements Session.

\* What the last sampling option of the pairs so far has set up.
SetUp ==
    /\ asked.id = 0 => "alloc" \in callbacks \cap events /\ heap # "unset"
    /\ asked.id \in {1, 4} => "compiled" \in callbacks \cap events

\* No string is taken once there is a session, and the session has what the
\* string has asked for.
AInv ==
    /\ asked \in Options
    /\ vm = "live" => SetUp
    /\ string # "none" => ~jvmti
    /\ jvmti => opts = asked

-----------------------------------------------------------------------------
\* It holds at the start.
LEMMA AInvInit == AgentInit => AInv
<1> SUFFICES ASSUME AgentInit PROVE AInv
  OBVIOUS
<1>1. asked = [id |-> -1, n |-> 1, until |-> FALSE, log |-> FALSE, rule |-> "none"]
  BY DEF AgentInit, Opt!Init
<1>2. 1 \in 0..MaxRounds
  BY BoundsAssumption
<1>3. asked \in Options
  BY <1>1, <1>2 DEF Options, Ids
<1> QED
  BY <1>1, <1>3 DEF AgentInit, Init, AInv, SetUp

\* A pair leaves options of the type, and the callbacks and events of the last
\* sampling option.
LEMMA PairStep ==
    ASSUME AInv, Opt!Next
    PROVE  asked' \in Options /\ (SetUp => SetUp')
<1> USE DEF AInv, Options, Ids, SetUp, Opt!jvmtiVars
<1>0. asked \in [id : Ids, n : 0..MaxRounds, until : BOOLEAN, log : BOOLEAN,
                 rule : {"none", "field", "method"}]
  OBVIOUS
<1>1. CASE Opt!log_file
  BY <1>0, <1>1 DEF Opt!log_file
<1>2. CASE Opt!flame
  <2>1. asked' = [asked EXCEPT !.id = 1, !.log = TRUE]
    BY <1>2 DEF Opt!flame
  <2>2. asked' \in [id : Ids, n : 0..MaxRounds, until : BOOLEAN, log : BOOLEAN,
                    rule : {"none", "field", "method"}]
    BY <1>0, <2>1
  <2>3. asked'.id = 1 /\ asked'.log = TRUE
    BY <1>0, <2>1
  <2>4. "compiled" \in callbacks' \cap events'
    BY <1>2 DEF Opt!flame, Opt!setup_jvmti
  <2> QED
    BY <2>2, <2>3, <2>4
<1>3. CASE Opt!sample_thread
  BY <1>0, <1>3 DEF Opt!sample_thread
<1>4. CASE Opt!sample_top
  BY <1>0, <1>4 DEF Opt!sample_top, Opt!setup_jvmti
<1>5. CASE Opt!sample_alloc
  BY <1>0, <1>5 DEF Opt!sample_alloc, Opt!setup_jvmti, Opt!AllocEvents
<1>6. CASE Opt!sample_alloc_interval
  BY <1>0, <1>6 DEF Opt!sample_alloc_interval
<1>7. CASE Opt!config_rules
  BY <1>0, <1>7 DEF Opt!config_rules
<1>8. CASE Opt!action_n
  BY <1>0, <1>8 DEF Opt!action_n
<1>9. CASE Opt!start_until
  BY <1>0, <1>9 DEF Opt!start_until
<1> QED
  BY <1>1, <1>2, <1>3, <1>4, <1>5, <1>6, <1>7, <1>8, <1>9 DEF Opt!Next

\* A step of the running session leaves the options and the JVM's end alone, or
\* ends the JVM.
LEMMA ProfileStep ==
    Profile => opts' = opts /\ jvmti' = jvmti /\ (vm' = "live" => vm = "live")
  BY DEF Profile, StartProfile, Poll, WaitUntil, StartBPF, StopBPF, StopAlloc, EndProfile,
         NoTable, PrintFlame, PrintThread, PrintTopMethods, PrintAlloc, PrintNothing,
         Printing, Reported, TuneAllFields, loadVars, bpfVars

\* Every step of the agent keeps the invariant.
LEMMA AInvStep == AInv /\ [AgentNext]_agentVars => AInv'
<1> SUFFICES ASSUME AInv, [AgentNext]_agentVars PROVE AInv'
  OBVIOUS
<1>k. ASSUME asked' = asked, callbacks' = callbacks, events' = events, heap' = heap,
             vm' = "live" => vm = "live"
      PROVE  asked' \in Options /\ (vm' = "live" => SetUp')
  BY <1>k DEF AInv, SetUp
<1>1. CASE TakeString
  BY <1>1, <1>k DEF TakeString, vars, loadVars, optionVars, jvmtiVars, AInv
<1>2. CASE TakePair
  BY <1>2, PairStep DEF TakePair, vars, loadVars, AInv
<1>3. CASE EndString
  <2>1. CASE string = "command" /\ Agent_OnLoad(asked)
    BY <1>3, <2>1, <1>k DEF EndString, Agent_OnLoad, Load, optionVars, jvmtiVars, AInv
  <2>2. CASE string = "attach" /\ ~jvmti /\ Agent_OnAttach(asked)
    BY <1>3, <2>2, <1>k DEF EndString, Agent_OnAttach, Load, optionVars, jvmtiVars, AInv
  <2> QED
    BY <1>3, <2>1, <2>2 DEF EndString
<1>4. CASE AttachAgain
  BY <1>4, <1>k DEF AttachAgain, Agent_OnAttach, vars, loadVars, optionVars, jvmtiVars, AInv
<1>5. CASE RunProfile
  BY <1>5, <1>k, ProfileStep DEF RunProfile, optionVars, jvmtiVars, AInv
<1>6. CASE Unload
  BY <1>6 DEF Unload, Agent_OnUnload, loadVars, AInv
<1>7. CASE Outside
  BY <1>7, <1>k DEF Outside, LoadReturns, Sample, MarkerWritten, VMExit, Stopped, Alive, vars, loadVars, optionVars,
                    jvmtiVars, AInv
<1>8. CASE UNCHANGED agentVars
  BY <1>8, <1>k DEF agentVars, vars, loadVars, optionVars, jvmtiVars, AInv
<1> QED
  BY <1>1, <1>2, <1>3, <1>4, <1>5, <1>6, <1>7, <1>8 DEF AgentNext

-----------------------------------------------------------------------------
\* Every session has the callbacks it needs and their events enabled, whatever
\* pairs its option string has, in whatever order and number.
THEOREM EventsThere == AgentSpec => []SessionHasItsEvents
<1>1. AInv => SessionHasItsEvents
  BY DEF AInv, SetUp, SessionHasItsEvents
<1> QED
  BY <1>1, AInvInit, AInvStep, PTL DEF AgentSpec

\* A step of the agent is a step of its session, or leaves the session alone.
LEMMA SessionStep == AInv /\ [AgentNext]_agentVars => [Next]_vars
<1> SUFFICES ASSUME AInv, [AgentNext]_agentVars PROVE [Next]_vars
  OBVIOUS
<1>1. CASE TakeString \/ TakePair \/ UNCHANGED agentVars
  BY <1>1 DEF TakeString, TakePair, agentVars
<1>2. CASE EndString
  <2>1. asked \in Options
    BY DEF AInv
  <2> QED
    BY <1>2, <2>1 DEF EndString, Next
<1>3. CASE AttachAgain
  BY <1>3 DEF AttachAgain, Agent_OnAttach
<1>4. CASE RunProfile
  BY <1>4 DEF RunProfile, Next
<1>5. CASE Unload
  BY <1>5 DEF Unload, Next
<1>6. CASE Outside
  BY <1>6 DEF Outside, Next
<1> QED
  BY <1>1, <1>2, <1>3, <1>4, <1>5, <1>6 DEF AgentNext

\* The agent implements Session: every option string leaves options that Session
\* starts with, a second request changes nothing, and JVMTI is beside the rest.
THEOREM AgentRefinement == AgentSpec => ImplementsSession
<1>1. AgentInit => Init
  BY DEF AgentInit
<1> QED
  BY <1>1, AInvInit, AInvStep, SessionStep, PTL DEF AgentSpec, ImplementsSession, Spec
=============================================================================
