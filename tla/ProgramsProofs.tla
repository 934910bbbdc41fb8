--------------------------- MODULE ProgramsProofs ---------------------------
(***************************************************************************)
(* Proofs about the two programs beside the agent.  Module AttachClient,   *)
(* for any number of clients and polls: success means the session of the   *)
(* agent is over, no client takes away a trigger file the JVM still has to *)
(* find, and none is left in /tmp.  Module Freq, for every machine: the    *)
(* CPUs are shown on their nodes, and the array is overrun unless the      *)
(* nodes have equal shares of the first CPUs.                              *)
(***************************************************************************)
EXTENDS AttachClient, Freq, FiniteSetTheorems, TLAPS

-----------------------------------------------------------------------------
\* The attach client

\* Who is still to poll has polls left.
TriesLeft ==
    \A c \in Clients : pc[c] \in {"start", "cwd", "tmp", "kill", "poll"} => retry[c] < MaxTries

\* With the file in /tmp there is a client that will remove it.
Owner ==
    "tmp" \in triggers =>
        \E c \in Clients : pc[c] \in {"kill", "poll", "found", "timeout"}

\* What the clients and the JVM know of the socket while the JVM runs: a stale
\* one keeps everybody from waking the listener.
SocketState ==
    jvm = "up" =>
        /\ socket = "stale" => /\ listener = "off" /\ signals = {}
                               /\ \A c \in Clients : pc[c] \in {"start", "connect", "done"}
        /\ listener # "on" => socket # "live" /\ \A c \in Clients : pc[c] # "found"
        /\ listener = "on" => socket = "live"

\* Until the listener starts or somebody gives up, the trigger file is there for
\* every signal, sent or about to be sent.
TriggerThere ==
    jvm = "up" /\ listener = "off" /\ gaveUp = {} =>
        /\ \A c \in Clients : pc[c] \in {"kill", "poll", "timeout"} => "tmp" \in triggers
        /\ signals # {} => "tmp" \in triggers

\* A client signals once, after it has created the trigger files.
SignalOnce ==
    /\ signals \subseteq signalled
    /\ \A c \in Clients : pc[c] \in {"start", "cwd", "tmp", "kill"} => c \notin signalled

\* The listener was there from the start, and then nobody signals, or the handled
\* SIGQUIT of some client has woken it.
WokenBySignal ==
    jvm = "up" /\ listener # "off" =>
        \/ signalled \ signals # {}
        \/ /\ listener = "on" /\ signals = {}
           /\ \A c \in Clients : pc[c] \in {"start", "connect", "read", "done"}

\* The connection whose command runs the session is the first of the queue, and
\* no answer is 0 before a session is over.
SessionHeld ==
    /\ jvm = "up" /\ session = "running" => queue # <<>>
    /\ \A c \in Clients : answer[c] = "zero" => session \in {"over", "loaded"}

\* What a step of a client, and one of the JVM, keeps beside the types.
Promises ==
    /\ TriesLeft /\ Owner /\ SocketState /\ TriggerThere
    /\ SignalOnce /\ WokenBySignal /\ SessionHeld
    /\ SuccessMeansSessionOver /\ DumpOnlyAfterTimeoutOrRace

CInv == TypeOK /\ Promises

-----------------------------------------------------------------------------
\* It holds at the start.
LEMMA CInvInit == Init => CInv
<1> SUFFICES ASSUME Init PROVE CInv
  OBVIOUS
<1> USE DEF Init
<1>1. TypeOK
  <2>1. 0 \in 0..MaxTries
    BY TriesAssumption
  <2>2. queue \in Seq(Clients)
    OBVIOUS
  <2>3. retry \in [Clients -> 0..MaxTries]
    BY <2>1
  <2> QED
    BY <2>2, <2>3 DEF TypeOK
<1>2. TriesLeft
  BY TriesAssumption DEF TriesLeft
<1>3. Owner /\ SocketState /\ TriggerThere
  BY DEF Owner, SocketState, TriggerThere
<1>4. SignalOnce /\ WokenBySignal /\ SessionHeld
  BY DEF SignalOnce, WokenBySignal, SessionHeld
<1>5. SuccessMeansSessionOver /\ DumpOnlyAfterTimeoutOrRace
  BY DEF SuccessMeansSessionOver, DumpOnlyAfterTimeoutOrRace
<1> QED
  BY <1>1, <1>2, <1>3, <1>4, <1>5 DEF CInv, Promises

\* The listener's queue takes clients.
LEMMA QueueType ==
    ASSUME NEW q \in Seq(Clients), NEW c \in Clients
    PROVE  Append(q, c) \in Seq(Clients) /\ Append(q, c) # <<>>
<1>1. Append(q, c) \in Seq(Clients)
  OBVIOUS
<1>2. Len(Append(q, c)) = Len(q) + 1 /\ Len(q) \in Nat
  OBVIOUS
<1>3. Append(q, c) # <<>>
  <2> DEFINE r == Append(q, c)
  <2>1. Len(r) # 0
    BY <1>2
  <2> HIDE DEF r
  <2>2. r # <<>>
    BY <2>1
  <2> QED
    BY <2>2 DEF r
<1> QED
  BY <1>1, <1>3

\* The steps of a client keep the types.
LEMMA ClientTypes ==
    ASSUME TypeOK, TriesLeft, NEW c \in Clients, Client(c)
    PROVE  TypeOK'
<1> USE DEF TypeOK, Goto, Exit, fileVars, jvmVars, signalVars
<1>1. CASE Start(c)
  BY <1>1 DEF Start
<1>2. CASE CreateCwd(c) \/ CreateTmp(c) \/ CannotCreate(c)
  BY <1>2 DEF CreateCwd, CreateTmp, CannotCreate
<1>3. CASE Kill(c)
  BY <1>3 DEF Kill
<1>4. CASE Poll(c)
  <2>1. pc[c] = "poll" /\ retry[c] \in 0..MaxTries /\ retry[c] < MaxTries
    BY <1>4 DEF Poll, TriesLeft
  <2>2. retry[c] + 1 \in 0..MaxTries
    BY <2>1, TriesAssumption
  <2> QED
    BY <1>4, <2>2 DEF Poll
<1>5. CASE Unlink(c)
  BY <1>5 DEF Unlink
<1>6. CASE Connect(c)
  <2>0. queue' = queue \/ queue' = Append(queue, c)
    BY <1>6 DEF Connect
  <2>1. queue' \in Seq(Clients)
    BY <2>0, QueueType
  <2> QED
    BY <1>6, <2>1 DEF Connect
<1>7. CASE ReadResponse(c)
  BY <1>7 DEF ReadResponse
<1> QED
  BY <1>1, <1>2, <1>3, <1>4, <1>5, <1>6, <1>7 DEF Client

\* The steps of the JVM.
JvmSteps ==
    \/ \E c \in Clients : HandleSignal(c)
    \/ ListenerUp \/ Refuse \/ BeginSession \/ EndSession \/ LoadedAlready \/ JvmExit

\* An answer keeps the types: it goes to the first of the queue.
LEMMA AnswerTypes ==
    ASSUME TypeOK, queue # <<>>, NEW n \in {"zero", "error"}, Answer(n)
    PROVE  queue' \in Seq(Clients) /\ answer' \in [Clients -> {"none", "zero", "error"}]
<1>1. Head(queue) \in Clients /\ Tail(queue) \in Seq(Clients)
  BY DEF TypeOK
<1> QED
  BY <1>1 DEF Answer, TypeOK

\* The steps of the JVM keep the types.
LEMMA JvmTypes ==
    ASSUME TypeOK, SessionHeld, JvmSteps
    PROVE  TypeOK'
<1> USE DEF TypeOK, fileVars, signalVars
<1>1. ASSUME NEW c \in Clients, HandleSignal(c) PROVE TypeOK'
  <2>1. listener' \in {"off", "starting", "on"} /\ dumped' \subseteq Clients
    BY <1>1 DEF HandleSignal
  <2> QED
    BY <1>1, <2>1 DEF HandleSignal
<1>2. CASE ListenerUp
  BY <1>2 DEF ListenerUp
<1>3. ASSUME NEW n \in {"zero", "error"}, Answer(n), queue # <<>>,
             session' \in {"none", "running", "over", "loaded"}
      PROVE TypeOK'
  BY <1>3, AnswerTypes DEF Answer
<1>4. CASE Refuse \/ LoadedAlready
  BY <1>3, <1>4 DEF Refuse, LoadedAlready, ListenerFree
<1>5. CASE EndSession
  BY <1>3, <1>5 DEF EndSession, SessionHeld
<1>6. CASE BeginSession
  BY <1>6 DEF BeginSession
<1>7. CASE JvmExit
  <2>1. queue' \in Seq(Clients)
    BY <1>7 DEF JvmExit
  <2> QED
    BY <1>7, <2>1 DEF JvmExit
<1> QED
  BY <1>1, <1>2, <1>4, <1>5, <1>6, <1>7 DEF JvmSteps

\* The steps of a client keep the rest of the invariant.
LEMMA ClientStep ==
    ASSUME CInv, NEW c \in Clients, Client(c)
    PROVE  Promises'
<1> USE DEF CInv, Promises, TypeOK, TriesLeft, Owner, SocketState, TriggerThere, SignalOnce,
            WokenBySignal, SessionHeld, SuccessMeansSessionOver, DumpOnlyAfterTimeoutOrRace,
            fileVars, jvmVars, signalVars
<1>1. CASE Start(c)
  BY <1>1 DEF Start, Goto, check_socket
<1>2. CASE CreateCwd(c)
  BY <1>2 DEF CreateCwd, Goto
<1>3. CASE CreateTmp(c)
  BY <1>3 DEF CreateTmp, Goto
<1>4. CASE CannotCreate(c)
  BY <1>4 DEF CannotCreate, Exit, Goto
<1>5. CASE Kill(c)
  <2> USE <1>5 DEF Kill, Goto
  <2>1. TriesLeft' /\ Owner' /\ SocketState'
    OBVIOUS
  <2>2. TriggerThere' /\ SignalOnce' /\ SessionHeld'
    OBVIOUS
  <2>3. WokenBySignal'
    OBVIOUS
  <2>4. SuccessMeansSessionOver' /\ DumpOnlyAfterTimeoutOrRace'
    OBVIOUS
  <2> QED
    BY <2>1, <2>2, <2>3, <2>4
<1>6. CASE Poll(c)
  BY <1>6 DEF Poll, Goto, check_socket
<1>7. CASE Unlink(c)
  BY <1>7 DEF Unlink, Exit, Goto
<1>8. CASE Connect(c)
  <2> USE <1>8 DEF Connect, Exit, Goto
  <2>0. queue' # <<>> \/ queue' = queue
    BY QueueType
  <2>1a. TriesLeft' /\ Owner'
    OBVIOUS
  <2>1b. SocketState'
    OBVIOUS
  <2>1c. TriggerThere'
    OBVIOUS
  <2>1. TriesLeft' /\ Owner' /\ SocketState' /\ TriggerThere'
    BY <2>1a, <2>1b, <2>1c
  <2>2. SignalOnce' /\ WokenBySignal'
    OBVIOUS
  <2>3. SessionHeld'
    BY <2>0
  <2>4. SuccessMeansSessionOver' /\ DumpOnlyAfterTimeoutOrRace'
    OBVIOUS
  <2> QED
    BY <2>1, <2>2, <2>3, <2>4
<1>9. CASE ReadResponse(c)
  BY <1>9 DEF ReadResponse, Exit, Goto
<1> QED
  BY <1>1, <1>2, <1>3, <1>4, <1>5, <1>6, <1>7, <1>8, <1>9 DEF Client

\* So do the steps of the JVM.
LEMMA JvmStep ==
    ASSUME CInv, JvmSteps
    PROVE  Promises'
<1> USE DEF CInv, Promises, TypeOK, TriesLeft, Owner, SocketState, TriggerThere, SignalOnce,
            WokenBySignal, SessionHeld, SuccessMeansSessionOver, DumpOnlyAfterTimeoutOrRace,
            fileVars, signalVars
<1>1. ASSUME NEW c \in Clients, HandleSignal(c) PROVE Promises'
  BY <1>1 DEF HandleSignal
<1>2. CASE ListenerUp
  BY <1>2 DEF ListenerUp
<1>3. CASE Refuse
  BY <1>3 DEF Refuse, ListenerFree, Answer
<1>4. CASE BeginSession
  BY <1>4 DEF BeginSession, ListenerFree
<1>5. CASE EndSession
  BY <1>5 DEF EndSession, Answer
<1>6. CASE LoadedAlready
  BY <1>6 DEF LoadedAlready, ListenerFree, Answer
<1>7. CASE JvmExit
  BY <1>7 DEF JvmExit
<1> QED
  BY <1>1, <1>2, <1>3, <1>4, <1>5, <1>6, <1>7 DEF JvmSteps

\* Every step keeps the invariant.
LEMMA CInvStep == CInv /\ [Next]_vars => CInv'
<1> SUFFICES ASSUME CInv, [Next]_vars PROVE CInv'
  OBVIOUS
<1>1. ASSUME NEW c \in Clients, Client(c) PROVE CInv'
  BY <1>1, ClientTypes, ClientStep DEF CInv, Promises
<1>2. CASE JvmSteps
  BY <1>2, JvmTypes, JvmStep DEF CInv, Promises
<1>3. CASE UNCHANGED vars
  BY <1>3 DEF vars, CInv, Promises, TypeOK, TriesLeft, Owner, SocketState, TriggerThere,
              SignalOnce, WokenBySignal, SessionHeld, SuccessMeansSessionOver,
              DumpOnlyAfterTimeoutOrRace
<1> QED
  BY <1>1, <1>2, <1>3 DEF Next, Finished, JvmSteps

LEMMA ClientInvariant == Spec => []CInv
  BY CInvInit, CInvStep, PTL DEF Spec

-----------------------------------------------------------------------------
\* The variables keep their types; no client polls more often than the retries.
THEOREM TypeCorrect == Spec => []TypeOK
<1>1. CInv => TypeOK
  BY DEF CInv
<1> QED
  BY <1>1, ClientInvariant, PTL

\* A client that reports success leaves no session behind: the agent's is over,
\* or the JVM was started with it.
THEOREM SuccessAfterSession == Spec => []SuccessMeansSessionOver
<1>1. CInv => SuccessMeansSessionOver
  BY DEF CInv, Promises
<1> QED
  BY <1>1, ClientInvariant, PTL

\* The JVM prints a thread dump for a client's SIGQUIT only after some client has
\* given up, or when another client has signalled too: until the listener is
\* woken, the file in /tmp is there for every SIGQUIT.
THEOREM DumpAfterTimeout == Spec => []DumpOnlyAfterTimeoutOrRace
<1>1. CInv => DumpOnlyAfterTimeoutOrRace
  BY DEF CInv, Promises
<1> QED
  BY <1>1, ClientInvariant, PTL

\* When all clients have ended, the trigger file in /tmp is gone.
THEOREM TmpClean == Spec => []NoTmpTriggerLeft
<1>1. CInv => NoTmpTriggerLeft
  BY DEF CInv, Promises, Owner, NoTmpTriggerLeft
<1> QED
  BY <1>1, ClientInvariant, PTL

-----------------------------------------------------------------------------
\* The CPU frequency utility

\* The positions of a bitmask: how many of its CPUs are before one of them.
Rank(bm, c) == Cardinality({d \in bm : d < c})

\* The ranks of the CPUs of a bitmask are the positions of its array, each of one CPU.
LEMMA Ranks ==
    ASSUME NEW bm, bm \subseteq Cpus
    PROVE  /\ IsFiniteSet(bm) /\ Cardinality(bm) \in Nat
           /\ \A c \in bm : Rank(bm, c) \in 0..(Cardinality(bm) - 1)
           /\ \A c, d \in bm : Rank(bm, c) = Rank(bm, d) => c = d
           /\ \A j \in 0..(Cardinality(bm) - 1) : \E c \in bm : Rank(bm, c) = j
<1>1. IsFiniteSet(Cpus)
  <2>1. 0 \in Int /\ NumCpus - 1 \in Int
    BY FreqBounds
  <2> QED BY <2>1, FS_Interval, Zenon DEF Cpus
<1>2. IsFiniteSet(bm) /\ Cardinality(bm) \in Nat
  BY <1>1, FS_Subset, FS_CardinalityType
<1>3. \A c \in bm : c \in Int
  BY FreqBounds DEF Cpus
<1>4. ASSUME NEW c \in bm, NEW S \in SUBSET bm, c \notin S
      PROVE  Cardinality(S) \in Nat /\ Cardinality(S) < Cardinality(bm)
  <2>1. S # bm
    BY <1>4
  <2> QED BY <1>2, <1>4, <2>1, FS_Subset, FS_CardinalityType
<1>5. \A c \in bm : Rank(bm, c) \in 0..(Cardinality(bm) - 1)
  <2> TAKE c \in bm
  <2>1. c \notin {d \in bm : d < c}
    BY <1>3
  <2>2. Rank(bm, c) \in Nat /\ Rank(bm, c) < Cardinality(bm)
    BY <2>1, <1>4 DEF Rank
  <2> QED BY <2>2, <1>2
<1>6. ASSUME NEW c \in bm, NEW d \in bm, c < d
      PROVE  Rank(bm, c) # Rank(bm, d)
  <2> DEFINE S == {e \in bm : e < c}
             T == {e \in bm : e < d}
  <2>1. S \in SUBSET T /\ c \in T /\ c \notin S
    BY <1>3, <1>6
  <2>2. IsFiniteSet(T)
    BY <1>2, FS_Subset
  <2>3. Cardinality(S) # Cardinality(T)
    BY <2>1, <2>2, FS_Subset
  <2> QED BY <2>3 DEF Rank
<1>7. \A c, d \in bm : Rank(bm, c) = Rank(bm, d) => c = d
  BY <1>3, <1>6
<1>8. \A j \in 0..(Cardinality(bm) - 1) : \E c \in bm : Rank(bm, c) = j
  <2> DEFINE T == 0..(Cardinality(bm) - 1)
             f == [c \in bm |-> Rank(bm, c)]
  <2>1. IsFiniteSet(T) /\ Cardinality(T) = Cardinality(bm)
    BY <1>2, FS_Interval
  <2>2. f \in Injection(bm, T)
    BY <1>5, <1>7 DEF Injection, IsInjective
  <2>3. f \in Surjection(bm, T)
    BY <2>1, <2>2, FS_Injection
  <2> QED BY <2>3 DEF Surjection
<1> QED BY <1>2, <1>5, <1>7, <1>8

\* What the array holds: the CPUs of the bitmask, and 0 behind them.
LEMMA Arrays ==
    ASSUME len \in Nat, NEW bm, bm \subseteq Cpus
    PROVE  /\ \A j \in 0..(len - 1) : Filled(bm, <<>>)[j] \in bm \cup {0}
           /\ Cardinality(bm) <= len =>
                 \A c \in bm : /\ Rank(bm, c) \in 0..(len - 1)
                               /\ Filled(bm, <<>>)[Rank(bm, c)] = c
<1>1. ASSUME NEW j \in 0..(Cardinality(bm) - 1)
      PROVE  Nth(bm, j) \in bm /\ Rank(bm, Nth(bm, j)) = j
  <2>1. \E c \in bm : Rank(bm, c) = j
    BY Ranks
  <2>2. Nth(bm, j) = CHOOSE c \in bm : Rank(bm, c) = j
    BY Zenon DEF Nth, Rank
  <2> QED BY <2>1, <2>2, Zenon
<1>2. \A c \in bm : Nth(bm, Rank(bm, c)) = c
  BY <1>1, Ranks
<1>3. ASSUME NEW j \in 0..(len - 1)
      PROVE  Filled(bm, <<>>)[j] = IF j < Cardinality(bm) THEN Nth(bm, j) ELSE 0
  BY DEF Filled
<1>4. Cardinality(bm) \in Nat
  BY Ranks
<1>5. ASSUME NEW j \in 0..(len - 1)
      PROVE  Filled(bm, <<>>)[j] \in bm \cup {0}
  BY <1>1, <1>3, <1>4
<1>6. ASSUME Cardinality(bm) <= len, NEW c \in bm
      PROVE  /\ Rank(bm, c) \in 0..(len - 1)
             /\ Filled(bm, <<>>)[Rank(bm, c)] = c
  <2>1. Rank(bm, c) \in 0..(Cardinality(bm) - 1)
    BY Ranks
  <2>2. Rank(bm, c) \in 0..(len - 1) /\ Rank(bm, c) < Cardinality(bm)
    BY <1>4, <1>6, <2>1
  <2> QED BY <1>2, <1>3, <2>2
<1> QED BY <1>5, <1>6

-----------------------------------------------------------------------------
\* What stays as it is: each CPU of the machine is on one node, the process may
\* run on some of them, and equal shares of these are no more than there are.
Machine ==
    /\ n_numas \in Nat /\ DOMAIN nodes = 0..n_numas
    /\ \A k \in 0..n_numas : nodes[k] \subseteq Cpus
    /\ \A k, l \in 0..n_numas : k # l => nodes[k] \cap nodes[l] = {}
    /\ \A c \in Cpus : \E k \in 0..n_numas : c \in nodes[k]
    /\ n_cpus \in 1..NumCpus /\ allowed \subseteq Cpus
    /\ len \in Nat /\ (n_numas + 1) * len <= n_cpus

\* Those of the first n_cpus CPUs that are on the nodes before the n-th.
Before(n) == {c \in 0..(n_cpus - 1) : \E k \in 0..(n - 1) : c \in nodes[k]}

\* main is at one of the nodes or behind the last, and has shown as many CPUs
\* for each node before as the array has elements.
Progress ==
    /\ at \in {"node", "cpu", "end", "undefined"}
    /\ node \in 0..(n_numas + 1)
    /\ i \in 0..len
    /\ shown \in Seq(Nat \X Nat)
    /\ at \in {"node", "end"} => Len(shown) = node * len
    /\ at = "cpu" => Len(shown) = node * len + i
    /\ at = "end" => node = n_numas + 1
    /\ at = "undefined" => node <= n_numas /\ Cardinality(numa_node_to_cpus(node)) > len

\* The nodes before had no more CPUs than the array elements, some had less if
\* the shares are not equal, and each was shown.
NodesShown ==
    /\ Cardinality(Before(node)) <= node * len
    /\ \A k \in 0..(node - 1) : Cardinality(numa_node_to_cpus(k)) # len =>
          Cardinality(Before(node)) < node * len
    /\ \A k \in 0..(node - 1) : \A c \in numa_node_to_cpus(k) :
          \E p \in 1..Len(shown) : shown[p] = <<k, c>>

\* So was the part of this node's that the loop has come past.
CpusShown ==
    at = "cpu" =>
        /\ node <= n_numas
        /\ Cardinality(numa_node_to_cpus(node)) <= len
        /\ cpus = get_node_cpus(numa_node_to_cpus(node))
        /\ \A c \in numa_node_to_cpus(node) : Rank(numa_node_to_cpus(node), c) < i =>
              \E p \in 1..Len(shown) : shown[p] = <<node, c>>

\* ShownOnItsNode, with the node known to be one of the machine.
Placed ==
    \A p \in 1..Len(shown) :
        /\ shown[p][1] \in 0..n_numas
        /\ shown[p][2] \in nodes[shown[p][1]] \cup {0}
        /\ shown[p][2] \in 0..(n_cpus - 1)

FInv == Machine /\ Progress /\ NodesShown /\ CpusShown /\ Placed

-----------------------------------------------------------------------------
LEMMA FInvInit == FreqInit => FInv
<1> SUFFICES ASSUME FreqInit PROVE FInv
  OBVIOUS
<1> USE FreqBounds
<1>1. PICK n \in 1..MaxNodes : \E home \in [Cpus -> 0..(n - 1)] :
          nodes = [k \in 0..(n - 1) |-> {c \in Cpus : home[c] = k}]
  BY DEF FreqInit
<1>2. PICK home \in [Cpus -> 0..(n - 1)] :
          nodes = [k \in 0..(n - 1) |-> {c \in Cpus : home[c] = k}]
  BY <1>1
<1>3. n \in Nat /\ n > 0 /\ DOMAIN nodes = 0..(n - 1)
  BY <1>2
<1>4. n_numas = n - 1
  <2>1. Cardinality(0..(n - 1)) = n
    BY <1>3, FS_Interval
  <2> QED BY <1>3, <2>1 DEF n_numas
<1>5. n_cpus \in 1..NumCpus /\ allowed \subseteq Cpus
  <2>1. allowed \subseteq Cpus /\ allowed # {} /\ n_cpus = Cardinality(allowed)
    BY DEF FreqInit
  <2>2. IsFiniteSet(Cpus) /\ Cardinality(Cpus) = NumCpus
    <3>1. 0 \in Int /\ NumCpus - 1 \in Int
      OBVIOUS
    <3>2. /\ IsFiniteSet(0..(NumCpus - 1))
          /\ Cardinality(0..(NumCpus - 1)) = IF 0 > NumCpus - 1 THEN 0 ELSE (NumCpus - 1) - 0 + 1
      BY <3>1, FS_Interval
    <3> QED BY <3>2 DEF Cpus
  <2>3. IsFiniteSet(allowed) /\ n_cpus \in Nat /\ n_cpus <= NumCpus
    BY <2>1, <2>2, FS_Subset, FS_CardinalityType
  <2>4. n_cpus # 0
    BY <2>1, <2>3, FS_EmptySet
  <2> QED BY <2>1, <2>3, <2>4
<1>6. len \in Nat /\ (n_numas + 1) * len <= n_cpus
  <2>1. len = n_cpus \div n
    BY <1>3, <1>4 DEF len
  <2> QED BY <1>3, <1>4, <1>5, <2>1
<1>7. Machine
  <2>1. \A k \in 0..n_numas : nodes[k] = {c \in Cpus : home[c] = k}
    BY <1>2, <1>3, <1>4
  <2>2. \A c \in Cpus : home[c] \in 0..n_numas
    BY <1>2, <1>3, <1>4
  <2> QED BY <1>3, <1>4, <1>5, <1>6, <2>1, <2>2 DEF Machine
<1>8. at = "node" /\ node = 0 /\ i = 0 /\ shown = <<>> /\ Len(shown) = 0
  BY DEF FreqInit
<1>9. Progress
  BY <1>6, <1>7, <1>8 DEF Progress, Machine
<1>10. NodesShown
  <2>1. Before(node) = {}
    BY <1>8 DEF Before
  <2> QED BY <1>6, <1>8, <2>1, FS_EmptySet DEF NodesShown
<1>11. CpusShown /\ Placed
  BY <1>8 DEF CpusShown, Placed
<1> QED BY <1>7, <1>9, <1>10, <1>11 DEF FInv

\* The CPUs of one node more.
LEMMA OneNodeMore ==
    ASSUME Machine, NEW n \in 0..n_numas
    PROVE  /\ Cardinality(Before(n)) \in Nat
           /\ Cardinality(Before(n + 1)) =
                 Cardinality(Before(n)) + Cardinality(numa_node_to_cpus(n))
<1>1. Before(n + 1) = Before(n) \cup numa_node_to_cpus(n)
  <2>1. \A k \in 0..n : k \in 0..(n - 1) \/ k = n
    BY DEF Machine
  <2>2. (n + 1) - 1 = n /\ n \in 0..n /\ \A k \in 0..(n - 1) : k \in 0..n
    BY DEF Machine
  <2>3. \A c \in nodes[n] : c < n_cpus => c \in 0..(n_cpus - 1)
    BY FreqBounds DEF Machine, Cpus
  <2>4. \A c \in 0..(n_cpus - 1) : c < n_cpus
    BY DEF Machine
  <2>5. Before(n + 1) = {c \in 0..(n_cpus - 1) : \E k \in 0..n : c \in nodes[k]}
    BY <2>2, Zenon DEF Before
  <2> QED BY <2>1, <2>2, <2>3, <2>4, <2>5, Zenon DEF Before, numa_node_to_cpus
<1>2. Before(n) \cap numa_node_to_cpus(n) = {}
  BY DEF Machine, Before, numa_node_to_cpus
<1>3. IsFiniteSet(0..(n_cpus - 1))
  BY FS_Interval DEF Machine
<1>4. IsFiniteSet(Before(n))
  BY <1>3, FS_Subset DEF Before
<1>5. IsFiniteSet(numa_node_to_cpus(n)) /\ Cardinality(numa_node_to_cpus(n)) \in Nat
  BY Ranks DEF Machine, numa_node_to_cpus
<1>6. Cardinality(Before(n)) \in Nat
  BY <1>4, FS_CardinalityType
<1> QED BY <1>1, <1>2, <1>4, <1>5, <1>6, FS_Union, FS_EmptySet

\* The machine stays, and with it what is defined by it.
LEMMA MachineStays ==
    ASSUME Machine, UNCHANGED <<nodes, allowed, n_cpus>>
    PROVE  /\ Machine' /\ len' = len /\ n_numas' = n_numas
           /\ \A n : Before(n)' = Before(n)
           /\ \A n : numa_node_to_cpus(n)' = numa_node_to_cpus(n)
           /\ \A bm : get_node_cpus(bm)' = get_node_cpus(bm)
<1>1. n_numas' = n_numas
  BY DEF n_numas
<1>2. len' = len
  BY <1>1 DEF len
<1> QED BY <1>1, <1>2, Zenon
        DEF Machine, Before, numa_node_to_cpus, get_node_cpus, Filled, Cpus

\* No step breaks the invariant.
LEMMA FInvStep == FInv /\ [FreqNext]_freqVars => FInv'
<1> SUFFICES ASSUME FInv, [FreqNext]_freqVars PROVE FInv'
  OBVIOUS
<1> DEFINE bm == numa_node_to_cpus(node)
<1>1. Machine /\ Progress /\ NodesShown /\ CpusShown /\ Placed
  BY DEF FInv
<1>2. node \in Nat /\ i \in Nat /\ len \in Nat /\ n_numas \in Nat
  BY <1>1 DEF Machine, Progress
<1>3. UNCHANGED <<nodes, allowed, n_cpus>>
  BY DEF freqVars, FreqNext, Node, Cpu, EndCpus, EndNodes, Stopped
<1>4. /\ Machine' /\ len' = len /\ n_numas' = n_numas
      /\ \A n : Before(n)' = Before(n)
      /\ \A n : numa_node_to_cpus(n)' = numa_node_to_cpus(n)
      /\ \A b : get_node_cpus(b)' = get_node_cpus(b)
  BY <1>1, <1>3, MachineStays
<1>5. node <= n_numas => bm \subseteq Cpus /\ bm \subseteq nodes[node]
  BY <1>1, <1>2 DEF Machine, numa_node_to_cpus
<1>6. CASE Node
  <2>1. /\ at = "node" /\ node <= n_numas /\ cpus' = get_node_cpus(bm)
        /\ at' = IF Cardinality(bm) > len THEN "undefined" ELSE "cpu"
        /\ i' = 0 /\ UNCHANGED <<node, shown>>
    BY <1>6 DEF Node
  <2>2. Progress'
    BY <1>1, <1>2, <1>4, <2>1 DEF Progress
  <2>3. NodesShown' /\ Placed'
    BY <1>1, <1>3, <1>4, <2>1 DEF NodesShown, Placed
  <2>4. CpusShown'
    <3>1. numa_node_to_cpus(node)' = bm
      BY <2>1, <1>3 DEF numa_node_to_cpus
    <3>2. get_node_cpus(bm)' = get_node_cpus(bm)
      BY <1>4, <1>3, <3>1 DEF get_node_cpus, Filled
    <3>3. Cardinality(bm) \in Nat /\ \A c \in bm : Rank(bm, c) \in Nat
      BY <1>5, <2>1, Ranks
    <3> HIDE DEF bm
    <3>4. \A c \in bm : ~ (Rank(bm, c) < 0)
      BY <3>3
    <3> QED BY <1>2, <1>4, <2>1, <3>1, <3>2, <3>3, <3>4 DEF CpusShown
  <2> QED BY <1>4, <2>2, <2>3, <2>4 DEF FInv
<1>7. CASE Cpu
  <2>1. /\ at = "cpu" /\ i < len /\ shown' = Append(shown, <<node, cpus[i]>>)
        /\ i' = i + 1 /\ UNCHANGED <<at, node, cpus>>
    BY <1>7 DEF Cpu
  <2>2. /\ node <= n_numas /\ Cardinality(bm) <= len /\ cpus = get_node_cpus(bm)
        /\ \A c \in bm : Rank(bm, c) < i =>
              \E p \in 1..Len(shown) : shown[p] = <<node, c>>
    BY <1>1, <2>1 DEF CpusShown
  <2>3. /\ cpus[i] \in bm \cup {0}
        /\ \A c \in bm : Rank(bm, c) \in 0..(len - 1) /\ cpus[Rank(bm, c)] = c
    BY <1>2, <1>5, <2>1, <2>2, Arrays DEF get_node_cpus
  <2>4. /\ shown' \in Seq(Nat \X Nat) /\ Len(shown') = Len(shown) + 1
        /\ shown'[Len(shown) + 1] = <<node, cpus[i]>>
        /\ \A p \in 1..Len(shown) : shown'[p] = shown[p]
    <3>1. cpus[i] \in Nat
      BY <1>5, <2>2, <2>3, FreqBounds DEF Cpus
    <3>2. shown \in Seq(Nat \X Nat) /\ <<node, cpus[i]>> \in Nat \X Nat
      BY <1>1, <1>2, <3>1 DEF Progress
    <3> QED BY <2>1, <3>2
  <2>5. Len(shown) \in Nat
    BY <1>1 DEF Progress
  <2>6. Progress'
    BY <1>1, <1>2, <1>4, <2>1, <2>4, <2>5 DEF Progress
  <2>7. \A x : (\E p \in 1..Len(shown) : shown[p] = x)
               => \E p \in 1..Len(shown') : shown'[p] = x
    BY <2>4, <2>5
  <2>8. NodesShown'
    BY <1>1, <1>3, <1>4, <2>1, <2>7 DEF NodesShown, numa_node_to_cpus, Before
  <2>9. CpusShown'
    <3>1. numa_node_to_cpus(node)' = bm
      BY <2>1, <1>3 DEF numa_node_to_cpus
    <3>2. get_node_cpus(bm)' = get_node_cpus(bm)
      BY <1>4, <1>3, <3>1 DEF get_node_cpus, Filled
    <3>3. \A c \in bm : Rank(bm, c) < i + 1 => Rank(bm, c) < i \/ Rank(bm, c) = i
      BY <1>2, <2>3
    <3>4. ASSUME NEW c \in bm, Rank(bm, c) < i + 1
          PROVE  \E p \in 1..Len(shown') : shown'[p] = <<node, c>>
      <4>1. CASE Rank(bm, c) < i
        BY <2>2, <2>7, <4>1
      <4>2. CASE Rank(bm, c) = i
        <5>1. cpus[i] = c
          BY <2>3, <4>2, Zenon
        <5>2. shown'[Len(shown) + 1] = <<node, c>>
          BY <2>4, <5>1, Zenon
        <5>3. Len(shown) + 1 \in 1..Len(shown')
          BY <2>4, <2>5
        <5> QED BY <5>2, <5>3, Zenon
      <4> QED BY <3>3, <3>4, <4>1, <4>2
    <3> HIDE DEF bm
    <3> QED BY <1>4, <2>1, <2>2, <3>1, <3>2, <3>4 DEF CpusShown
  <2>10. Placed'
    <3>0. bm \subseteq 0..(n_cpus - 1) /\ 0 \in 0..(n_cpus - 1)
      BY <1>1, <1>5, <2>2, FreqBounds DEF Machine, numa_node_to_cpus, Cpus
    <3>1. /\ cpus[i] \in nodes[node] \cup {0} /\ node \in 0..n_numas
          /\ cpus[i] \in 0..(n_cpus - 1)
      BY <1>2, <1>5, <2>2, <2>3, <3>0
    <3>2. ASSUME NEW p \in 1..Len(shown')
          PROVE  /\ shown'[p][1] \in 0..n_numas
                 /\ shown'[p][2] \in nodes[shown'[p][1]] \cup {0}
                 /\ shown'[p][2] \in 0..(n_cpus - 1)
      <4>1. CASE p \in 1..Len(shown)
        BY <1>1, <2>4, <4>1 DEF Placed
      <4>2. CASE p = Len(shown) + 1
        BY <2>4, <3>1, <4>2
      <4> QED BY <2>4, <2>5, <4>1, <4>2
    <3> QED BY <1>3, <1>4, <3>2 DEF Placed
  <2> QED BY <1>4, <2>6, <2>8, <2>9, <2>10 DEF FInv
<1>8. CASE EndCpus
  <2>1. /\ at = "cpu" /\ i = len /\ at' = "node" /\ node' = node + 1
        /\ UNCHANGED <<i, shown>>
    BY <1>8 DEF EndCpus
  <2>2. /\ node <= n_numas /\ Cardinality(bm) <= len
        /\ \A c \in bm : Rank(bm, c) < len =>
              \E p \in 1..Len(shown) : shown[p] = <<node, c>>
    BY <1>1, <2>1 DEF CpusShown
  <2>3. (node + 1) * len = node * len + len
    BY <1>2
  <2>4. Progress'
    BY <1>1, <1>2, <1>4, <2>1, <2>2, <2>3 DEF Progress
  <2>5. \A c \in bm : \E p \in 1..Len(shown) : shown[p] = <<node, c>>
    <3>1. \A c \in bm : Rank(bm, c) \in 0..(len - 1)
      <4> HIDE DEF bm
      <4>1. bm \subseteq Cpus
        BY <1>5, <2>2
      <4> QED BY <1>2, <2>2, <4>1, Arrays
    <3>2. \A c \in bm : Rank(bm, c) < len
      BY <1>2, <3>1
    <3> QED BY <2>2, <3>2, Zenon
  <2>6. /\ Cardinality(Before(node + 1)) <= (node + 1) * len
        /\ \A k \in 0..node : Cardinality(numa_node_to_cpus(k)) # len =>
              Cardinality(Before(node + 1)) < (node + 1) * len
    <3>1. node \in 0..n_numas
      BY <1>2, <2>2
    <3>2. Cardinality(bm) \in Nat
      BY <1>5, <2>2, Ranks
    <3>3. /\ Cardinality(Before(node)) \in Nat
          /\ Cardinality(Before(node + 1)) = Cardinality(Before(node)) + Cardinality(bm)
      BY <1>1, <3>1, OneNodeMore
    <3>4. Cardinality(Before(node)) <= node * len
      BY <1>1 DEF NodesShown
    <3>5. Cardinality(Before(node + 1)) <= (node + 1) * len
      BY <1>2, <2>2, <2>3, <3>2, <3>3, <3>4
    <3>6. node * len \in Int
      BY <1>2
    <3>7. ASSUME NEW k \in 0..node, Cardinality(numa_node_to_cpus(k)) # len
          PROVE  Cardinality(Before(node + 1)) < (node + 1) * len
      <4>1. CASE k = node
        <5>1. Cardinality(bm) # len
          BY <3>7, <4>1
        <5> HIDE DEF bm
        <5> QED BY <1>2, <2>2, <2>3, <3>2, <3>3, <3>4, <3>6, <5>1
      <4>2. CASE k \in 0..(node - 1)
        <5>1. Cardinality(Before(node)) < node * len
          BY <1>1, <3>7, <4>2, Zenon DEF NodesShown
        <5> HIDE DEF bm
        <5> QED BY <1>2, <2>2, <2>3, <3>2, <3>3, <3>6, <5>1
      <4> QED BY <1>2, <4>1, <4>2
    <3> QED BY <3>5, <3>7
  <2>7. \A k \in 0..node : \A c \in numa_node_to_cpus(k) :
            \E p \in 1..Len(shown) : shown[p] = <<k, c>>
    <3>1. \A k \in 0..node : k \in 0..(node - 1) \/ k = node
      BY <1>2
    <3> QED BY <1>1, <2>5, <3>1 DEF NodesShown
  <2>8. NodesShown'
    <3>1. node' - 1 = node
      BY <1>2, <2>1
    <3> QED BY <1>3, <1>4, <2>1, <2>6, <2>7, <3>1 DEF NodesShown, numa_node_to_cpus, Before
  <2>9. CpusShown' /\ Placed'
    BY <1>1, <1>3, <1>4, <2>1 DEF CpusShown, Placed
  <2> QED BY <1>4, <2>4, <2>8, <2>9 DEF FInv
<1>9. CASE EndNodes \/ Stopped \/ UNCHANGED freqVars
  <2>1. UNCHANGED <<node, cpus, i, shown>> /\ (at' = at \/ (at = "node" /\ at' = "end" /\ node > n_numas))
    BY <1>9 DEF EndNodes, Stopped, freqVars
  <2>2. Progress'
    BY <1>1, <1>2, <1>4, <2>1 DEF Progress
  <2>3. NodesShown' /\ CpusShown' /\ Placed'
    BY <1>1, <1>3, <1>4, <2>1
    DEF NodesShown, CpusShown, Placed, numa_node_to_cpus, Before, get_node_cpus, Filled
  <2> QED BY <1>4, <2>2, <2>3 DEF FInv
<1> QED BY <1>6, <1>7, <1>8, <1>9 DEF FreqNext

-----------------------------------------------------------------------------
\* FInv says what the properties say.
LEMMA FInvMeans == FInv => FirstCpusOrOverrun /\ ShownOnItsNode
<1> SUFFICES ASSUME FInv PROVE FirstCpusOrOverrun /\ ShownOnItsNode
  OBVIOUS
<1>1. Machine /\ Progress /\ NodesShown /\ Placed
  BY DEF FInv
<1>2. ShownOnItsNode
  BY <1>1 DEF Placed, ShownOnItsNode
<1>3. ASSUME at = "end"
      PROVE  /\ EqualShares
             /\ Len(shown) = n_cpus
             /\ \A c \in 0..(n_cpus - 1) : \E k \in 1..Len(shown) :
                   shown[k][2] = c /\ c \in nodes[shown[k][1]]
             /\ {shown[k][2] : k \in 1..Len(shown)} = 0..(n_cpus - 1)
  <2>1. node = n_numas + 1 /\ Len(shown) = node * len
    BY <1>1, <1>3 DEF Progress
  <2>2. n_numas \in Nat /\ len \in Nat /\ n_cpus \in Nat /\ n_cpus > 0
        /\ (n_numas + 1) * len <= n_cpus
    BY <1>1, FreqBounds DEF Machine
  <2>3. ASSUME NEW c \in 0..(n_cpus - 1)
        PROVE  \E k \in 0..n_numas : c \in nodes[k] /\ c \in numa_node_to_cpus(k)
    <3>1. c \in Cpus /\ c < n_cpus
      BY <1>1, <2>2, FreqBounds DEF Machine, Cpus
    <3> QED BY <1>1, <3>1 DEF Machine, numa_node_to_cpus
  <2>4. Before(node) = 0..(n_cpus - 1)
    <3>1. 0..(node - 1) = 0..n_numas
      BY <2>1, <2>2
    <3> QED BY <2>3, <3>1, Zenon DEF Before
  <2>5. Cardinality(0..(n_cpus - 1)) = n_cpus
    BY <2>2, FS_Interval
  <2>6. n_cpus <= node * len
    BY <1>1, <2>4, <2>5 DEF NodesShown
  <2>7. Len(shown) = n_cpus
    BY <2>1, <2>2, <2>6
  <2>8. ASSUME NEW c \in 0..(n_cpus - 1)
        PROVE  \E k \in 1..Len(shown) : shown[k][2] = c /\ c \in nodes[shown[k][1]]
    <3>1. PICK n \in 0..n_numas : c \in nodes[n] /\ c \in numa_node_to_cpus(n)
      BY <2>3
    <3>2. n \in 0..(node - 1)
      BY <2>1, <2>2
    <3>3. PICK p \in 1..Len(shown) : shown[p] = <<n, c>>
      BY <1>1, <3>1, <3>2 DEF NodesShown
    <3>4. shown[p][1] = n /\ shown[p][2] = c
      BY <3>3
    <3> QED BY <3>1, <3>4, Zenon
  <2>9. EqualShares
    <3>1. Cardinality(Before(node)) = n_cpus
      BY <2>4, <2>5
    <3>2. DOMAIN nodes = 0..(node - 1)
      BY <1>1, <2>1, <2>2 DEF Machine
    <3>3. ~ (n_cpus < node * len)
      BY <2>1, <2>2
    <3> QED BY <1>1, <3>1, <3>2, <3>3, Zenon DEF NodesShown, EqualShares
  <2>10. {shown[k][2] : k \in 1..Len(shown)} = 0..(n_cpus - 1)
    BY <1>1, <2>8 DEF Placed
  <2> QED BY <2>7, <2>8, <2>9, <2>10
<1>4. ASSUME at = "undefined"
      PROVE  ~ EqualShares
  <2>1. node \in DOMAIN nodes /\ Cardinality(numa_node_to_cpus(node)) > len
    BY <1>1, <1>4 DEF Progress, Machine
  <2>2. Cardinality(numa_node_to_cpus(node)) # len
    BY <1>1, <2>1 DEF Machine
  <2> QED BY <2>1, <2>2, Zenon DEF EqualShares
<1> QED BY <1>2, <1>3, <1>4 DEF FirstCpusOrOverrun

LEMMA FInvAlways == FreqSpec => []FInv
<1> QED BY FInvInit, FInvStep, PTL DEF FreqSpec

\* FirstCpusOrOverrun, on every machine: an array is overrun just when the nodes do
\* not have equal shares of the first CPUs, and otherwise each of these was shown
\* once on its node and nothing else was.
THEOREM WholeMachine == FreqSpec => []FirstCpusOrOverrun
<1> QED BY FInvAlways, FInvMeans, PTL

\* ShownOnItsNode, on every machine: what is printed for a node is one of its CPUs
\* or the 0 that memset left, also when the array is about to be overrun.
THEOREM OnTheirNodes == FreqSpec => []ShownOnItsNode
<1> QED BY FInvAlways, FInvMeans, PTL
=============================================================================
