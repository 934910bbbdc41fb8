---------------------------- MODULE AttachClient ----------------------------
(***************************************************************************)
(* The command ./jbprof <pid> <agent> <opt>: any number of clients ask the *)
(* same JVM to load the agent.  A client that finds no socket of the JVM   *)
(* creates the trigger file in two directories, sends SIGQUIT, polls for   *)
(* the socket a bounded number of times and removes a trigger file.  Then  *)
(* it connects, writes the load command and reads the answer.              *)
(*                                                                         *)
(* The JVM's side is not part of the program: its signal dispatcher starts *)
(* the attach listener when it finds a trigger file and prints a thread    *)
(* dump otherwise, also when the listener is already on; the listener      *)
(* takes one connection after the other, and answers a load command when   *)
(* Agent_OnAttach returns.  The first one runs a whole session of the      *)
(* agent on the listener, and such a session need not end (wait_until);    *)
(* a later one finds the agent loaded and returns at once.                 *)
(***************************************************************************)
EXTENDS Naturals, Sequences, FiniteSets

CONSTANTS
    Clients,    \* the invocations of jbprof
    MaxTries    \* the polls of create_attach_socket (10 in the code)

ASSUME ClientsAssumption == IsFiniteSet(Clients)
ASSUME TriesAssumption == MaxTries \in Nat \ {0}

VARIABLES
    pc,         \* where each client is
    retry,      \* the polls a client has made
    result,     \* its exit status, "none" while it runs
    triggers,   \* the directories that hold the trigger file: "cwd", "tmp"
    socket,     \* /tmp/.java_pid<pid>: "none", "stale" (nobody listens), "live"
    jvm,        \* "up" or "down"
    signals,    \* the clients whose SIGQUIT is not handled yet
    listener,   \* the attach listener: "off", "starting", "on"
    queue,      \* connections not answered, in the order they were made
    answer,     \* what the listener has written: "none", "zero", "error" (another number)
    session,    \* the agent: "none", "running" on the listener, "over", or
                \* "loaded" when the JVM was started with it
    signalled,  \* history: the clients that have sent SIGQUIT to the JVM
    dumped,     \* history: those whose SIGQUIT made the JVM print a thread dump
    gaveUp      \* history: the clients that have stopped polling in vain

jvmVars    == <<jvm, listener, answer, session, dumped>>
signalVars == <<signals, signalled>>
fileVars   == <<triggers, socket>>
vars == <<pc, retry, result, triggers, socket, jvm, signals, listener, queue,
          answer, session, signalled, dumped, gaveUp>>

Init ==
    /\ pc = [c \in Clients |-> "start"]
    /\ retry = [c \in Clients |-> 0]
    /\ result = [c \in Clients |-> "none"]
    /\ triggers = {} /\ jvm = "up" /\ queue = <<>>
    /\ \/ listener = "off" /\ socket \in {"none", "stale"}
       \/ listener = "on" /\ socket = "live"      \* another tool has attached before
    /\ answer = [c \in Clients |-> "none"] /\ session \in {"none", "loaded"}
    /\ signals = {} /\ signalled = {} /\ dumped = {} /\ gaveUp = {}

Goto(c, from, to) == pc[c] = from /\ pc' = [pc EXCEPT ![c] = to]

Exit(c, from, r) ==
    /\ Goto(c, from, "done")
    /\ result' = [result EXCEPT ![c] = r]

-----------------------------------------------------------------------------
\* The client

\* stat only: a socket nobody listens on will do.
check_socket == socket # "none"

Start(c) ==
    /\ Goto(c, "start", IF check_socket THEN "connect" ELSE "cwd")
    /\ UNCHANGED <<retry, result, fileVars, jvmVars, signalVars, queue, gaveUp>>

\* The first creat may fail.  Whether it fails or not, the second follows: the
\* condition of the fallback is that close succeeds.
CreateCwd(c) ==
    /\ Goto(c, "cwd", "tmp")
    /\ triggers' \in {triggers, triggers \cup {"cwd"}}
    /\ UNCHANGED <<retry, result, socket, jvmVars, signalVars, queue, gaveUp>>

CreateTmp(c) ==
    /\ Goto(c, "tmp", "kill")
    /\ triggers' = triggers \cup {"tmp"}
    /\ UNCHANGED <<retry, result, socket, jvmVars, signalVars, queue, gaveUp>>

CannotCreate(c) ==
    /\ Exit(c, "tmp", "fail")
    /\ UNCHANGED <<retry, fileVars, jvmVars, signalVars, queue, gaveUp>>

Kill_UnlinksFirst(c) ==
    /\ Goto(c, "kill", "poll")
    /\ IF jvm = "up"
       THEN signals' = signals \cup {c} /\ signalled' = signalled \cup {c}
       ELSE UNCHANGED signalVars
    /\ triggers' = triggers \ {"tmp"}
    /\ UNCHANGED <<retry, result, socket, jvmVars, queue, gaveUp>>

\* The result of kill is ignored.
Kill(c) ==
    /\ Goto(c, "kill", "poll")
    /\ IF jvm = "up"
       THEN signals' = signals \cup {c} /\ signalled' = signalled \cup {c}
       ELSE UNCHANGED signalVars
    /\ UNCHANGED <<retry, result, fileVars, jvmVars, queue, gaveUp>>

Poll_Forever(c) ==
    /\ Goto(c, "poll", IF check_socket THEN "found" ELSE "poll")
    /\ UNCHANGED <<retry, result, fileVars, jvmVars, signalVars, queue, gaveUp>>

Poll_PostIncrement(c) ==
    /\ Goto(c, "poll", IF check_socket THEN "found"
                       ELSE IF retry[c] < MaxTries THEN "poll" ELSE "timeout")
    /\ retry' = [retry EXCEPT ![c] = IF check_socket THEN @ ELSE @ + 1]
    /\ UNCHANGED <<result, fileVars, jvmVars, signalVars, queue, gaveUp>>

\* A poll that finds nothing is repeated until the retries are used up.
Poll(c) ==
    /\ Goto(c, "poll", IF check_socket THEN "found"
                       ELSE IF retry[c] + 1 < MaxTries THEN "poll" ELSE "timeout")
    /\ retry' = [retry EXCEPT ![c] = IF check_socket THEN @ ELSE @ + 1]
    /\ UNCHANGED <<result, fileVars, jvmVars, signalVars, queue, gaveUp>>

Unlink_Cwd(c) ==
    /\ triggers' = triggers \ {"cwd"}
    /\ \/ Goto(c, "found", "connect") /\ UNCHANGED <<result, gaveUp>>
       \/ Exit(c, "timeout", "fail") /\ gaveUp' = gaveUp \cup {c}
    /\ UNCHANGED <<retry, socket, jvmVars, signalVars, queue>>

\* cpath now names the file in /tmp: that one is removed, the one in the
\* working directory of the JVM is not.
Unlink(c) ==
    /\ triggers' = triggers \ {"tmp"}
    /\ \/ Goto(c, "found", "connect") /\ UNCHANGED <<result, gaveUp>>
       \/ Exit(c, "timeout", "fail") /\ gaveUp' = gaveUp \cup {c}
    /\ UNCHANGED <<retry, socket, jvmVars, signalVars, queue>>

\* connect_socket and write_command
Connect(c) ==
    /\ IF socket = "live" /\ jvm = "up"
       THEN Goto(c, "connect", "read") /\ queue' = Append(queue, c) /\ UNCHANGED result
       ELSE Exit(c, "connect", "fail") /\ UNCHANGED queue
    /\ UNCHANGED <<retry, fileVars, jvmVars, signalVars, gaveUp>>

ReadResponse_NoBytesCheck(c) ==
    /\ answer[c] # "none" \/ jvm = "down"
    /\ Exit(c, "read", IF answer[c] = "error" THEN "fail" ELSE "ok")
    /\ UNCHANGED <<retry, fileVars, jvmVars, signalVars, queue, gaveUp>>

\* read_response blocks until the listener has written or the JVM is gone.  No
\* bytes are an error, of the others the number they begin with decides.
ReadResponse(c) ==
    /\ answer[c] # "none" \/ jvm = "down"
    /\ Exit(c, "read", IF answer[c] = "zero" THEN "ok" ELSE "fail")
    /\ UNCHANGED <<retry, fileVars, jvmVars, signalVars, queue, gaveUp>>

-----------------------------------------------------------------------------
\* The JVM

\* The signal dispatcher: it looks for the trigger file only while there is no
\* listener, and ignores the signal only while the listener starts.
HandleSignal(c) ==
    /\ jvm = "up" /\ c \in signals
    /\ signals' = signals \ {c}
    /\ \/ listener = "off" /\ triggers # {} /\ listener' = "starting" /\ UNCHANGED dumped
       \/ listener = "starting" /\ UNCHANGED <<listener, dumped>>
       \/ /\ listener = "on" \/ (listener = "off" /\ triggers = {})
          /\ dumped' = dumped \cup {c} /\ UNCHANGED listener
    /\ UNCHANGED <<pc, retry, result, fileVars, jvm, queue, answer, session, signalled, gaveUp>>

ListenerUp ==
    /\ jvm = "up" /\ listener = "starting"
    /\ listener' = "on"
    /\ socket' = "live"
    /\ UNCHANGED <<pc, retry, result, triggers, jvm, signalVars, queue, answer, session,
                   dumped, gaveUp>>

ListenerFree == jvm = "up" /\ listener = "on" /\ queue # <<>> /\ session # "running"

\* The listener writes its answer to the first connection and goes on to the next.
Answer(number) ==
    /\ answer' = [answer EXCEPT ![Head(queue)] = number]
    /\ queue' = Tail(queue)
    /\ UNCHANGED <<pc, retry, result, fileVars, jvm, signalVars, listener, dumped, gaveUp>>

\* The JVM cannot load the library, or does not know the command.
Refuse == ListenerFree /\ Answer("error") /\ UNCHANGED session

\* The first Agent_OnAttach calls Agent_OnLoad, with ATTACH set: profile runs
\* on the listener.
BeginSession ==
    /\ ListenerFree /\ session = "none"
    /\ session' = "running"
    /\ UNCHANGED <<pc, retry, result, fileVars, jvm, signalVars, listener, queue, answer,
                   dumped, gaveUp>>

\* profile has returned, and with it Agent_OnAttach.
EndSession ==
    /\ jvm = "up" /\ session = "running"
    /\ session' = "over"
    /\ Answer("zero")

\* A later Agent_OnAttach finds jvmti set: it returns 0 and has done nothing.
LoadedAlready ==
    /\ ListenerFree /\ session # "none"
    /\ Answer("zero") /\ UNCHANGED session

\* A crash leaves the socket file behind, an orderly exit does not.
JvmExit ==
    /\ jvm = "up"
    /\ jvm' = "down"
    /\ socket' \in IF socket = "live" THEN {"none", "stale"} ELSE {socket}
    /\ signals' = {} /\ queue' = <<>>
    /\ UNCHANGED <<pc, retry, result, triggers, listener, answer, session, signalled,
                   dumped, gaveUp>>

-----------------------------------------------------------------------------
Client(c) ==
    \/ Start(c) \/ CreateCwd(c) \/ CreateTmp(c) \/ CannotCreate(c) \/ Kill(c)
    \/ Poll(c) \/ Unlink(c) \/ Connect(c) \/ ReadResponse(c)

Finished == (\A c \in Clients : pc[c] = "done") /\ UNCHANGED vars

Next ==
    \/ \E c \in Clients : Client(c)
    \/ \E c \in Clients : HandleSignal(c)
    \/ ListenerUp \/ Refuse \/ BeginSession \/ EndSession \/ LoadedAlready \/ JvmExit
    \/ Finished

Spec == Init /\ [][Next]_vars

\* Every client runs, and a free listener takes the next connection.  Nothing is
\* assumed of the session it runs: the text it waits for may never come.
FairSpec ==
    /\ Spec
    /\ \A c \in Clients : WF_vars(Client(c))
    /\ WF_vars(Refuse \/ BeginSession \/ LoadedAlready)

-----------------------------------------------------------------------------
\* Properties

TypeOK ==
    /\ pc \in [Clients -> {"start", "cwd", "tmp", "kill", "poll", "found", "timeout",
                           "connect", "read", "done"}]
    /\ retry \in [Clients -> 0..MaxTries]
    /\ result \in [Clients -> {"none", "ok", "fail"}]
    /\ triggers \subseteq {"cwd", "tmp"} /\ socket \in {"none", "stale", "live"}
    /\ jvm \in {"up", "down"} /\ listener \in {"off", "starting", "on"}
    /\ queue \in Seq(Clients) /\ answer \in [Clients -> {"none", "zero", "error"}]
    /\ session \in {"none", "running", "over", "loaded"}
    /\ signals \subseteq Clients /\ signalled \subseteq Clients
    /\ dumped \subseteq Clients /\ gaveUp \subseteq Clients

\* A client that reports success leaves no session behind it: the one of this
\* JVM has come to its end, whoever's command it was, unless the JVM was started
\* with the agent.  The answer of a JVM that goes away in the middle of a session
\* is no success, and the listener does not answer before profile has returned.
SuccessMeansSessionOver ==
    \A c \in Clients : result[c] = "ok" => session \in {"over", "loaded"}

\* The SIGQUIT of a client makes the JVM print a thread dump only when a client
\* has given up, or when another client has signalled too and was first to wake
\* the listener: nobody removes a trigger the JVM still has to find, so one
\* client alone that finds its listener never disturbs the program.
DumpOnlyAfterTimeoutOrRace ==
    \A c \in dumped : gaveUp # {} \/ signalled \ {c} # {}

\* A client comes to its end, with or without the JVM, or waits for ever for the
\* answer of a listener that is held by a session without end.
ClientsEnd ==
    \A c \in Clients :
        <>(pc[c] = "done") \/ <>[](pc[c] = "read" /\ session = "running" /\ jvm = "up")

\* When every client has ended, the trigger file in /tmp is gone, however their
\* calls have interleaved.  (The one in the working directory of the JVM stays:
\* nobody removes it.)
NoTmpTriggerLeft == (\A c \in Clients : pc[c] = "done") => "tmp" \notin triggers
=============================================================================
