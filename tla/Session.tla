------------------------------ MODULE Session ------------------------------
(***************************************************************************)
(* One profiling session of the agent inside the JVM: how it is started    *)
(* (Agent_OnLoad, Agent_OnAttach), the rounds of profile() that attach the *)
(* sampling event, sleep, detach it, report the kernel's count table and   *)
(* apply the tuning rules, and how it meets the shutdown of the JVM        *)
(* (Agent_OnUnload).                                                       *)
(*                                                                         *)
(* In agent mode profile() runs on a detached thread, beside the JVM; in   *)
(* attach mode it runs on the JVM's attach listener, which serves no other *)
(* request before it returns.  The kernel samples the JVM whenever the     *)
(* event is attached.  Data is abstracted to what the properties tell      *)
(* apart: the count table to the number of samples it holds, a report to   *)
(* the number of samples it was made from, the rules to whether one of     *)
(* them can fire and what kind of action it has.                           *)
(***************************************************************************)
EXTENDS Integers

CONSTANTS
    MaxRounds,   \* bound: the largest action_n explored
    MaxSamples   \* bound: the samples taken in one window

ASSUME BoundsAssumption == MaxRounds \in Nat \ {0} /\ MaxSamples \in Nat

VARIABLES
    jvmti,      \* jvmti != NULL: the agent has been loaded into this JVM
    ATTACH,     \* loaded by an attach request
    opts,       \* the globals the options leave behind
    loading,    \* Agent_OnLoad has been called and has not returned yet
    vm,         \* "live", "unloaded" (Agent_OnUnload ran), "exited", "aborted"
    pc,         \* where the thread of profile() is
    round,      \* the windows started so far
    UNTIL,      \* FALSE while wait_until has to poll its file
    marker,     \* the text of start_until is in that file
    BPF_INIT,   \* bpf.init has been called
    loaded,     \* ... and has succeeded
    attached,   \* the sampling event is attached
    counts,     \* the samples held by the kernel's "counts" table
    taken,      \* history: the samples taken, by window
    reports,    \* history: the samples each report was made from, by window
    open,       \* the open streams, of "stdout", "log" and "perf"
    faults      \* history: the undefined operations that were executed

loadVars  == <<jvmti, ATTACH, opts, loading>>
bpfVars   == <<BPF_INIT, loaded, attached, counts, taken>>
vars == <<jvmti, ATTACH, opts, loading, vm, pc, round, UNTIL, marker, BPF_INIT, loaded,
          attached, counts, taken, reports, open, faults>>

\* The kinds of session, as do_single_options numbers them.
Ids      == {-1, 0, 1, 2, 4}
Rounds   == 1..MaxRounds
NoReport == -1
Streams  == {"stdout", "log", "perf"}
Faults   == {"write",   \* fprintf or fflush on a closed stream
             "close",   \* fclose of a closed stream
             "jni"}     \* the JNIEnv of another thread

(***************************************************************************)
(* What the option string leaves behind: the id of the last sampling       *)
(* option, TUNING_N, whether start_until was given, whether `out' is a     *)
(* file, and the tuning rules: none, method rules only, or with field      *)
(* rules among them.  "flame" always opens a file.                         *)
(***************************************************************************)
Options == {o \in [id : Ids, n : 0..MaxRounds, until : BOOLEAN, log : BOOLEAN,
                   rule : {"none", "field", "method"}] : o.id = 1 => o.log}
NoOptions == [id |-> -1, n |-> 1, until |-> FALSE, log |-> FALSE, rule |-> "none"]

Out == IF opts.log THEN "log" ELSE "stdout"

\* What a use of a stream adds to the faults.  cout writes through stdio's stdout,
\* which a report closes when it is what `out' stands for.
Write(s) == IF s \in open THEN {} ELSE {"write"}
Close(s) == IF s \in open THEN {} ELSE {"close"}

Alive == vm \in {"live", "unloaded"}

Init ==
    /\ jvmti = FALSE /\ ATTACH = FALSE /\ opts = NoOptions /\ loading = FALSE
    /\ vm = "live" /\ pc = "none" /\ round = 0
    /\ UNTIL = TRUE /\ marker = FALSE
    /\ BPF_INIT = FALSE /\ loaded = FALSE /\ attached = FALSE /\ counts = 0
    /\ taken = [r \in Rounds |-> 0]
    /\ reports = [r \in Rounds |-> NoReport]
    /\ open = {"stdout"} /\ faults = {}

-----------------------------------------------------------------------------
\* Loading the agent

\* InitFile and the options up to sleep(WAIT); the caller has set ATTACH.
Load(o) ==
    /\ jvmti' = TRUE
    /\ opts' = o
    /\ loading' = TRUE
    /\ UNTIL' = ~o.until
    /\ open' = open \cup {"perf"} \cup (IF o.log THEN {"log"} ELSE {})
    /\ pc' = "sleep"

\* java -agentpath: the JVM loads the agent before anything else happens.  The
\* code does not look at jvmti here: that the library is given only once on the
\* command line is an assumption about the environment.
Agent_OnLoad(o) ==
    /\ vm = "live" /\ ~jvmti
    /\ Load(o)
    /\ UNCHANGED <<ATTACH, vm, round, marker, bpfVars, reports, faults>>

\* The attach listener is free: it is started when the agents of the command line
\* have been loaded, and no request is being served on it.
ListenerFree == vm = "live" /\ ~loading

Agent_OnAttach_Reload(o) ==
    /\ ListenerFree
    /\ ATTACH' = TRUE
    /\ Load(o)
    /\ UNCHANGED <<vm, round, marker, bpfVars, reports, faults>>

\* A second request to the same JVM returns at once.
Agent_OnAttach(o) ==
    /\ ListenerFree
    /\ \/ jvmti /\ UNCHANGED vars
       \/ /\ ~jvmti
          /\ ATTACH' = TRUE
          /\ Load(o)
          /\ UNCHANGED <<vm, round, marker, bpfVars, reports, faults>>

\* sleep(WAIT) is over: profile() is called, or its thread started.
StartProfile ==
    /\ Alive /\ pc = "sleep"
    /\ pc' = "wait"
    /\ UNCHANGED <<loadVars, vm, round, UNTIL, marker, bpfVars, reports, open, faults>>

\* The last line of Agent_OnLoad: after profile() in attach mode, beside its
\* thread in agent mode.
LoadReturns ==
    /\ vm = "live" /\ loading
    /\ IF ATTACH THEN pc = "done" ELSE pc # "sleep"
    /\ loading' = FALSE
    /\ faults' = faults \cup Write("stdout")
    /\ UNCHANGED <<jvmti, ATTACH, opts, vm, pc, round, UNTIL, marker, bpfVars,
                   reports, open>>

-----------------------------------------------------------------------------
\* wait_until

Poll_Inverted ==
    /\ Alive /\ pc = "wait" /\ ~UNTIL
    /\ ~marker
    /\ UNTIL' = TRUE
    /\ UNCHANGED <<loadVars, vm, pc, round, marker, bpfVars, reports, open, faults>>

\* file_search: the text is in the file.
Poll ==
    /\ Alive /\ pc = "wait" /\ ~UNTIL
    /\ marker
    /\ UNTIL' = TRUE
    /\ faults' = faults \cup Write("stdout")
    /\ UNCHANGED <<loadVars, vm, pc, round, marker, bpfVars, reports, open>>

WaitUntil_NoPoll ==
    /\ Alive /\ pc = "wait"
    /\ pc' = "round"
    /\ UNCHANGED <<loadVars, vm, round, UNTIL, marker, bpfVars, reports, open, faults>>

WaitUntil ==
    /\ Alive /\ pc = "wait" /\ UNTIL
    /\ pc' = "round"
    /\ UNCHANGED <<loadVars, vm, round, UNTIL, marker, bpfVars, reports, open, faults>>

-----------------------------------------------------------------------------
\* The rounds of profile()

StartBPF_OffByOne ==
    /\ Alive /\ pc = "round" /\ opts.id # 0 /\ round <= opts.n
    /\ round' = round + 1
    /\ BPF_INIT' = TRUE
    /\ loaded' \in IF BPF_INIT THEN {loaded}
                   ELSE IF opts.id \in {1, 2, 4} THEN BOOLEAN ELSE {FALSE}
    /\ attached' \in IF loaded' /\ ~attached THEN BOOLEAN ELSE {attached}
    /\ faults' = faults \cup Write("stdout")
    /\ pc' = "sampling"
    /\ UNCHANGED <<loadVars, vm, UNTIL, marker, counts, taken, reports, open>>

\* bpf.init runs once, whatever its outcome; the event is attached when the
\* program was loaded, has a function for this id, the event is not attached
\* already, and the kernel permits it.
StartBPF ==
    /\ Alive /\ pc = "round" /\ opts.id # 0 /\ round < opts.n
    /\ round' = round + 1
    /\ BPF_INIT' = TRUE
    /\ loaded' \in IF BPF_INIT THEN {loaded}
                   ELSE IF opts.id \in {1, 2, 4} THEN BOOLEAN ELSE {FALSE}
    /\ attached' \in IF loaded' /\ ~attached THEN BOOLEAN ELSE {attached}
    /\ faults' = faults \cup Write("stdout")
    /\ pc' = "sampling"
    /\ UNCHANGED <<loadVars, vm, UNTIL, marker, counts, taken, reports, open>>

\* The kernel runs do_perf_event_* for a thread of the profiled process.  The
\* allocations JVMTI samples are in module AllocSampling.
Sample ==
    /\ Alive /\ attached
    /\ taken[round] < MaxSamples
    /\ counts' = counts + 1
    /\ taken' = [taken EXCEPT ![round] = @ + 1]
    /\ UNCHANGED <<loadVars, vm, pc, round, UNTIL, marker, BPF_INIT, loaded,
                   attached, reports, open, faults>>

StopBPF_NoDetach ==
    /\ Alive /\ pc = "sampling"
    /\ faults' = faults \cup Write("perf")
    /\ pc' = "print"
    /\ UNCHANGED <<loadVars, vm, round, UNTIL, marker, BPF_INIT, loaded, counts,
                   attached, taken, reports, open>>

\* The window is over: flush the perf map, detach the event.
StopBPF ==
    /\ Alive /\ pc = "sampling"
    /\ faults' = faults \cup Write("perf")
    /\ attached' = FALSE
    /\ pc' = "print"
    /\ UNCHANGED <<loadVars, vm, round, UNTIL, marker, BPF_INIT, loaded, counts,
                   taken, reports, open>>

StopAlloc ==
    /\ Alive /\ pc = "round" /\ opts.id = 0
    /\ faults' = faults \cup Write("stdout") \cup Write("perf")
    /\ pc' = "print"
    /\ UNCHANGED <<loadVars, vm, round, UNTIL, marker, bpfVars, reports, open>>

\* The loop of profile() ends.
EndProfile ==
    /\ Alive /\ pc = "round" /\ opts.id # 0 /\ round >= opts.n
    /\ pc' = "done"
    /\ UNCHANGED <<loadVars, vm, round, UNTIL, marker, bpfVars, reports, open, faults>>

-----------------------------------------------------------------------------
\* The reports

Printing(id) == Alive /\ pc = "print" /\ opts.id = id

\* get_hash_table of a program that was never loaded throws, and nobody
\* catches: the process is terminated.
NoTable ==
    /\ \E id \in {1, 2, 4} : Printing(id)
    /\ ~loaded
    /\ vm' = "aborted"
    /\ UNCHANGED <<loadVars, pc, round, UNTIL, marker, bpfVars, reports, open, faults>>

Reported ==
    /\ reports' = [reports EXCEPT ![round] = counts]
    /\ pc' = "tune"

PrintFlame ==
    /\ Printing(1) /\ loaded
    /\ Reported
    /\ faults' = faults \cup (IF counts > 0 THEN Write(Out) ELSE {}) \cup Close(Out)
    /\ open' = open \ {Out}
    /\ UNCHANGED <<loadVars, vm, round, UNTIL, marker, bpfVars>>

PrintThread_Clears ==
    /\ Printing(2) /\ loaded
    /\ Reported
    /\ counts' = 0
    /\ faults' = faults \cup Write(Out) \cup Close(Out)
    /\ open' = open \ {Out}
    /\ UNCHANGED <<loadVars, vm, round, UNTIL, marker, BPF_INIT, loaded, attached, taken>>

PrintThread ==
    /\ Printing(2) /\ loaded
    /\ Reported
    /\ faults' = faults \cup Write(Out) \cup Close(Out)
    /\ open' = open \ {Out}
    /\ UNCHANGED <<loadVars, vm, round, UNTIL, marker, bpfVars>>

PrintTopMethods_KeepsTable ==
    /\ Printing(4) /\ loaded
    /\ Reported
    /\ faults' = faults \cup Write("stdout") \cup Write(Out)
    /\ UNCHANGED <<loadVars, vm, round, UNTIL, marker, bpfVars, open>>

PrintTopMethods_ClosesLog ==
    /\ Printing(4) /\ loaded
    /\ Reported
    /\ counts' = 0
    /\ faults' = faults \cup Write("stdout") \cup Write(Out) \cup Close(Out)
    /\ open' = open \ {Out}
    /\ UNCHANGED <<loadVars, vm, round, UNTIL, marker, BPF_INIT, loaded, attached,
                   taken>>

\* The only report that clears the table and leaves the log open.
PrintTopMethods ==
    /\ Printing(4) /\ loaded
    /\ Reported
    /\ counts' = 0
    /\ faults' = faults \cup Write("stdout") \cup Write(Out)
    /\ UNCHANGED <<loadVars, vm, round, UNTIL, marker, BPF_INIT, loaded, attached,
                   taken, open>>

\* Nothing is written when nothing was allocated and no class is watched.
PrintAlloc ==
    /\ Printing(0)
    /\ \E written \in BOOLEAN :
          faults' = faults \cup (IF written THEN Write(Out) ELSE {}) \cup Close(Out)
    /\ open' = open \ {Out}
    /\ pc' = "done"
    /\ UNCHANGED <<loadVars, vm, round, UNTIL, marker, bpfVars, reports>>

\* No sampling option was given: PrintBPF has no case for the id.
PrintNothing ==
    /\ Printing(-1)
    /\ pc' = "tune"
    /\ UNCHANGED <<loadVars, vm, round, UNTIL, marker, bpfVars, reports, open, faults>>

\* tune_all_fields: print_vector shows every rule on cout, whatever the report.  A
\* rule can fire when the report has rows to match; then it uses the JNIEnv of the
\* loading thread, and a field rule also writes to the log.
TuneAllFields ==
    /\ Alive /\ pc = "tune"
    /\ \E fires, logs \in BOOLEAN :
          /\ fires => opts.rule # "none" /\ opts.id \in {2, 4} /\ reports[round] > 0
          /\ logs => fires /\ opts.rule = "field"
          /\ faults' = faults \cup (IF opts.rule # "none" THEN Write("stdout") ELSE {})
                              \cup (IF fires /\ ~ATTACH THEN {"jni"} ELSE {})
                              \cup (IF logs THEN Write(Out) ELSE {})
    /\ pc' = "round"
    /\ UNCHANGED <<loadVars, vm, round, UNTIL, marker, bpfVars, reports, open>>

-----------------------------------------------------------------------------
\* The environment: the watched file, and the end of the JVM

MarkerWritten ==
    /\ Alive /\ ~marker
    /\ marker' = TRUE
    /\ UNCHANGED <<loadVars, vm, pc, round, UNTIL, bpfVars, reports, open, faults>>

\* Agent_OnUnload: the JVM ends.  It calls the agents it has registered, those
\* that have been loaded: the one on the command line is loaded before the JVM
\* runs, an attached one when Agent_OnAttach has returned.  Closes both files,
\* whatever profile() does.
Agent_OnUnload ==
    /\ vm = "live" /\ jvmti /\ ~loading
    /\ vm' = "unloaded"
    /\ faults' = faults \cup Write("stdout") \cup Close(Out) \cup Close("perf")
    /\ open' = open \ {Out, "perf"}
    /\ UNCHANGED <<loadVars, pc, round, UNTIL, marker, bpfVars, reports>>

VMExit ==
    /\ \/ vm = "unloaded"
       \/ vm = "live" /\ (jvmti => ATTACH /\ loading)
    /\ vm' = "exited"
    /\ UNCHANGED <<loadVars, pc, round, UNTIL, marker, bpfVars, reports, open, faults>>

Stopped == ~Alive /\ UNCHANGED vars

Profile ==
    \/ StartProfile \/ Poll \/ WaitUntil
    \/ StartBPF \/ StopBPF \/ StopAlloc \/ EndProfile
    \/ NoTable \/ PrintFlame \/ PrintThread \/ PrintTopMethods \/ PrintAlloc
    \/ PrintNothing \/ TuneAllFields

Next ==
    \/ \E o \in Options : Agent_OnLoad(o) \/ Agent_OnAttach(o)
    \/ LoadReturns
    \/ Profile
    \/ Sample
    \/ MarkerWritten
    \/ Agent_OnUnload \/ VMExit \/ Stopped

Spec == Init /\ [][Next]_vars

\* The thread of profile() is an ordinary thread: the scheduler runs it.
FairSpec == Spec /\ WF_vars(Profile)

-----------------------------------------------------------------------------
\* Invariants

TypeOK ==
    /\ jvmti \in BOOLEAN /\ ATTACH \in BOOLEAN /\ loading \in BOOLEAN
    /\ opts \in Options \cup {NoOptions}
    /\ vm \in {"live", "unloaded", "exited", "aborted"}
    /\ pc \in {"none", "sleep", "wait", "round", "sampling", "print", "tune", "done"}
    /\ round \in 0..MaxRounds
    /\ UNTIL \in BOOLEAN /\ marker \in BOOLEAN
    /\ BPF_INIT \in BOOLEAN /\ loaded \in BOOLEAN /\ attached \in BOOLEAN
    /\ counts \in Nat
    /\ taken \in [Rounds -> Nat]
    /\ reports \in [Rounds -> Nat \cup {NoReport}]
    /\ open \in SUBSET Streams
    /\ faults \in SUBSET Faults

\* The sampling event is attached only while profile() sleeps in a window: a
\* round never finds the event of the previous round still attached
\* (attach_perf_event would refuse it), and no session leaves one behind.
SamplingOnlyInWindow == attached => pc = "sampling"

\* With start_until, no session of any kind comes to its rounds before the text is
\* in the file: no window opens, no eBPF sample is taken and no report is made.
\* Allocations are not held back: JVMTI samples them from the option on, and only
\* their report waits.
RoundsWaitForMarker ==
    (opts.until /\ ~marker) =>
        /\ pc \in {"sleep", "wait"}
        /\ \A r \in Rounds : taken[r] = 0 /\ reports[r] = NoReport

\* Method mode: every report is made from the samples of its own window, and
\* from all of them, however many rounds have run before.
MethodReportsAreFresh ==
    opts.id = 4 => \A r \in Rounds : reports[r] # NoReport => reports[r] = taken[r]

\* What the report of a round has counted; nothing before the first.
Counted(r) == IF r = 0 THEN 0 ELSE reports[r]

\* Thread and flame modes never clear the count table: a report of theirs counts
\* the samples of its own window on top of all that the report before it counted.
OtherReportsAccumulate ==
    opts.id \in {1, 2} =>
        \A r \in Rounds : reports[r] # NoReport =>
            /\ Counted(r - 1) # NoReport
            /\ reports[r] = Counted(r - 1) + taken[r]

\* The thread of profile() and Agent_OnUnload, in an attached session in method
\* mode: they write to no closed stream, close none twice and use no JNIEnv of
\* another thread, whatever the rules do and however the JVM ends.  JVMTI's callbacks
\* run on threads of their own, and may well write to the closed map (Symbols).
AttachedMethodThreadIsClean == (ATTACH /\ opts.id \in {-1, 4}) => faults = {}

\* While the JVM runs, a closed stream is used only in these sessions: a flame or
\* thread session in its second round; a thread session whose field rule writes to
\* the log its report has closed; and, where that log is stdout, a thread session
\* with any rules, or a thread or allocation session when Agent_OnLoad returns.
\* A stream is closed again only in the second round of flame and thread sessions.
LiveUseOfClosedStream ==
    vm = "live" =>
        /\ "write" \in faults =>
              \/ opts.id \in {1, 2} /\ round >= 2
              \/ opts.id = 2 /\ opts.rule = "field"
              \/ opts.id = 2 /\ ~opts.log /\ opts.rule # "none"
              \/ opts.id \in {0, 2} /\ ~opts.log /\ ~loading
        /\ "close" \in faults => opts.id \in {1, 2} /\ round >= 2

-----------------------------------------------------------------------------
\* Steps and liveness

\* A JVM runs at most one session: a request that finds the agent loaded
\* changes neither its options nor where it is.
OneSession == [][pc # "none" => opts' = opts /\ (pc' = "sleep" => pc = "sleep")]_vars

\* A session whose marker appears, or that waits for none, comes to its end
\* unless the process ends first.
SessionCompletes ==
    (pc # "none" /\ (UNTIL \/ marker)) ~> (pc = "done" \/ ~Alive)

-----------------------------------------------------------------------------
\* In method mode a session implements the windows of module Windows; a session
\* of another kind is one without windows.

Method == opts.id = 4

W == INSTANCE Windows WITH
        window  <- IF Method THEN round ELSE 0,
        isOpen  <- Method /\ pc = "sampling",
        sampled <- [r \in Rounds |-> IF Method THEN taken[r] ELSE 0],
        report  <- [r \in Rounds |-> IF Method THEN reports[r] ELSE NoReport]

ImplementsWindows == W!Spec
=============================================================================
