# A verification development of jBProF

jBProF (`src/profiler.cpp`) is a profiler for the JVM on Linux: a JVMTI agent
that samples threads and methods with eBPF, samples allocations with JVMTI,
measures and counts single methods with hardware breakpoints, and changes
fields of the running program by rules.  The same file has a `main` that asks a
running JVM to load the agent.  This directory holds TLA+ models of it, the TLC
configurations that check them on small instances, and theorems that TLAPS
checks for every value of their constants.  All line numbers without a file are
lines of `src/profiler.cpp`.

## 1. The system

### Components

| Component | State | Operations | Speaks to |
|---|---|---|---|
| **Session** (1213-1285, 626-663, 908-916) | `jvmti`, `ATTACH`, `UNTIL`, `BPF_INIT`, `out`, `out_perf`, the options, the kernel's table `counts` | `Agent_OnLoad`, `Agent_OnAttach`, `wait_until`, `StartBPF`, `StopBPF`, `StopAlloc`, `PrintBPF`, `Agent_OnUnload` | all the others; the JVM that loads and ends it; the kernel that samples |
| **Options** (917-987, 1030-1078) | the globals an option sets, JVMTI callbacks, events, sampling interval | `do_single_options`, `setup_jvmti` | Session reads what it leaves behind |
| **Top methods** (689-694, 770-851) | the table of a round, `mout`, `rmap`, `methods[]`, the results | `PrintTopMethods` | Session calls it; calls Latency and Counters; the results go to Rules |
| **Method latency** (215-262, 601-624, 741-768) | BPF tables `start`, `dist`; two breakpoints | `func_entry0`, `func_return0`, `LatencyMethod` | called for one method after the other; runs against the threads of the JVM |
| **Method counters** (216-240, 601-624, 695-740) | `top_counter`, `top_ret_counter`; 2n breakpoints | `inc`, `incr`, `CountMethods`, `PrintTopMethod(Ret)Count` | called in every round; runs against all CPUs |
| **Tuning rules** (479-519, 988-1029, 1098-1180) | `TUNE_RULES`, static fields of the program | `read_cfg`, `parse_cond`, `tune_all_fields`, `tune_static`, `exec_method` | gets the results of every round |
| **Allocation sampling** (535-555, 649-653, 893-907) | `MEM_MAP`, `ALLOC_SIZE_MAP`, `tree_lock` | `SampledObjectAlloc`, `StopAlloc`, `PrintAlloc` | runs on every allocating thread |
| **Attach client** (1287-1411) | trigger files, the socket file, retries | `main`, `create_attach_socket`, `connect_socket`, `read_response` | signal dispatcher and attach listener of the JVM |
| **Symbols** (570-592, 657-659, 770-797, 908-987, 1262-1276) | `SYM_MAP`, `out_perf` with its buffer and the file behind it | `CompiledMethodLoad`, `DynamicCodeGenerated`, the events of `setup_jvmti`, the flush of `StopBPF`, the naming of rows, `closeAllFiles` | callbacks on the threads of the JVM; read by the reports; file closed by Session |
| **Formatting, name decoding** (373-478, 664-688, 852-892) | none | `decode_class_signature`, `PrintThread`, `PrintFlame` | called by the reports |
| **CPU frequency utility** (`freq/freq.c` 40-52, 152-175) | the array of a node's CPUs | `get_node_cpus`, the loops of `main` | nothing: a program of its own, run beside the profiler |
| **Tuner prototypes, flame graph script, examples** | none used by the profiler | | nothing |

### What is hard about it

* *Two lives of one thread.*  With `-agentpath` the session is a detached
  thread beside the JVM, in attach mode it is the JVM's attach listener.  Only
  the first runs into `Agent_OnUnload`, which closes the files under it.
* *Rounds.*  `action_n` repeats a session whose reports were written for one:
  some close the log, which may be stdout, some clear their tables, some do neither.
* *Breakpoints against running threads.*  They are set and removed, CPU after CPU,
  while the program runs into them, recursively, from several callers, and any of
  the attach calls may be refused; the program goes on regardless.
* *Tables that outlive a measurement.*  `start` and the counters are never
  cleared.
* *Callbacks on foreign threads* for allocations and compiled methods, with one
  lock for one of three maps, and reports that take none: nodes are inserted into
  trees that others insert into and iterate over.
* *A handshake by files and a signal* between several clients and a JVM that
  may be slow, gone, or held by a session that never ends.
* *Order.*  Options act as they are met: a sampling option registers callbacks
  and switches events on with what the pairs before it have set, and replaces
  every callback of the ones before it.
* *Names.*  An address gets its name from what callbacks have written, into a map
  without a lock and into a file that another library reads; code comes and goes
  meanwhile, and at the end the file is closed under the callbacks.

### What makes each component correct

* Session: the sampling event is on only in a window; no round begins before
  the marker; a report tells the samples of its own window; no stream is used or
  closed after it was closed; a JVM runs one session; a session ends.
* Options: whatever the string, the session that is chosen has its events; with
  the session, the agent does what a session of its options does.
* Symbols: all code is announced; a row gets the name of its method; a name is not
  lost between the look-up and its use; at the end of the JVM only callbacks that
  were already running meet the closed file.
* Top methods: a printed sum is never more than was sampled; nothing that was
  left out is larger than what is shown; a name stands for one result, the largest
  sum or the latency of its first method; what is monitored are the first lines.
* Latency: an entry is recorded at most once; a record is not more than the call
  took, when its entry was trapped; the number handed to the rules bounds the window.
* Counters: never more than the hits of the breakpoint; the registers go to the
  first methods; nothing is left on the CPUs after a round.
* Rules: no field leaves the bounds; a threshold means what it says, up to the
  rounding of the histogram.
* Allocation sampling: no increment is lost, the report is consistent, a
  callback ends.  The code keeps this for the rows of `MEM_MAP`, and of the rest only
  what the properties say.
* Attach client: success means that the session it asked for is over; a client ends;
  it leaves nothing behind and does not disturb the others, nor the program.
* CPU frequency: a CPU is shown once, under its node; the array of a node is long enough.

## 2. Modules

| Module | Models | Checked by | Proved in |
|---|---|---|---|
| `Windows` | abstract: what a session promises | refined by `Session` | `SessionProofs` |
| `Session` | life cycle, rounds, streams, end of the JVM | in `Agent`, refined by it | `SessionProofs` |
| `Options` | the option string and JVMTI set-up | in `Agent` | in `SessionProofs` |
| `Agent` | composition: `Options` fills in what `Session` runs with | `MCSession` | `SessionProofs` |
| `Symbols` | callbacks, `SYM_MAP`, perf map, names of rows | `MCSymbols` | `SymbolsProofs` |
| `TopMethods` | the merge, the report, what is monitored | `MCTopMethods` | `TopMethodsProofs` |
| `Latency` | breakpoints, `start`, `dist` and call stacks | `MCLatency` | `LatencyProofs` |
| `CountMethods` | counters of several CPUs over rounds | `MCCountMethods` | `CountMethodsProofs` |
| `Rules` | conditions, thresholds, clamped steps | `MCRules` | `RulesProofs` |
| `AllocSampling` | callbacks, monitor, report | `MCAllocSampling` | `AllocSamplingProofs` |
| `AttachClient` | clients, trigger files, socket, JVM | `MCAttachClient` | `ProgramsProofs` |
| `Freq` | the utility's way through the NUMA nodes | `MCFreq` | `ProgramsProofs` |

A module keeps the names of the code where it can: a variable that is a global
has the name of the global, an action the name of the function, and `PROJECT.json`
("map") gives the lines of every definition.  A definition whose name ends in
`_Something` behind the name of another is a variant of it with a bug one could
have written; none is part of a specification.

**Session.**  `pc` is where `profile()` is.  `Agent_OnLoad`/`Agent_OnAttach` set
the globals and go to sleep; `Poll` and `WaitUntil` are `wait_until`; `StartBPF`
begins a round, `Sample` is the kernel running `do_perf_event_*`, `StopBPF` ends
the window, one action for each report follows, then `TuneAllFields`.
`Agent_OnUnload` and `VMExit` may come at any moment the JVM allows.  A use of a
closed stream, a second `fclose` and a `JNIEnv` on another thread are collected
in `faults`, and the execution goes on: what such a use does is undefined, so
the properties say when none has happened.  There are three streams: the log file,
stdout and the perf map.  `out` is stdout when no log file was given (1080), and
`cout` writes through stdout too, so a report that closes `out` (686, 905) takes it
from every later `cout`: that of each round (`StartBPF`), of the rules
(`TuneAllFields`), of the return of `Agent_OnLoad` (`LoadReturns`) and of
`Agent_OnUnload`.  The count table is the number of samples in it.  `wait_until`
holds back the rounds, not the sampling of allocations, which JVMTI does from the
option on (1047).  `Agent_OnLoad` does not look at `jvmti`; the guard of the action
is the assumption that the command line names the library once.

**Latency.**  Threads are call stacks; a return is trapped only when the call
came from the caller the return breakpoint belongs to, which is what a
breakpoint on a sampled return address does.  An attach or a detach for all CPUs
takes two steps; in between the breakpoint is armed `"partly"`, and a thread that
comes to it is trapped or not.  Either attach may fail.  Histories tell the records
that differ from what the call took (`inexact`).  The
histogram is exact, with `bpf_log2l` of BCC as one more than the logarithm
rounded down (`Log2`, by its definition), and `Exp2` the power `LatencyMethod`
prints for a slot.

**CountMethods.**  An attach may be refused for want of a register or of a function,
or for a reason of the kernel's own (`refused`).  `inc` is a load (`Hit`) and a store (`Store`) on a CPU.
Positions of methods are chosen anew in each round, as each round has its own
report.  That CPUs are armed one after the other makes no difference here: a hit
counts from the first CPU on, and a hit on a CPU not yet armed is none.

**TopMethods.**  The table is any sorted sequence of rows; a row has an address,
a name and a count.  Names are free, because symbol resolution may change while
`SYM_MAP` grows.  Behind the report comes the monitoring: `Count` is the call of
`CountMethods`, `MeasureTop` one call of `LatencyMethod` for `lat_top` (which clears
the results and fills them with latencies), `MeasureNamed` all calls for `lat_name`,
whose results are dropped.  `PrintRow` takes the entry the reverse iterator has come
to (`Entry`): by count, and by address from the last one where counts are equal.  An
element of `methods[]` that was not assigned has the name of an empty string; behind
the N elements of the array any name may be read (`NamesAt`).  A sampled method may
itself have the empty name.

**Rules.**  A rule is a record of its parts; `parse_cond` gives the vector the
code builds, and its length decides, as it does there.  Fields are read and
written in two steps, between which the program may assign them.  The width of
an `int` is a constant (`MaxInt`), and a step by 0 or by a negative number is one a
file may ask for: a division by 0 ends the process (`Divide`).  With `lat_top` a
result is what `LatencyMethod` returned: `Report` picks for each method listed a
number recorded and what is said of it (`Readings`), 0 of none and else the end of
its slot, the least end above it (`InSlot`).  How a number recorded compares with
what a call took is not said here but in `Latency`.  The ends of the slots are a
constant of which only the doubling is assumed (`SlotEnds`).

**AllocSampling.**  Both maps are trees: a set of nodes and a count for each.
`operator[]` finds a node (`FindSize`, `IndexRow`) or inserts one (`MissSize` to
`InsertSize`, `InsertRow`), and then the count is loaded and stored.  Of `MEM_MAP` all
of it happens under `tree_lock`, of `ALLOC_SIZE_MAP` nothing: increments get lost, and
once two insertions have overlapped (`damaged`) any nodes may, or may not be found.
The key of `ALLOC_SIZE_MAP` is an `int`, to which the `jlong` is cut (`Key`).  The
report walks both maps without a lock while callbacks go on: its iterator goes to the
next node, unless a callback is inserting; then it may get to any node or to the end
(`RowSteps`, `torn`).  `sampled` and `ofSize` are histories: the objects the callbacks
have counted exactly, by row, and begun to count, by key.  The map that `PrintAlloc`
returns, a copy, is not used by anyone, and is left out.

**AttachClient.**  `CreateCwd` and `CreateTmp` are the two `creat` calls, both
made when the first one succeeds: `close(fd) == 0` in the condition at 1318 is
true then.  As `path` is assigned again in place, `cpath` names the file in
`/tmp` from there on.  `ReadResponse` knows what the client knows: whether bytes have
come, and the number they begin with.  The JVM's side is the attach protocol of
HotSpot: on SIGQUIT it looks for a trigger only while it has no listener, and prints a
thread dump when it finds none or has a listener already (`HandleSignal`).  The
listener answers the command that starts a session only when `profile()` has returned
(`BeginSession`, `EndSession`), which may be never; a later command finds the agent
loaded and is answered at once (`LoadedAlready`); a command that cannot be executed
is answered with an error (`Refuse`).

**Options and Agent.**  One action of `Options` for each key that changes control or
JVMTI state (`log_file`, `flame`, `sample_top`, ...); a string is any sequence of
them, of any length, and what it has asked for so far is the record `asked`.  Keys
that only store a number or a name leave no trace in it.  `Agent` extends `Session`
with these variables: `TakeString` and `TakePair` are `Agent_OnLoad` going through
the string, `EndString` hands `asked` to the session, `Unload` adds
`disableAllEvents` to `Agent_OnUnload`.  `Session` alone starts with any options a
string might leave; `ImplementsSession` shows that the strings leave no others.

**Symbols.**  `Compile`, `DynamicCodeGenerated` and `CompiledMethodUnload` are the
JVM's code cache; a callback about code may be put off (`pending`) and runs on any
thread in three steps: the line is printed (`PrintLine`), the store into `SYM_MAP`
begins (`StartStore`) and ends (`EndStore`).  `EnableEvent`, `GenerateEvents` and
`EndSetup` are the part of `setup_jvmti` that has the callbacks repeated for the
code there is; `StopBPF` flushes and `Detach` ends the sampling, so rows may come in
between; `Spill` is the buffer of the stream when it is full.  A row has a user stack,
only a kernel stack, or none, as `get_stackid` may fail for each.  A report takes each
row with `Find`, then `NameFromMap` or `NameFromStack`; in the latter a row without a
stack gets no name, one with only a kernel stack that of a kernel function.
What overlapping accesses to the tree do is undefined: once two have overlapped
(`damaged`), any entries may be missing from then on.

**Freq.**  A machine is a function from nodes to sets of CPUs, and the process may run
on any of these (`allowed`); the program asks only how many.  `Node` fills the
array of a node, `Cpu` shows an element; a write behind the array ends in
`"undefined"`, from where nothing is claimed.

## 3. Runs and what they show

Every bound is a CONSTANT of the module it bounds, or a named set of the MC
module.  Deadlock is checked everywhere: a state in which a system has come to
its end has an explicit stuttering action (`Stopped`, `Finished`), so a TLC
deadlock is a real one.

| Run | Instance | Shows |
|---|---|---|
| `session` | `Agent`: any option string, from the command line or attached, all five session kinds, 3 rounds, 1 sample in a window, fair | *safety*: the event is attached only in a window; no round before the marker; a method report has exactly the samples of its window, a thread or flame report those of all windows so far; the profile thread and `Agent_OnUnload` of an attached method session use no closed stream and no foreign `JNIEnv`; which sessions alone may use a closed stream while the JVM runs (second round of a flame or thread session, field rule after a thread report, and where `out` is stdout any rule of a thread session and the end of `Agent_OnLoad` after a thread or allocation report); one session in a JVM; the session selected has its callbacks and events whatever precedes it.  *Refinement*: `Agent` implements `Session`, a method session implements `Windows`.  *Liveness*: a session whose marker appears ends, or the process does |
| `top_methods` | every sorted table of up to 4 rows over 3 addresses, 2 names of which one is empty, counts 1 and 2, N up to 2; `count_top` and `lat_top` 0 or 2, `lat_name` none or one name, latencies 0 and 1 | sums lie between the largest row and the total, and are exact when nothing is cut; what is left out is no larger than what is shown; a name stands for the largest sum, or for the latency measured first; what is monitored are the first lines, and was set if there are as many |
| `latency` | 2 threads, 2 methods, recursion up to 2 frames, 2 trapped entries, a table of 1 slot | no entry is recorded twice, across windows, with a full table and with refused and partly armed breakpoints; a call trapped on entry is never recorded with more than it took; the returned number belongs to its window |
| `counters` | 3 methods, 6 breakpoints for 2 registers, functions for 2 methods, 2 CPUs, 2 rounds, 2 hits, with symmetry | counters never exceed the hits, nothing is left attached between rounds, the registers go to the first methods in both rounds, whatever else is refused |
| `counters_rounds` | 1 CPU, 2 rounds | violated: a round prints the hits of the rounds before |
| `rules` | 10 rules, 3 fields, every report of 3 names with 0, 400 and 1100 recorded, 2 rounds, `MaxInt` 2047 | fields stay within the bounds given, with an assigning program; a latency rule is off by at most a factor of two from the latency recorded, and fires without a record |
| `rules_unit` | the rules of `tune.cfg` | violated: `T:java>99` fires at 50 |
| `alloc` | 2 threads, 2 rows of which 1 watched, 2 sizes in `int`s of 6 bits, 3 callbacks, 1 line of sizes, fair | rows are exact; the counts of sizes are lower bounds, key by key, of which none is missing unless insertions overlapped; the report is consistent with a moment between its start and its end unless its iterator moved during an insertion; a callback ends unless it searches in a damaged tree |
| `symbols` | 2 threads (one loads the agent), 2 addresses, 2 methods, 3 pieces of code, 1 window with 1 row of any stack, with symmetry | rows get the names of their methods, from either source; an empty name is that of a row without a source; no method is missing; only callbacks in flight meet the closed file |
| `symbols_rules` | the same, without symmetry | violated: a name found in `SYM_MAP` is one the rules know |
| `freq` | every machine of 6 CPUs on up to 3 nodes, the process on any set of them | exactly the machines without equal shares overrun an array; a run that ends has shown each of as many CPUs as the process has, from 0 on, once; a CPU is shown under its node only |
| `attach` | 2 clients, 3 polls, fair | success means that the session is over; the JVM dumps threads only if a client gave up or the other one has signalled too; no trigger is left in `/tmp`; clients end, or wait for a session without end |

*Why the bounds are enough.*  The second round is the first that meets what
another one left behind; the third shows that it does not add up differently.
Two threads (CPUs, callbacks) are what a lost update needs, one slot for two
threads what a full table needs.  Of two clients one can remove the trigger that both
have created, be first to wake the listener, and be served while the other waits; with
three polls a signal may arrive before, between and after them.  One more address than N (3 for
2) fills the report, and the fourth row is a caller that comes after it is
full.  Two registers for six breakpoints and functions for two of three methods
are fewer than needed, as four for six and five for more are in the code; with a
breakpoint refused otherwise, a register goes to a later method.  Two insertions at once, of
two keys, are what a damaged tree needs (one size is cut to the key of a smaller one
and the other to a negative key); the third callback comes when it is damaged.
Three pieces of code for two addresses give one address a second method while the
other still has its first, and two threads are what an overlap in `SYM_MAP` needs;
a second window or row would add only what is already possible with one, as the rows of
a report leave nothing behind but the map.  One sample in a window tells a table that
is cleared from one that is not, as every window may have it or not.  Six CPUs on
three nodes have equal, unequal and empty nodes, and shares that do not divide.  An `int`
of twelve bits overflows with the factors used, as the real one does with
larger ones.

*Fairness.*  `Agent`: weak fairness of `RunProfile`, the steps of one ordinary
thread, of which one at a time is enabled; nothing is assumed of the marker, of
samples or of the JVM.  `AllocSampling`: weak fairness of a callback that has
begun; weak is enough because the callbacks are bounded, so the monitor is not
taken for ever by others.  `AttachClient`: weak fairness of each client, and of
a free listener taking the next connection; nothing is assumed of the session that
`Agent_OnAttach` runs on it, whose `wait_until` may poll for ever (1206), which is
why `ClientsEnd` has this as the second way.  A client needs no fairness of the
signal: its polls are bounded.

### Disagreements

Three runs check what the documents say and are violated: `symbols_rules`,
`rules_unit` and `counters_rounds`; `PROJECT.json` ("findings") quotes the lines.  Other disagreements seen while modelling, which
the models contain and whose statements are not run:

* A thread session of an agent closes the log, and `Agent_OnUnload` closes it
  again (`Session`: `faults` contains "close" in an unloaded JVM).  Without
  `log_file` it is the stdout of the JVM that is closed (686, 905), and the agent's own
  `cout` goes on through it (1163, 1269): `LiveUseOfClosedStream` lists the sessions.
* `LatencyMethod` prints the bound of a slot as `>` (`README.md:54`, 762), and it
  is above every latency in the slot (`MaxLatBoundsWindow`).
* A class of the default package whose name begins with the letter of a primitive
  type is decoded as that type (outside the models, see section 6).
* A call that enters where the breakpoint is not armed yet, or no more, is recorded
  with the time since an older entry of its thread, when there is one in `start`, from
  its own window or an earlier one (765 clears `dist` only): hence
  `TrappedCallsNotOverstated` says *trapped*.
* A client that was not first to wake the listener makes the JVM print its threads,
  although the attach succeeds (1327): hence the second case of
  `DumpOnlyAfterTimeoutOrRace`.
* Allocations are sampled before the text of `start_until` has come (1047 and 1223).
* A row of which no stack was got, and whose address is not in `SYM_MAP`, is printed
  with an empty name (786-793; `method.log:14` has one).
* The frequency utility shows the first CPUs, which need not be those of the process
  (`freq/freq.c:152`), and overruns its array on a machine with a node of memory only.
* The trigger file in the working directory of the JVM is never removed; see
  `NoTmpTriggerLeft`.  `run.sh:5` removes it by hand.
* The rules of `README.md:82` have no `M:`, and `vec_cond[1]` is then behind the
  end of the vector (action `OutOfRange`); their `x4` is an unknown operation and
  would set the field to 0 (503).
* A rule with a threshold fires for a method of which no call was recorded (1167).
* `ALLOC_SIZE_MAP` loses increments and nodes (548), unlike the equal numbers of
  `alloc.log:2` and `alloc.log:7`.
* The walk of the table stops before the last callers of a printed method (807),
  in spite of the comment at 805; two addresses with one name are two lines,
  in spite of the comment at 801.
* `count_top=3` (`README.md:34`) counts two methods.
* `sample_method` (`README.md:33`) and `rule_cfg` (`README.md:75`) are not keys
  of the code; `README.md:63` gives the interval behind the option that reads it.

## 4. Proofs

TLAPS proves every safety property that a passing run checks, and both refinements,
for all values of the constants that satisfy the assumptions in the modules (threads,
CPUs, rows, rules, machines and option strings of any size, any bounds; threads, CPUs and clients are
finitely many where they are counted).  No theorem has a hypothesis beyond the specification.  The assumptions say only what kind of
value a constant is: a set of numbers, a finite set of threads, ends of slots that
double, at least one round.  A condition that limits what is promised (`Tame`,
`damaged`, `torn`, a row without a stack) stands in the property itself, where the runs
check the same.

**`SessionProofs`.**  `TypeCorrect`, `SamplingSafe`, `MarkerSafe`,
`ReportsFresh`, `ReportsAccumulate`, `AttachedClean`, `LoadedOnce`, `LiveUse`,
`Refinement`, and of the agent `EventsThere` and `AgentRefinement`.  The invariant
`IInv` adds to the properties what they rest on: before the first round there
are neither samples nor reports, and none for a round to come (`Beginning`);
without the agent there is no session (`Unloaded`); in method mode the table
holds the samples of the window not yet reported, and nothing between windows
(`MethodWindow`), which is why a report is fresh; in the thread and flame modes it
holds what the last report counted and the samples since, and no round so far is
without its report (`OtherWindow`), which is why the reports accumulate;
`wait_until` is not over before the marker (`Waiting`); the streams of a method session
are open until `Agent_OnUnload`, which an attached one meets only at its end
(`StreamsOpen`).  One lemma for each conjunct has a step for each action.  `LiveUse`
needs one more, `LogOpen`: while the JVM runs the perf map is open, and stdout is where
there is a log file; an allocation session whose `out` is closed is done, and a flame or
thread session is past its first report, so its next window is at least the second.
`AttachedClean` is about the threads of the model, that of `profile()` and the one that
ends the JVM; the callbacks that may meet the closed perf map are the matter of
`LateOnlyInFlight` below.  The refinement maps a method session to the windows and every
other kind to a system that never opens one; with `IInv` each action is `Open`,
`Sample`, `Close`, `Report` or a stutter.

The two theorems about the agent hold for option strings of any length.  `AInv`: what
was asked for so far is a record of `Options`, what the last sampling option needs is
set up as long as the JVM runs, no string is taken once there is a session, and the
session has what its string asked for.  The first conjunct is what makes the end of a
string a step of `Session`; the second holds although a sampling option replaces all
callbacks, because each of them registers at least what it needs itself and events are
only added.

**`TopMethodsProofs`.**  `SumsBounded`, `OmittedSmall`, `FirstResult`,
`MonitoredSet`, for tables of any length.  The number of samples of a method is the
cardinality of the set of its samples (`SamplesIn`: pairs of a row and a number), so
that sums need no recursion: a row passed adds a disjoint set (`SamplesStep`).
`Merged`: the entries are the methods of the rows passed, each with its samples in
them; when the walk ends the table is at its end or `mout` has N + 1 entries.  As the
table is sorted, the first row of a method is its largest (`LargestIsFirst`), so the
rows not reached are no larger than any of the entries, which gives `OmittedSmall`,
and every sum has its largest row in it.  `Printed`: what has been printed comes
before what is left, and `methods[]` is its beginning; `Summed` and `Measured` say
what the results are before and after `lat_top` clears them.

**`LatencyProofs`.**  `EntriesBoundRecords`: `records` plus the slots in use is at
most `entries`; a return empties a slot when it counts.  The proof is about
cardinalities of finite sets.  `TrappedNotOverstated`: an entry time in `start`,
however old, is not earlier than the entry of any trapped frame of its thread, and
later only if a frame further in was trapped (`TimesInv`, `Covers`).  So the difference
is never more than a trapped call took, whatever methods and windows have been before
and wherever a breakpoint was armed.  Of a frame that was not trapped nothing of the
kind holds.  The lemmas `Pushed` and `Popped` say what calls and returns do to the
frames.  `TypeCorrect` needs the
second invariant too: no recorded time is negative.  `MaxLatWithinTwo`: the longest
time of the window is in the highest slot used, and nothing of the windows before is
left in `dist` (`WindowInv`), because 765 clears it.  What a slot means is proved from
the definitions: `Exp2` exists and doubles (`Iteration`, `Exp2Values`), every time
has exactly one slot, whose end is above it and not above its double (`SlotEnds`), and
longer times have higher slots (`SlotsOrdered`).

**`RulesProofs`.**  `BoundsHold`: with `Within(f, v)` (v lies between two values
the field was given) and its like for the value read, `tune` keeps a value within
(`TuneStays`), by a case for each operation.  The premise `Tame` of the property is
needed: with an overflow or an unknown operation a field does leave the bounds.
`WithinTwo`: a result is 0 for a 0 recorded and else the end of the slot of what was
recorded (`Read`), and of the lines that `tune_all_fields` has passed exactly those have
fired whose condition the results meet (`Decided`); the lines skipped, fired and still
to come are told apart by `NextPassed`.  Then a latency rule is a comparison of the
slot's end with the threshold (`Comparison`), and the end is above the number and, as
slots double, at most twice it (`SlotWithinTwo`).
`TypeCorrect` needs nothing beyond `IInv` but the shape of a report (`ReportTypes`).

**`AllocSamplingProofs`.**  `ExactRows`: whoever has the monitor is the only one
between its load and its store, and what it has loaded is still the count.
`ReportConsistent`, `TypeCorrect`: `Printed` says that, unless the iterator was moved
during an insertion, the rows printed so far are not behind it, and that no count is
below what it was when the report began.  The next node is the smallest behind the
iterator, so rows are different and no node with a count is passed over; an insertion
by a callback before or behind the iterator changes neither.  `SizesLowerBounds`, for
the map without a lock: for each key, what is in the map plus the callbacks still to
count is at most the objects with it, and so is what a callback has loaded plus those
still to count, itself included; and while no insertions have overlapped a key that
some callback has counted is in the map (`SizeCounts`).  The second is what keeps a
late store of an old value from inventing an object.  A lost node only takes counts
away, which is why the upper bound holds in a damaged tree too.

**`CountMethodsProofs`.**  `NeverOverstated`: a counter plus the CPUs that are
incrementing it is at most its hits, and the value a CPU has loaded is at most
the counter; hits of one breakpoint never reach another counter.
`RegistersFreed`, `FirstCounted`, `TypeCorrect`: in `Registers`, a breakpoint the loop
has come past is attached, or missing for one of the reasons there are (`Missing`):
refused, without a function, or when as many are attached as there are registers, all
of them of its own method or one before (`StillMissing`: it stays so in the rest of
the loop); on the way back only those from the step on are left.

**`SymbolsProofs`.**  `NamesRight`, `AllAnnounced`, `NamesNotEmpty`,
`LateOnlyInFlight`.  `SInv` says how the three places that know a name agree: code
with a callback to come or running stays (`Pinned`); what a callback has printed is
in the buffer or the file (`Printed`); code is still to be repeated, or about to be
announced, or in one of the two (`Covered`), which is `EveryMethodAnnounced` when
the repeating is over; everything said about an address is a method it has had
(`Lived`); an undamaged map has the newest code of every quiet address (`Fresh`) and
keeps what `Find` has found (`MapSound`); what a report owes a name is in the file
(`Owed`); after `disableAllEvents` no callback begins (`InFlight`).  `Lived` and
`Owed` give the names that come from the perf map, for rows with a user stack,
`Fresh` those from the map, for all.

**`ProgramsProofs`**, about the two programs beside the agent.  Of the attach client
`TypeCorrect`, `SuccessAfterSession`, `DumpAfterTimeout`, `TmpClean`, for any number of
clients and polls.  `CInv`: who is to poll has polls left (`TriesLeft`); with the
trigger file in `/tmp` there is a client that will remove it (`Owner`); with a stale
socket nobody wakes the listener (`SocketState`); until the listener starts or a client
gives up, the file is there for every signal sent or about to be sent (`TriggerThere`);
a client signals once (`SignalOnce`), and a listener that was not there from the start
was woken by a signal that is handled (`WokenBySignal`); no answer is 0 before a
session is over (`SessionHeld`).  `TriggerThere` is why clients may share one file: a
client removes it when it has found the socket, and then the listener is on.  The
signal of a slower client then makes the JVM dump its threads, by `WokenBySignal` one
of at least two.

Of the frequency utility `WholeMachine` and `OnTheirNodes`, for every machine and every
set of CPUs of the process.  The ranks of the CPUs in a bitmask are the positions 0, 1,
... and no two are equal (`Ranks`), so an array that is long enough holds each of them
(`Arrays`).  `FInv`: each node passed was shown with those of its CPUs that the bitmask
has and had no more than an equal share, and where one had less, so have all nodes up
to here together (`NodesShown`); and the same of the part of the present one
(`CpusShown`).  The nodes are disjoint, so behind the last one the CPUs of the bitmasks
are at most the shares; they are the first `n_cpus`, and the shares are never more than
these: both are equal, every node had its share, and nothing else was shown.

*How induction is done.*  The library's induction theorems take an operator as a
parameter, which the provers cannot fill in.  Where a proof needs induction it is done
over sets instead: a set of numbers has a smallest element (`Smallest`, from the
well-foundedness of <), so one that has 0, and n + 1 with every n, has all
(`Induction`).

What the external parts do is assumed as section 5 gives it.

*Model-checked only.*  Liveness, which is out of the prover's reach:
`SessionCompletes`, `ClientsEnd`, `CallbacksEnd`.  The three runs that are violated
are counterexamples and prove nothing in general.

## 5. What is taken from outside the repository

* HotSpot calls `Agent_OnUnload` of an agent on its command line, and of an
  attached one once `Agent_OnAttach` has returned; its attach listener serves one
  request after the other; on SIGQUIT it looks for a trigger file in its working
  directory and in `/tmp` and starts the listener, or else prints a thread dump; it
  ignores the signal while the listener starts, and dumps its threads when it is on.
* The agent library is given once on the command line: `Agent_OnLoad` does not look
  whether it has been called before.
* The JVM delivers an event only while it is enabled; it keeps code about which a
  callback is put off or running; `GenerateEvents` repeats the callbacks for the
  code that still exists when it comes to it, on the calling thread, before it
  returns.
* BCC names an address by the perf map as it is in the file, and where several
  lines have the address it may be any of them.
* libstdc++: an iterator goes to the smallest key behind its own, `operator[]` inserts
  what it does not find; two changes of a tree at once, or a step of an iterator during
  one, may leave any nodes out, and that entries are not invented is assumed.
* libnuma: the bitmask of a node is as long as it was allocated, and what does not
  fit is cut off; nodes are numbered from 0 to the largest without gaps.
* BCC: `get_hash_table` of a program that was not loaded throws;
  `attach_perf_event` refuses an event that is attached; `bpf_log2l` is the
  logarithm rounded down, plus one; a breakpoint whose function does not exist is
  refused (there are five of each).
* The kernel has four breakpoint registers on a CPU (x86), and waits for a
  running BPF function before an event is gone.
* An uncaught exception ends the process.  `int` overflow wraps, as compiled.

## 6. What is not modelled, and why

* `fopen` that fails: the stream is NULL and faults at its first use.
* A `std::map` under concurrent insertion: `AllocSampling` and `Symbols` model the
  nodes that are lost and the iterator that goes astray, neither a crash nor a search
  that never ends (for which `CallbacksEnd` makes an exception).
* Floats: `tune_float` is modelled as the same steps on numbers.
* Formatting, JNI look-ups, decoding of names, parsing of numbers.
* How `freq.c` reads a frequency (sysfs, MSR registers): numbers only.
* The tuner prototypes (`tuner/`) are experiments on floating point matrices that
  the profiler does not use; the flame graph script is a vendored one, run by hand
  on the log; the examples are programs to be profiled.

## 7. Plan

The order was by what matters most: Session with its abstraction and proofs;
Latency; Attach client; Rules; Allocation; Top methods; Counters; Options and their
composition with the session; Symbols; the CPU frequency utility.  Left:

1. A composition of a method round: `TopMethods` hands `methods[]` to
   `CountMethods` and `Latency`, and the results to `Rules`.  Abstract
   specification: what a round promises to the rules.  Today each of the four takes
   what the one before it may hand over as a free choice.
2. The decoding of class names (a class in the default package whose name begins
   with a type letter).
