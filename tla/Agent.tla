------------------------------- MODULE Agent -------------------------------
(***************************************************************************)
(* The agent as a whole: the option string (module Options) is taken while *)
(* the agent is loaded, sets up JVMTI as it goes, and what it leaves       *)
(* behind is what the session (module Session) is run with, and what       *)
(* Agent_OnUnload finds enabled.  Session alone starts with any options a  *)
(* string might leave; here they are the ones some string does leave.      *)
(***************************************************************************)
EXTENDS Session

VARIABLES
    string,     \* how the agent whose option string is being taken is loaded
    asked, interval, callbacks, events, heap    \* as in Options

jvmtiVars == <<callbacks, events, heap>>
optionVars == <<asked, interval, jvmtiVars>>
agentVars == <<vars, string, optionVars>>

Opt == INSTANCE Options

AgentInit == Init /\ Opt!Init /\ string = "none"

\* Agent_OnLoad has the string, from the command line or an attach request.
TakeString ==
    /\ string = "none" /\ ~jvmti /\ vm = "live"
    /\ string' \in {"command", "attach"}
    /\ UNCHANGED <<vars, optionVars>>

TakePair ==
    /\ string # "none" /\ vm = "live"
    /\ Opt!Next
    /\ UNCHANGED <<vars, string>>

\* The string is at its end: the id and the globals are those of the session.
EndString ==
    /\ \/ string = "command" /\ Agent_OnLoad(asked)
       \/ string = "attach" /\ ~jvmti /\ Agent_OnAttach(asked)
    /\ string' = "none"
    /\ UNCHANGED optionVars

\* A request to a JVM that has the agent: its string is not looked at, two do for all.
AttachAgain ==
    /\ jvmti /\ \E o \in {opts, NoOptions} : Agent_OnAttach(o)
    /\ UNCHANGED <<string, optionVars>>

RunProfile == Profile /\ UNCHANGED <<string, optionVars>>

\* disableAllEvents, and the end of the session.
Unload ==
    /\ Agent_OnUnload
    /\ events' = {}
    /\ UNCHANGED <<string, asked, interval, callbacks, heap>>

Outside ==
    /\ LoadReturns \/ Sample \/ MarkerWritten \/ VMExit \/ Stopped
    /\ UNCHANGED <<string, optionVars>>

AgentNext ==
    \/ TakeString \/ TakePair \/ EndString \/ AttachAgain
    \/ RunProfile \/ Unload \/ Outside

AgentSpec == AgentInit /\ [][AgentNext]_agentVars

\* The thread of profile() is an ordinary thread: the scheduler runs it.
FairAgentSpec == AgentSpec /\ WF_agentVars(RunProfile)

-----------------------------------------------------------------------------
\* Properties

\* Whatever sampling options the string has, in any order and number, a session
\* under way has the callbacks it needs, and their events are enabled: allocation
\* sampling those for allocations, with an interval, flame and method sampling
\* those for compiled methods.
SessionHasItsEvents ==
    (jvmti /\ vm = "live") =>
        /\ opts.id = 0 => "alloc" \in callbacks \cap events /\ heap # "unset"
        /\ opts.id \in {1, 4} => "compiled" \in callbacks \cap events

\* The agent does nothing a session of module Session does not do: every option
\* string leaves options that Session starts with.
ImplementsSession == Spec
=============================================================================
