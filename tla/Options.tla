------------------------------ MODULE Options ------------------------------
(***************************************************************************)
(* The option string of the agent: Agent_OnLoad takes its key=value pairs  *)
(* one after the other, do_single_options carries each out at once, and    *)
(* the id of the last pair that has one is the session that is profiled.   *)
(* The sampling options also register JVMTI callbacks, switch events on    *)
(* and set the heap sampling interval, with what the pairs before them     *)
(* have left; so the order of the pairs matters.                           *)
(*                                                                         *)
(* The string may have any pairs, in any order and number.  What it leaves *)
(* for the session is the record asked, as in module Session.  Keys that   *)
(* store a number or a name for later, and unknown keys, leave no trace.   *)
(***************************************************************************)
EXTENDS Integers

CONSTANT MaxRounds  \* bound: the largest action_n explored

VARIABLES
    asked,      \* what the pairs so far ask of the session
    interval,   \* SAMPLE_ALLOC_INTERVAL > 0
    callbacks,  \* the callbacks registered
    events,     \* the events enabled
    heap        \* the heap sampling interval: "unset", "default", "asked"

jvmtiVars == <<callbacks, events, heap>>
vars == <<asked, interval, jvmtiVars>>

Init ==
    /\ asked = [id |-> -1, n |-> 1, until |-> FALSE, log |-> FALSE, rule |-> "none"]
    /\ interval = FALSE
    /\ callbacks = {} /\ events = {} /\ heap = "unset"

AllocEvents(alloc) == IF alloc THEN {"alloc"} ELSE {}

\* registerCapa, registerCall (replaces every callback), enableEvent (adds to
\* the events) and the heap sampling interval.
setup_jvmti(alloc) ==
    /\ callbacks' = {"compiled"} \cup AllocEvents(alloc)
    /\ events' = events \cup {"compiled"} \cup AllocEvents(alloc)
    /\ heap' = IF interval THEN "asked" ELSE "default"

-----------------------------------------------------------------------------
\* do_single_options

log_file ==
    /\ asked' = [asked EXCEPT !.log = TRUE]
    /\ UNCHANGED <<interval, jvmtiVars>>

flame_NoFile ==
    /\ setup_jvmti(FALSE)
    /\ asked' = [asked EXCEPT !.id = 1]
    /\ UNCHANGED interval

\* Opens a file, whether there is one already or not.
flame ==
    /\ setup_jvmti(FALSE)
    /\ asked' = [asked EXCEPT !.id = 1, !.log = TRUE]
    /\ UNCHANGED interval

sample_thread ==
    /\ asked' = [asked EXCEPT !.id = 2]
    /\ UNCHANGED <<interval, jvmtiVars>>

sample_top_First ==
    /\ setup_jvmti(FALSE)
    /\ asked' = [asked EXCEPT !.id = IF @ = -1 THEN 4 ELSE @]
    /\ UNCHANGED interval

sample_top ==
    /\ setup_jvmti(FALSE)
    /\ asked' = [asked EXCEPT !.id = 4]
    /\ UNCHANGED interval

sample_alloc ==
    /\ setup_jvmti(TRUE)
    /\ asked' = [asked EXCEPT !.id = 0]
    /\ UNCHANGED interval

sample_alloc_interval ==
    /\ interval' = TRUE
    /\ UNCHANGED <<asked, jvmtiVars>>

\* Adds the lines of a file to the rules: none, field rules among them, or
\* method rules only.
config_rules ==
    /\ \E rule \in {"none", "field", "method"} :
          asked' = [asked EXCEPT !.rule = IF rule = "none" \/ @ = "field" THEN @ ELSE rule]
    /\ UNCHANGED <<interval, jvmtiVars>>

action_n ==
    /\ \E n \in 0..MaxRounds : asked' = [asked EXCEPT !.n = n]
    /\ UNCHANGED <<interval, jvmtiVars>>

start_until ==
    /\ asked' = [asked EXCEPT !.until = TRUE]
    /\ UNCHANGED <<interval, jvmtiVars>>

Next ==
    \/ log_file \/ flame \/ sample_thread \/ sample_top \/ sample_alloc
    \/ sample_alloc_interval \/ config_rules \/ action_n \/ start_until

Spec == Init /\ [][Next]_vars
=============================================================================
