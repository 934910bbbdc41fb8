------------------------------ MODULE Windows ------------------------------
(***************************************************************************)
(* What a sampling session promises, without streams, threads, kernel      *)
(* tables or shutdown: windows open one after the other, events are        *)
(* sampled while a window is open, and the report of a window gives the    *)
(* number of events sampled in that window, whatever the windows before    *)
(* it have counted.  Session implements it in method mode.                 *)
(***************************************************************************)
EXTENDS Integers

CONSTANTS MaxRounds,   \* bound: the windows of a session
          NoReport     \* the report of a window that has none yet

VARIABLES window,      \* the last window opened, 0 before the first
          isOpen,      \* TRUE while that window is open
          sampled,     \* the events sampled, by window
          report       \* what was reported, by window

vars == <<window, isOpen, sampled, report>>

Rounds == 1..MaxRounds

Init ==
    /\ window = 0
    /\ isOpen = FALSE
    /\ sampled = [r \in Rounds |-> 0]
    /\ report = [r \in Rounds |-> NoReport]

Open ==
    /\ ~isOpen
    /\ window < MaxRounds
    /\ window > 0 => report[window] # NoReport
    /\ window' = window + 1
    /\ isOpen' = TRUE
    /\ UNCHANGED <<sampled, report>>

Sample ==
    /\ isOpen
    /\ sampled' = [sampled EXCEPT ![window] = @ + 1]
    /\ UNCHANGED <<window, isOpen, report>>

Close ==
    /\ isOpen
    /\ isOpen' = FALSE
    /\ UNCHANGED <<window, sampled, report>>

Report ==
    /\ ~isOpen
    /\ window > 0
    /\ report[window] = NoReport
    /\ report' = [report EXCEPT ![window] = sampled[window]]
    /\ UNCHANGED <<window, isOpen, sampled>>

Next == Open \/ Sample \/ Close \/ Report

Spec == Init /\ [][Next]_vars
=============================================================================
