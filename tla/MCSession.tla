----------------------------- MODULE MCSession -----------------------------
(***************************************************************************)
(* The instance of Agent for TLC: its constants are in the configuration.  *)
(***************************************************************************)
EXTENDS Agent
=============================================================================
