------------------------------- MODULE MCFreq -------------------------------
(***************************************************************************)
(* The instance of Freq for TLC.                                           *)
(***************************************************************************)
EXTENDS Freq
=============================================================================
