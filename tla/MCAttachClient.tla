--------------------------- MODULE MCAttachClient ---------------------------
(***************************************************************************)
(* The instance of AttachClient for TLC.                                   *)
(***************************************************************************)
EXTENDS AttachClient
=============================================================================
