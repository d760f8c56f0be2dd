---------------------------- MODULE MCRtspReader ----------------------------
(***************************************************************************)
(* A small instance of RtspReader; its constants are in the .cfg file.     *)
(***************************************************************************)
EXTENDS RtspReader
=============================================================================
