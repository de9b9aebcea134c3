--------------------------- MODULE MCAudioStreams ---------------------------
(***************************************************************************)
(* AudioStreams on small tables.                                           *)
(***************************************************************************)
EXTENDS AudioStreams
=============================================================================
