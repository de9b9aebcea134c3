--------------------------- MODULE MCPtySupervisor ---------------------------
(***************************************************************************)
(* PtySupervisor with a few processes: with process IDs that wrapped, and  *)
(* with processes that leave the session.                                  *)
(***************************************************************************)
EXTENDS PtySupervisor
=============================================================================
