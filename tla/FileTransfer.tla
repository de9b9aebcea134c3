---------------------------- MODULE FileTransfer ----------------------------
(***************************************************************************)
(* What a file operation promises about a power loss at any moment: the    *)
(* places at which the whole file would be found afterwards.  A copy only  *)
(* adds its destination, a move gives the source up no earlier than the    *)
(* destination holds the file, and only a removal may leave nothing.       *)
(***************************************************************************)
CONSTANTS Kinds

VARIABLES kind, places

vars == <<kind, places>>

Removing == {"MOVE", "RENAME"}

Init == kind \in Kinds /\ places = {"source"}

\* The file becomes durable at the destination.
Arrive == places = {"source"} /\ places' = {"source", "destination"}

\* The source goes, once the destination is durable.
Leave ==
    /\ kind \in Removing
    /\ places = {"source", "destination"} /\ places' = {"destination"}

\* Both at once: one atomic rename.
Pass == kind \in Removing /\ places = {"source"} /\ places' = {"destination"}

Remove == kind = "REMOVE" /\ places = {"source"} /\ places' = {}

Next == (Arrive \/ Leave \/ Pass \/ Remove) /\ UNCHANGED kind

Spec == Init /\ [][Next]_vars
=============================================================================
