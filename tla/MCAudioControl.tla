--------------------------- MODULE MCAudioControl ---------------------------
(***************************************************************************)
(* What audiod does for no stream in particular: the session's control link *)
(* (AudioControl, one process and two overlapping links), or the card       *)
(* (AudioOutput, periods of two frames).  The two share no state, so a      *)
(* behaviour is one of either with the other at rest: the state spaces are  *)
(* added, not multiplied.                                                   *)
(***************************************************************************)
EXTENDS AudioControl, AudioOutput

VARIABLE part  \* the component that moves

MCInit == part \in {"control", "output"} /\ Init /\ OutputInit

MCNext ==
    /\ UNCHANGED part
    /\ \/ part = "control" /\ Next /\ UNCHANGED outputVars
       \/ part = "output" /\ OutputNext /\ UNCHANGED vars

\* The fairness is AudioControl's.  A behaviour of the card, in which the link is
\* never served, does not have it and is checked for safety only.
MCSpec ==
    /\ MCInit /\ [][MCNext]_<<part, vars, outputVars>>
    /\ WF_vars(Dispatch) /\ WF_vars(Serve) /\ WF_vars(Tick)
=============================================================================
