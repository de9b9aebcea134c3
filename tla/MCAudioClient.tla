---------------------------- MODULE MCAudioClient ----------------------------
(***************************************************************************)
(* An application's side of the audio service: its calls (AudioClient, with *)
(* two streams) or one stream's ring of a few frames (AudioRing).  The two  *)
(* share no state, so a behaviour is one of the other component at rest:    *)
(* the state spaces are added, not multiplied.                              *)
(***************************************************************************)
EXTENDS AudioClient, AudioRing

VARIABLE part  \* the component that moves

MCInit ==
    /\ part \in {"calls", "ring"}
    /\ Init /\ RingInit
    /\ part = "calls" => ~audible /\ ~busy

MCNext ==
    /\ UNCHANGED part
    /\ \/ part = "calls" /\ Next /\ UNCHANGED ringVars
       \/ part = "ring" /\ RingNext /\ UNCHANGED vars

\* Fairness of the ring asks nothing of a ring at rest.
MCSpec == MCInit /\ [][MCNext]_<<part, vars, ringVars>> /\ Fairness
=============================================================================
