------------------------------- MODULE MCFiles -------------------------------
(***************************************************************************)
(* The file manager: one operation on a file of a few chunks with a few      *)
(* retries (FilesOperation), or the UI and its worker with a pipe that fills *)
(* up (FilesJob).  The two share no state, so a behaviour is one of either   *)
(* with the other at rest: the state spaces are added, not multiplied.      *)
(***************************************************************************)
EXTENDS FilesOperation, FilesJob

VARIABLE part  \* the component that moves

MCInit ==
    /\ part \in {"operation", "job"}
    /\ Init /\ JobInit
    /\ part = "job" => action = "COPY" /\ one_device

MCNext ==
    /\ UNCHANGED part
    /\ \/ part = "operation" /\ Next /\ UNCHANGED jobVars
       \/ part = "job" /\ JobNext /\ UNCHANGED vars

\* Fairness of the worker and the UI asks nothing of a job at rest.
MCSpec == MCInit /\ [][MCNext]_<<part, vars, jobVars>> /\ Fairness
=============================================================================
