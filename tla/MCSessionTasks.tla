--------------------------- MODULE MCSessionTasks ---------------------------
(***************************************************************************)
(* Instances of SessionTasks for TLC.                                      *)
(***************************************************************************)
EXTENDS SessionTasks

CONSTANTS files, viewer, game

Quiet == [apps |-> Apps, opens |-> Apps, busy |-> {}, launches |-> 2, closes |-> 0, documents |-> 0,
          crashes |-> 0, covers |-> {},
          faults |-> {"unreadable", "fails", "startup", "kill", "prepare"}]

\* Three applications, a fullscreen one among them, that start, park and
\* return; a document; a document whose handler restarts while its origin is
\* BUSY; a close preparation; a crash; covers.
MCScenarios ==
    {[Quiet EXCEPT !.apps = {files, game}, !.busy = {game}],
     [Quiet EXCEPT !.apps = {files}, !.opens = {files, viewer}, !.documents = 1],
     [Quiet EXCEPT !.apps = {files}, !.opens = {viewer}, !.busy = {files}, !.launches = 3,
                   !.documents = 1, !.faults = {"unreadable"}],
     [Quiet EXCEPT !.apps = {files}, !.closes = 1, !.crashes = 1],
     [Quiet EXCEPT !.apps = {files, game}, !.launches = 1,
                   !.covers = {"locked", "ringing"}, !.busy = {game}]}

\* The document goes to a fullscreen handler.
FullscreenScenario ==
    {[Quiet EXCEPT !.apps = {files, game}, !.documents = 1]}
=============================================================================
