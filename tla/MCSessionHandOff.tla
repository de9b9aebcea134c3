-------------------------- MODULE MCSessionHandOff --------------------------
(***************************************************************************)
(* Instances of SessionHandOff for TLC.                                    *)
(***************************************************************************)
EXTENDS SessionHandOff

CONSTANTS notes, game

Once == [apps |-> Apps, launches |-> 1, tells |-> 0, modes |-> 0, busies |-> 0,
         crashes |-> 0, covers |-> 0, faults |-> FALSE, hung |-> FALSE]

\* Two launches of an integrated and a fullscreen application in any order; one
\* launch with a change of mode, with work of its application, with a failing
\* start or with a cover that comes and goes; one with news for the launcher or
\* a crash, while the launcher may stop answering.
MCScenarios ==
    {[Once EXCEPT !.launches = 2],
     [Once EXCEPT !.modes = 1],
     [Once EXCEPT !.busies = 1],
     [Once EXCEPT !.faults = TRUE],
     [Once EXCEPT !.apps = {notes}, !.covers = 2],
     [Once EXCEPT !.tells = 1, !.hung = TRUE],
     [Once EXCEPT !.crashes = 1, !.hung = TRUE]}
=============================================================================
