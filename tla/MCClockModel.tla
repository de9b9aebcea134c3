---------------------------- MODULE MCClockModel ----------------------------
(***************************************************************************)
(* An instance of ClockModel for TLC: days of two units, weeks of two days. *)
(***************************************************************************)
EXTENDS ClockModel

MCSchedules == {Once(3), Weekly(0, {1}), Weekly(1, {0, 1})}

Calm == [edits |-> 2, others |-> 0, jumps |-> 0, failures |-> 0, restarts |-> 0]

\* Two reminders and what users do with them; one that wall clock settings,
\* failing storage and restarts meet.
MCScenarios ==
    {[Calm EXCEPT !.others = 2], [Calm EXCEPT !.others = 1, !.jumps = 1],
     [Calm EXCEPT !.jumps = 1, !.failures = 1, !.restarts = 1]}
=============================================================================
