---------------------------- MODULE PtySupervisor ----------------------------
(***************************************************************************)
(* The terminal's PTY supervisor                                           *)
(* (alpine/aports/fplinux-terminal/terminal-pty-supervisor.c) and the      *)
(* terminal's side of it (terminal-pty.c): the supervisor waits for its    *)
(* shell or its owner to end, then empties the shell's session by walks of *)
(* /proc, while the processes of the session fork, exit, leave the session *)
(* and reap each other, and finally reports the shell's status.            *)
(*                                                                         *)
(* The processes and the kernel are external.  A walk looks at one process *)
(* ID at a time, in ascending order, and may fail to open /proc.  getsid   *)
(* and kill are two steps: the process may change, or the ID be given to   *)
(* another, in between.  A killed process dies some time later.            *)
(***************************************************************************)
EXTENDS Naturals

CONSTANTS
    MaxPid,     \* process IDs, of which the shell gets the first
    MaxForks,   \* bound: forks of the session's processes
    AnyPid,     \* process IDs wrapped: a fork gets any free one, not the next
    Escapes,    \* processes may leave the session with setsid()
    Faults      \* opendir("/proc") may fail after main() has tried it

ASSUME PidAssumption ==
    /\ MaxPid \in Nat \ {0} /\ MaxForks \in Nat
    /\ AnyPid \in BOOLEAN /\ Escapes \in BOOLEAN /\ Faults \in BOOLEAN

Pids == 1 .. MaxPid
Shell == 1
Supervisor == 0

VARIABLES
    \* the processes
    proc, forks, escaped,    \* escaped: a process has left the session
    \* the supervisor: where it is, its walk (aim: getsid(cursor) was the
    \* shell's, kill is next), SIGCHLD in the signalfd
    pc, cursor, aim, count, status, sigchld,
    blind,                   \* history: the walk that ended the sweeps saw nothing
    \* the report pipe and the owner pipe
    reports, owner,
    \* fplinux_terminal_pty_finished: where it is and what it returned
    gui, received

processes == <<proc, forks, escaped>>
supervisor == <<pc, cursor, aim, count, status, blind>>
vars == <<processes, supervisor, sigchld, reports, owner, gui, received>>

NoProcess == [state |-> "free", session |-> FALSE, parent |-> Supervisor]

Init ==
    /\ proc = [p \in Pids |-> NoProcess] /\ forks = 0 /\ escaped = FALSE
    /\ pc = "start" /\ cursor = 1 /\ aim = FALSE /\ count = 0
    /\ status = "none" /\ sigchld = FALSE /\ blind = FALSE
    /\ reports = "none" /\ owner = TRUE
    /\ gui = "starting" /\ received = "none"

-----------------------------------------------------------------------------
(* The kernel and the session's processes *)

Exists(p) == proc[p].state # "free"
Runs(p) == proc[p].state = "running"

\* A process dies: its children, dead or alive, go to the subreaper.
Dead(ps, p) ==
    [q \in Pids |->
        IF q = p THEN [ps[p] EXCEPT !.state = "zombie"]
        ELSE IF ps[q].parent = p THEN [ps[q] EXCEPT !.parent = Supervisor]
        ELSE ps[q]]

\* The supervisor has a new zombie to wait for.
Wakes(ps, p) ==
    \/ sigchld
    \/ ps[p].parent = Supervisor
    \/ \E q \in Pids : ps[q].parent = p /\ ps[q].state = "zombie"

Fork(p) ==
    /\ Runs(p) /\ forks < MaxForks
    /\ \E q \in Pids :
           /\ ~Exists(q)
           /\ AnyPid \/ \A r \in Pids : Exists(r) => r < q
           /\ q = Shell => \A r \in Pids : ~proc[r].session
           /\ proc' = [proc EXCEPT ![q] = [state |-> "running", parent |-> p,
                                           session |-> proc[p].session]]
    /\ forks' = forks + 1
    /\ UNCHANGED <<escaped, supervisor, sigchld, reports, owner, gui, received>>

\* By itself, or killed.
Exit(p) ==
    /\ proc[p].state \in {"running", "dying"}
    /\ proc' = Dead(proc, p) /\ sigchld' = Wakes(proc, p)
    /\ UNCHANGED <<forks, escaped, supervisor, reports, owner, gui, received>>

\* A process waits for its own child.
Wait(p) ==
    /\ proc[p].state = "zombie" /\ proc[p].parent \in Pids /\ Runs(proc[p].parent)
    /\ proc' = [proc EXCEPT ![p] = NoProcess]
    /\ UNCHANGED <<forks, escaped, supervisor, sigchld, reports, owner, gui, received>>

\* A process leaves for a session of its own.  The shell leads one and cannot;
\* what is given its ID later does not (its session would have the shell's number).
Setsid(p) ==
    /\ Escapes /\ Runs(p) /\ p # Shell /\ proc[p].session
    /\ proc' = [proc EXCEPT ![p].session = FALSE] /\ escaped' = TRUE
    /\ UNCHANGED <<forks, supervisor, sigchld, reports, owner, gui, received>>

-----------------------------------------------------------------------------
(* The supervisor *)

\* start_shell; READY only once the shell has its own session.
StartShell ==
    /\ pc = "start"
    /\ \/ /\ proc' = [proc EXCEPT ![Shell] =
                         [state |-> "running", parent |-> Supervisor, session |-> TRUE]]
          /\ pc' = "check" /\ reports' = "READY"
       \/ pc' = "failed" /\ reports' = "ERROR" /\ UNCHANGED proc
    /\ UNCHANGED <<forks, escaped, cursor, aim, count, status, blind, sigchld, owner, gui, received>>

Orphans(ps) == {p \in Pids : ps[p].state = "zombie" /\ ps[p].parent = Supervisor}
Reaped(ps, dead) == [p \in Pids |-> IF p \in dead THEN NoProcess ELSE ps[p]]

\* shell_exited: waitid names the exited children in any order, and the
\* shell is not reaped here.
ShellExited ==
    /\ pc = "check"
    /\ \E dead \in SUBSET (Orphans(proc) \ {Shell}) :
           /\ proc' = Reaped(proc, dead)
           /\ IF Shell \in Orphans(proc)
              THEN pc' = "hup"
              ELSE pc' = "poll" /\ dead = Orphans(proc)
    /\ UNCHANGED <<forks, escaped, cursor, aim, count, status, blind, sigchld, reports, owner,
                   gui, received>>

\* poll returns for SIGCHLD, which is drained, or for the owner's EOF.
PollIgnores ==
    /\ pc = "poll" /\ (sigchld \/ ~owner)
    /\ sigchld' = FALSE
    /\ pc' = (IF owner THEN "poll" ELSE "hup")
    /\ UNCHANGED <<processes, cursor, aim, count, status, blind, reports, owner, gui, received>>

Poll ==
    /\ pc = "poll" /\ (sigchld \/ ~owner)
    /\ sigchld' = FALSE
    /\ pc' = (IF owner THEN "check" ELSE "hup")
    /\ UNCHANGED <<processes, cursor, aim, count, status, blind, reports, owner, gui, received>>

Lives(p) == proc[p].state \in {"running", "stopped"}

\* SIGKILL to a set of processes.
Killed(ps, hit) == [p \in Pids |-> IF p \in hit THEN [ps[p] EXCEPT !.state = "dying"] ELSE ps[p]]

\* What kill() does to the process that has the ID now, if any.  SIGHUP may be
\* ignored.
Signalled(p, walk) ==
    \/ walk = "hup" /\ Runs(p) /\ proc' = Dead(proc, p)
    \/ walk = "stop" /\ Runs(p) /\ proc' = [proc EXCEPT ![p].state = "stopped"]
    \/ walk = "kill" /\ Lives(p) /\ proc' = Killed(proc, {p})
    \/ ~(walk = "stop" /\ Runs(p)) /\ ~(walk = "kill" /\ Lives(p)) /\ UNCHANGED proc

\* signal_session at the process ID cursor: getsid, then kill, unless the walk
\* only counts.  Zombies are counted too.
Look(walk) ==
    /\ pc = walk /\ ~aim /\ cursor <= MaxPid
    /\ IF Exists(cursor) /\ proc[cursor].session
       THEN /\ count' = count + 1
            /\ IF walk = "count"
               THEN cursor' = cursor + 1 /\ UNCHANGED aim
               ELSE aim' = TRUE /\ UNCHANGED cursor
       ELSE cursor' = cursor + 1 /\ UNCHANGED <<aim, count>>
    /\ UNCHANGED <<processes, pc, status, blind, sigchld, reports, owner, gui, received>>

Kill(walk) ==
    /\ pc = walk /\ aim
    /\ Signalled(cursor, walk)
    /\ aim' = FALSE /\ cursor' = cursor + 1
    /\ UNCHANGED <<forks, escaped, pc, count, status, blind, sigchld, reports, owner, gui, received>>

\* After its last ID the walk is over.
WalkEnds(walk, next) ==
    /\ pc = walk /\ ~aim /\ cursor > MaxPid
    /\ pc' = next /\ cursor' = 1 /\ count' = 0
    /\ UNCHANGED <<processes, aim, status, blind, sigchld, reports, owner, gui, received>>

\* opendir failed, and signal_session returns -1.
Unread(walk) == Faults /\ pc = walk /\ ~aim /\ cursor = 1 /\ count = 0

\* SIGHUP and SIGSTOP are sent to nobody.
WalkSkipped(walk, next) ==
    /\ Unread(walk)
    /\ pc' = next
    /\ UNCHANGED <<processes, cursor, aim, count, status, blind, sigchld, reports, owner, gui,
                   received>>

\* SIGKILL goes to the shell's process group, where some of the session may be,
\* and to whoever has the shell's ID.
KillGroup ==
    /\ Unread("kill")
    /\ \E group \in SUBSET {p \in Pids : Lives(p) /\ proc[p].session} :
           proc' = Killed(proc, group \cup {p \in {Shell} : Lives(p)})
    /\ pc' = "reap"
    /\ UNCHANGED <<forks, escaped, cursor, aim, count, status, blind, sigchld, reports, owner,
                   gui, received>>

\* The sweeps end when the walk that counts could not look.
SweepBlind ==
    /\ Unread("count")
    /\ pc' = "final" /\ blind' = TRUE
    /\ UNCHANGED <<processes, cursor, aim, count, status, sigchld, reports, owner, gui, received>>

\* reap_available: every waitable child.  The status is that of the last one with
\* the shell's ID, which is the shell only the first time.
ReapAvailable(from, next) ==
    /\ pc = from
    /\ proc' = Reaped(proc, Orphans(proc))
    /\ status' = (IF Shell \notin Orphans(proc) THEN status
                  ELSE IF status = "none" THEN "real" ELSE "reused")
    /\ pc' = next
    /\ UNCHANGED <<forks, escaped, cursor, aim, count, blind, sigchld, reports, owner, gui, received>>

\* close_session sweeps until a walk finds nobody.
SweepOnce ==
    /\ pc = "count" /\ cursor > MaxPid
    /\ cursor' = 1 /\ count' = 0
    /\ pc' = "final"
    /\ UNCHANGED <<processes, aim, status, blind, sigchld, reports, owner, gui, received>>

SweepAgain ==
    /\ pc = "count" /\ cursor > MaxPid
    /\ cursor' = 1 /\ count' = 0
    /\ pc' = (IF count > 0 THEN "stop" ELSE "final")
    /\ UNCHANGED <<processes, aim, status, blind, sigchld, reports, owner, gui, received>>

\* FINISHED is written before the supervisor exits.
Finish ==
    /\ pc = "report"
    /\ pc' = "done" /\ reports' = "FINISHED"
    /\ UNCHANGED <<processes, cursor, aim, count, status, blind, sigchld, owner, gui, received>>

ReapInLoopNot ==
    /\ pc = "reap" /\ pc' = "count"
    /\ UNCHANGED <<processes, cursor, aim, count, status, blind, sigchld, reports, owner, gui,
                   received>>
ReapInLoop == ReapAvailable("reap", "count")

Walk(walk) == Look(walk) \/ Kill(walk)

CloseSession ==
    \/ Walk("hup") \/ WalkEnds("hup", "stop") \/ WalkSkipped("hup", "stop")
    \/ Walk("stop") \/ WalkEnds("stop", "kill") \/ WalkSkipped("stop", "kill")
    \/ Walk("kill") \/ WalkEnds("kill", "reap") \/ KillGroup
    \/ ReapInLoop
    \/ Look("count") \/ SweepAgain \/ SweepBlind
    \/ ReapAvailable("final", "report")
    \/ Finish

-----------------------------------------------------------------------------
(* The terminal *)

\* fplinux_terminal_pty_start reads the first report.
GuiStarted ==
    /\ gui = "starting" /\ reports # "none"
    /\ gui' = (IF reports = "ERROR" THEN "failed" ELSE "idle")
    /\ reports' = (IF reports = "READY" THEN "none" ELSE reports)
    /\ UNCHANGED <<processes, supervisor, sigchld, owner, received>>

TakeReport ==
    /\ received' = (IF received = "none" /\ reports = "FINISHED" THEN status ELSE received)
    /\ reports' = (IF reports = "FINISHED" THEN "none" ELSE reports)

\* fplinux_terminal_pty_finished: a nonblocking read, waitpid, a second read.
GuiRead ==
    /\ gui = "idle"
    /\ TakeReport /\ gui' = "wait"
    /\ UNCHANGED <<processes, supervisor, sigchld, owner>>

GuiWait ==
    /\ gui = "wait"
    /\ IF pc = "done"
       THEN gui' = "finished" /\ TakeReport
       ELSE gui' = "idle" /\ UNCHANGED <<reports, received>>
    /\ UNCHANGED <<processes, supervisor, sigchld, owner>>

\* fplinux_terminal_pty_close, or the terminal dies: EOF on the owner pipe.
OwnerGone ==
    /\ owner /\ gui # "starting"
    /\ owner' = FALSE
    /\ UNCHANGED <<processes, supervisor, sigchld, reports, gui, received>>

Next ==
    \/ StartShell \/ ShellExited \/ Poll \/ CloseSession
    \/ \E p \in Pids : Fork(p) \/ Exit(p) \/ Wait(p) \/ Setsid(p)
    \/ GuiStarted \/ GuiRead \/ GuiWait \/ OwnerGone

\* The supervisor runs, and the kernel ends what was killed.
Spec ==
    /\ Init /\ [][Next]_vars
    /\ WF_vars(StartShell \/ ShellExited \/ Poll \/ CloseSession)
    /\ WF_vars(\E p \in Pids : proc[p].state = "dying" /\ Exit(p))

-----------------------------------------------------------------------------
(* Properties *)

TypeOK ==
    /\ proc \in [Pids -> [state : {"free", "running", "stopped", "dying", "zombie"},
                          session : BOOLEAN, parent : Pids \cup {Supervisor}]]
    /\ forks \in 0 .. MaxForks /\ escaped \in BOOLEAN
    /\ pc \in {"start", "failed", "check", "poll", "hup", "stop", "kill", "reap",
               "count", "final", "report", "done"}
    /\ cursor \in 1 .. MaxPid + 1 /\ aim \in BOOLEAN /\ count \in 0 .. MaxPid
    /\ status \in {"none", "real", "reused"} /\ sigchld \in BOOLEAN /\ blind \in BOOLEAN
    /\ reports \in {"none", "READY", "ERROR", "FINISHED"} /\ owner \in BOOLEAN
    /\ gui \in {"starting", "failed", "idle", "wait", "finished"}
    /\ received \in {"none", "real", "reused"}

Empty == \A p \in Pids : Exists(p) => ~proc[p].session

\* "The guardian exits only after the PTY session is empty and reaped"
\* (terminal-pty.c), as the terminal's close relies on.
GuardianExitsLast == pc = "done" => Empty

\* What the code keeps of that promise, although jobs fork behind every walk of
\* close_session, killed processes take their time and any other walk may fail to
\* open /proc: it is broken only when the walk that counts could not, or when a
\* process has left the session.  (One that is outside reaps its children in the
\* session unseen, and theirs are orphaned behind the walk.)
SessionGone == pc \in {"report", "done"} /\ ~escaped /\ ~blind => Empty

\* FINISHED carries the status of the shell.  The default of close_session is
\* left only by a walk that could not look, and another process' status is taken
\* for it only when a process that left the session has outlived the shell and
\* its child was given the shell's ID.
StatusReal ==
    pc \in {"report", "done"} =>
        \/ status = "real"
        \/ status = "none" /\ blind
        \/ status = "reused" /\ escaped

\* "An exit after this reap leaves SIGCHLD pending, so poll still wakes."
ExitNoticed == pc = "poll" /\ proc[Shell].state = "zombie" => sigchld

\* The terminal returns the status in FINISHED, which may arrive between its
\* first read and waitpid.
GuiStatus == gui = "finished" => received = status

\* The exit status gets from the shell to the terminal.
StatusKept == TypeOK /\ StatusReal /\ ExitNoticed /\ GuiStatus

\* Once its owner is gone or its shell has exited, the supervisor finishes,
\* unless a process left the session (whose children in it nobody may wait for)
\* or opendir fails in the walk that kills again and again.
Finishes ==
    [](\A p \in Pids : Exists(p) => proc[p].session) /\ <>[][~KillGroup]_vars =>
        /\ (pc # "failed" /\ pc # "start" /\ ~owner) ~> pc = "done"
        /\ (pc = "poll" /\ proc[Shell].state = "zombie") ~> pc = "done"
=============================================================================
