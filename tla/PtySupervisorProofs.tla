------------------------- MODULE PtySupervisorProofs -------------------------
(***************************************************************************)
(* For every number of processes and forks: the supervisor finishes only   *)
(* when the session is empty, unless a process has left it or its last     *)
(* walk could not open /proc, and reports the shell's own status but in    *)
(* those cases.                                                            *)
(***************************************************************************)
EXTENDS PtySupervisor, WellFoundedInduction, TLAPS

Process == [state : {"free", "running", "stopped", "dying", "zombie"},
            session : BOOLEAN, parent : Pids \cup {Supervisor}]

Living == {"running", "stopped", "dying"}

\* Parents live, and are older than their children.
Older(ps, rank) ==
    \A p \in Pids : ps[p].state # "free" /\ ps[p].parent # Supervisor =>
        /\ ps[p].parent \in Pids
        /\ ps[ps[p].parent].state \in Living
        /\ rank[ps[p].parent] < rank[p]

Forest(ps) == \E rank \in [Pids -> Nat] : Older(ps, rank)

Nothing(ps) == \A p \in Pids : ps[p].state = "free"

\* A child of the supervisor that a walk at `from' has still to meet.
Rooted(ps, from) ==
    \E p \in Pids : p >= from /\ ps[p].state # "free" /\ ps[p].parent = Supervisor

TypeInv ==
    /\ TypeOK
    /\ aim => count <= cursor /\ cursor <= MaxPid /\ pc \in {"hup", "stop", "kill"}
    /\ ~aim => count < cursor
    /\ pc = "reap" => cursor = 1

\* In the last walk nobody reaps the supervisor's children: as long as somebody
\* exists, one of them is ahead of a walk that has met nobody.
SweepInv ==
    /\ Forest(proc)
    /\ pc \in {"start", "failed"} => Nothing(proc)
    /\ ~escaped =>
           /\ \A p \in Pids : Exists(p) => proc[p].session
           /\ pc = "count" /\ count = 0 => Nothing(proc) \/ Rooted(proc, cursor)
           /\ pc \in {"final", "report", "done"} /\ ~blind => Nothing(proc)

-----------------------------------------------------------------------------
(* The process table.                                                      *)

\* Among processes whose parents are older somebody is the supervisor's child.
LEMMA ForestRoot ==
  ASSUME NEW ps \in [Pids -> Process], Forest(ps), ~Nothing(ps)
  PROVE  Rooted(ps, 1)
  <1>1. PICK rank \in [Pids -> Nat] : Older(ps, rank)
    BY DEF Forest
  <1> DEFINE T == {rank[p] : p \in {q \in Pids : ps[q].state # "free"}}
  <1>2. T \subseteq Nat /\ T # {}
    BY DEF Nothing
  <1>3. \E n \in T : \A m \in T : ~(<<m, n>> \in OpToRel(<, Nat))
    <2> HIDE DEF T
    <2> QED
      BY <1>2, NatLessThanWellFounded, WFMin
  <1>4. PICK n \in T : \A m \in T : ~(<<m, n>> \in OpToRel(<, Nat))
    BY <1>3
  <1>5. \A m \in T : ~(m < n)
    BY <1>2, <1>4 DEF OpToRel
  <1>6. PICK p \in Pids : ps[p].state # "free" /\ rank[p] = n
    OBVIOUS
  <1>7. ps[p].parent = Supervisor
    <2> SUFFICES ASSUME ps[p].parent # Supervisor PROVE FALSE
      OBVIOUS
    <2>1. ps[p].parent \in Pids /\ ps[ps[p].parent].state # "free"
          /\ rank[ps[p].parent] < n
      BY <1>1, <1>6 DEF Older, Living
    <2> QED
      BY <1>5, <2>1
  <1> QED
    BY <1>6, <1>7 DEF Rooted, Pids

\* What becomes of each process when p dies.
LEMMA DeadFields ==
  ASSUME NEW ps \in [Pids -> Process], NEW p \in Pids, NEW q \in Pids
  PROVE  /\ Dead(ps, p)[q] \in Process
         /\ Dead(ps, p)[q].state = IF q = p THEN "zombie" ELSE ps[q].state
         /\ Dead(ps, p)[q].session = ps[q].session
         /\ Dead(ps, p)[q].parent =
                IF q # p /\ ps[q].parent = p THEN Supervisor ELSE ps[q].parent
  <1>1. ps[q] \in Process
    OBVIOUS
  <1>2. CASE q = p
    <2>1. Dead(ps, p)[q] = [ps[q] EXCEPT !.state = "zombie"]
      BY <1>2 DEF Dead
    <2> QED
      BY <1>1, <1>2, <2>1 DEF Process
  <1>3. CASE q # p /\ ps[q].parent = p
    <2>1. Dead(ps, p)[q] = [ps[q] EXCEPT !.parent = Supervisor]
      BY <1>3 DEF Dead
    <2> QED
      BY <1>1, <1>3, <2>1 DEF Process
  <1>4. CASE q # p /\ ps[q].parent # p
    <2>1. Dead(ps, p)[q] = ps[q]
      BY <1>4 DEF Dead
    <2> QED
      BY <1>1, <1>4, <2>1
  <1> QED
    BY <1>2, <1>3, <1>4

\* A process that dies leaves its children to the supervisor.
LEMMA ForestDead ==
  ASSUME NEW ps \in [Pids -> Process], NEW p \in Pids, Forest(ps), ps[p].state # "free"
  PROVE  /\ Dead(ps, p) \in [Pids -> Process]
         /\ Forest(Dead(ps, p))
         /\ \A from \in Nat : Rooted(ps, from) => Rooted(Dead(ps, p), from)
         /\ \A q \in Pids : /\ Dead(ps, p)[q].session = ps[q].session
                            /\ Dead(ps, p)[q].state = "free" <=> ps[q].state = "free"
  <1>0. \A q \in Pids :
            /\ Dead(ps, p)[q] \in Process
            /\ Dead(ps, p)[q].state = IF q = p THEN "zombie" ELSE ps[q].state
            /\ Dead(ps, p)[q].session = ps[q].session
            /\ Dead(ps, p)[q].parent =
                   IF q # p /\ ps[q].parent = p THEN Supervisor ELSE ps[q].parent
    BY DeadFields
  <1>1. Dead(ps, p) \in [Pids -> Process]
    BY <1>0 DEF Dead
  <1>2. PICK rank \in [Pids -> Nat] : Older(ps, rank)
    BY DEF Forest
  <1>3. ASSUME NEW q \in Pids, Dead(ps, p)[q].state # "free", Dead(ps, p)[q].parent # Supervisor
        PROVE  /\ Dead(ps, p)[q].parent \in Pids
               /\ Dead(ps, p)[Dead(ps, p)[q].parent].state \in Living
               /\ rank[Dead(ps, p)[q].parent] < rank[q]
    <2>1. ps[q].state # "free" /\ Dead(ps, p)[q].parent = ps[q].parent
      BY <1>0, <1>3
    <2>2. /\ ps[q].parent \in Pids /\ rank[ps[q].parent] < rank[q]
          /\ ps[ps[q].parent].state \in Living
      BY <1>2, <1>3, <2>1 DEF Older, Living
    <2>3. ps[q].parent # p
      BY <1>0, <1>3, <2>2
    <2>4. Dead(ps, p)[ps[q].parent].state = ps[ps[q].parent].state
      BY <1>0, <2>2, <2>3
    <2> QED
      BY <2>1, <2>2, <2>4
  <1>4. Forest(Dead(ps, p))
    BY <1>3 DEF Forest, Older, Living
  <1>5. \A q \in Pids : /\ Dead(ps, p)[q].session = ps[q].session
                        /\ Dead(ps, p)[q].state = "free" <=> ps[q].state = "free"
                        /\ ps[q].parent = Supervisor => Dead(ps, p)[q].parent = Supervisor
    BY <1>0
  <1>6. ASSUME NEW from \in Nat, Rooted(ps, from) PROVE Rooted(Dead(ps, p), from)
    BY <1>5, <1>6 DEF Rooted
  <1> QED
    BY <1>1, <1>4, <1>5, <1>6

\* Reaping takes only dead children of the supervisor.
LEMMA ForestReaped ==
  ASSUME NEW ps \in [Pids -> Process], Forest(ps), NEW dead \in SUBSET Orphans(ps)
  PROVE  /\ Reaped(ps, dead) \in [Pids -> Process]
         /\ Forest(Reaped(ps, dead))
         /\ \A q \in Pids : Reaped(ps, dead)[q] = ps[q] \/ Reaped(ps, dead)[q].state = "free"
  <1>0. \A q \in Pids : Reaped(ps, dead)[q] = IF q \in dead THEN NoProcess ELSE ps[q]
    BY DEF Reaped
  <1>1. NoProcess \in Process /\ NoProcess.state = "free"
    BY DEF NoProcess, Process
  <1>2. Reaped(ps, dead) \in [Pids -> Process]
    BY <1>1 DEF Reaped
  <1>3. PICK rank \in [Pids -> Nat] : Older(ps, rank)
    BY DEF Forest
  <1>4. ASSUME NEW q \in Pids, Reaped(ps, dead)[q].state # "free",
               Reaped(ps, dead)[q].parent # Supervisor
        PROVE  /\ Reaped(ps, dead)[q].parent \in Pids
               /\ Reaped(ps, dead)[Reaped(ps, dead)[q].parent].state \in Living
               /\ rank[Reaped(ps, dead)[q].parent] < rank[q]
    <2>1. Reaped(ps, dead)[q] = ps[q]
      BY <1>0, <1>1, <1>4
    <2>2. /\ ps[q].parent \in Pids /\ rank[ps[q].parent] < rank[q]
          /\ ps[ps[q].parent].state \in Living
      BY <1>3, <1>4, <2>1 DEF Older, Living
    <2>3. ps[q].parent \notin dead
      BY <2>2 DEF Orphans, Living
    <2> QED
      BY <1>0, <2>1, <2>2, <2>3
  <1>5. Forest(Reaped(ps, dead))
    BY <1>4 DEF Forest, Older, Living
  <1> QED
    BY <1>0, <1>1, <1>2, <1>5

\* A fork adds a youngest process under a free ID.
LEMMA ForestFork ==
  ASSUME NEW ps \in [Pids -> Process], Forest(ps),
         NEW p \in Pids, ps[p].state = "running", NEW q \in Pids, ps[q].state = "free",
         NEW new \in Process, new.parent = p
  PROVE  Forest([ps EXCEPT ![q] = new])
  <1>1. PICK rank \in [Pids -> Nat] : Older(ps, rank)
    BY DEF Forest
  <1> DEFINE qs == [ps EXCEPT ![q] = new]
             rk == [rank EXCEPT ![q] = rank[p] + 1]
  <1>2. rk \in [Pids -> Nat]
    OBVIOUS
  <1>3. \A r \in Pids : qs[r] = (IF r = q THEN new ELSE ps[r])
                       /\ rk[r] = (IF r = q THEN rank[p] + 1 ELSE rank[r])
    OBVIOUS
  <1>4. p # q
    OBVIOUS
  <1>5. ASSUME NEW r \in Pids, qs[r].state # "free", qs[r].parent # Supervisor
        PROVE  /\ qs[r].parent \in Pids
               /\ qs[qs[r].parent].state \in Living
               /\ rk[qs[r].parent] < rk[r]
    <2> HIDE DEF qs, rk
    <2>1. CASE r = q
      BY <1>3, <1>4, <2>1 DEF Living
    <2>2. CASE r # q
      <3>1. qs[r] = ps[r] /\ rk[r] = rank[r]
        BY <1>3, <2>2
      <3>2. /\ ps[r].parent \in Pids /\ rank[ps[r].parent] < rank[r]
            /\ ps[ps[r].parent].state \in Living
        BY <1>1, <1>5, <3>1 DEF Older, Living
      <3>3. ps[r].parent # q
        BY <3>2 DEF Living
      <3> QED
        BY <1>3, <3>1, <3>2, <3>3
    <2> QED
      BY <2>1, <2>2
  <1> HIDE DEF qs, rk
  <1>6. Older(qs, rk)
    BY <1>5 DEF Older, Living
  <1>7. Forest(qs)
    BY <1>2, <1>6 DEF Forest
  <1> QED
    BY <1>7 DEF qs

\* A process that changes neither parent nor life disturbs nobody, and one that
\* has no children may go.
LEMMA ForestSame ==
  ASSUME NEW ps \in [Pids -> Process], Forest(ps), NEW qs \in [Pids -> Process],
         \A q \in Pids :
            \/ /\ qs[q].parent = ps[q].parent
               /\ qs[q].state = "free" <=> ps[q].state = "free"
               /\ ps[q].state \in Living =>
                     qs[q].state \in Living
            \/ qs[q].state = "free" /\ ps[q].state = "zombie"
  PROVE  Forest(qs)
  <1>1. PICK rank \in [Pids -> Nat] : Older(ps, rank)
    BY DEF Forest
  <1>2. ASSUME NEW q \in Pids, qs[q].state # "free", qs[q].parent # Supervisor
        PROVE  /\ qs[q].parent \in Pids
               /\ qs[qs[q].parent].state \in Living
               /\ rank[qs[q].parent] < rank[q]
    <2>1. qs[q].parent = ps[q].parent /\ ps[q].state # "free"
      BY <1>2
    <2>2. /\ ps[q].parent \in Pids /\ rank[ps[q].parent] < rank[q]
          /\ ps[ps[q].parent].state \in Living
      BY <1>1, <1>2, <2>1 DEF Older, Living
    <2>3. qs[ps[q].parent].state \in Living
      BY <2>2 DEF Living
    <2> QED
      BY <2>1, <2>2, <2>3
  <1> QED
    BY <1>2 DEF Forest, Older, Living

\* SIGKILL leaves a process where it is until it dies.
LEMMA ForestKilled ==
  ASSUME NEW ps \in [Pids -> Process], Forest(ps),
         NEW hit \in SUBSET {p \in Pids : ps[p].state \in Living}
  PROVE  /\ Killed(ps, hit) \in [Pids -> Process]
         /\ Forest(Killed(ps, hit))
         /\ \A q \in Pids :
               /\ Killed(ps, hit)[q].session = ps[q].session
               /\ Killed(ps, hit)[q].parent = ps[q].parent
               /\ Killed(ps, hit)[q].state = IF q \in hit THEN "dying" ELSE ps[q].state
  <1>1. ASSUME NEW q \in Pids
        PROVE  /\ Killed(ps, hit)[q] \in Process
               /\ Killed(ps, hit)[q].session = ps[q].session
               /\ Killed(ps, hit)[q].parent = ps[q].parent
               /\ Killed(ps, hit)[q].state = IF q \in hit THEN "dying" ELSE ps[q].state
    <2>1. ps[q] \in Process
      OBVIOUS
    <2>2. CASE q \in hit
      <3>1. Killed(ps, hit)[q] = [ps[q] EXCEPT !.state = "dying"]
        BY <2>2 DEF Killed
      <3> QED
        BY <2>1, <2>2, <3>1 DEF Process
    <2>3. CASE q \notin hit
      <3>1. Killed(ps, hit)[q] = ps[q]
        BY <2>3 DEF Killed
      <3> QED
        BY <2>1, <2>3, <3>1
    <2> QED
      BY <2>2, <2>3
  <1>2. Killed(ps, hit) \in [Pids -> Process]
    BY <1>1 DEF Killed
  <1>3. Forest(Killed(ps, hit))
    <2>1. \A q \in Pids : q \in hit => ps[q].state \in Living /\ ps[q].state # "free"
      BY DEF Living
    <2> QED
      BY <1>1, <1>2, <2>1, ForestSame DEF Living
  <1> QED
    BY <1>1, <1>2, <1>3

-----------------------------------------------------------------------------
(* Types.                                                                  *)

\* The supervisor starts with an empty table.
LEMMA TypeInit == Init => TypeInv
  <1> SUFFICES ASSUME Init PROVE TypeInv
    OBVIOUS
  <1>1. /\ sigchld \in BOOLEAN /\ owner \in BOOLEAN /\ escaped \in BOOLEAN
        /\ aim \in BOOLEAN /\ ~aim /\ blind \in BOOLEAN
    BY Zenon DEF Init
  <1>2. NoProcess \in Process
    BY DEF NoProcess, Process
  <1>3. proc \in [Pids -> Process]
    BY <1>2 DEF Init
  <1>4. /\ forks \in 0 .. MaxForks /\ cursor \in 1 .. MaxPid + 1 /\ count \in 0 .. MaxPid
        /\ count < cursor
    BY PidAssumption DEF Init, PidAssumption
  <1> QED
    BY <1>1, <1>3, <1>4 DEF Init, TypeInv, TypeOK, Process

\* A process table of the right type after one entry changed.
LEMMA TableEntry ==
  ASSUME NEW ps \in [Pids -> Process], NEW p \in Pids, NEW r \in Process
  PROVE  [ps EXCEPT ![p] = r] \in [Pids -> Process]
  OBVIOUS

\* What a kill of signal_session does to the table: nobody comes, nobody goes,
\* and nobody changes his session.
LEMMA KillSteps ==
  ASSUME TypeInv, Forest(proc), NEW walk, Kill(walk)
  PROVE  /\ proc' \in [Pids -> Process] /\ Forest(proc')
         /\ \A q \in Pids : /\ proc'[q].session = proc[q].session
                            /\ proc'[q].state = "free" <=> proc[q].state = "free"
                            /\ proc[q].parent = Supervisor => proc'[q].parent = Supervisor
  <1>0. proc \in [Pids -> Process]
    BY DEF TypeInv, TypeOK, Process
  <1>1. cursor \in Pids
    BY PidAssumption DEF Kill, TypeInv, TypeOK, Pids, PidAssumption
  <1>2. \/ proc' = proc
        \/ Runs(cursor) /\ proc' = Dead(proc, cursor)
        \/ Runs(cursor) /\ proc' = [proc EXCEPT ![cursor].state = "stopped"]
        \/ Lives(cursor) /\ proc' = Killed(proc, {cursor})
    BY DEF Kill, Signalled
  <1>3. CASE proc' = proc
    BY <1>0, <1>3
  <1>4. CASE Runs(cursor) /\ proc' = Dead(proc, cursor)
    <2>1. proc[cursor].state # "free"
      BY <1>4 DEF Runs
    <2>2. \A q \in Pids : proc[q].parent = Supervisor => Dead(proc, cursor)[q].parent = Supervisor
      BY <1>0, <1>1, DeadFields
    <2> QED
      BY <1>0, <1>1, <1>4, <2>1, <2>2, ForestDead
  <1>5. CASE Runs(cursor) /\ proc' = [proc EXCEPT ![cursor].state = "stopped"]
    <2>1. /\ proc' \in [Pids -> Process]
          /\ \A q \in Pids : /\ proc'[q].session = proc[q].session
                             /\ proc'[q].parent = proc[q].parent
                             /\ proc'[q].state =
                                   IF q = cursor THEN "stopped" ELSE proc[q].state
      BY <1>0, <1>1, <1>5 DEF Process
    <2>2. proc[cursor].state = "running"
      BY <1>5 DEF Runs
    <2>3. Forest(proc')
      BY <1>0, <2>1, <2>2, ForestSame DEF Living
    <2> QED
      BY <2>1, <2>2, <2>3
  <1>6. CASE Lives(cursor) /\ proc' = Killed(proc, {cursor})
    <2>1. {cursor} \in SUBSET {p \in Pids : proc[p].state \in Living}
      BY <1>1, <1>6 DEF Lives, Living
    <2>2. /\ proc' \in [Pids -> Process] /\ Forest(proc')
          /\ \A q \in Pids :
                /\ proc'[q].session = proc[q].session
                /\ proc'[q].parent = proc[q].parent
                /\ proc'[q].state = IF q \in {cursor} THEN "dying" ELSE proc[q].state
      BY <1>0, <1>6, <2>1, ForestKilled
    <2>3. proc[cursor].state # "free"
      BY <1>6 DEF Lives
    <2> QED
      BY <2>2, <2>3
  <1> QED
    BY <1>2, <1>3, <1>4, <1>5, <1>6

\* The same of the fallback, which kills by group and by number.
LEMMA KillGroupSteps ==
  ASSUME TypeInv, Forest(proc), KillGroup
  PROVE  /\ proc' \in [Pids -> Process] /\ Forest(proc')
         /\ \A q \in Pids : /\ proc'[q].session = proc[q].session
                            /\ proc'[q].state = "free" <=> proc[q].state = "free"
                            /\ proc[q].parent = Supervisor => proc'[q].parent = Supervisor
  <1>0. proc \in [Pids -> Process]
    BY DEF TypeInv, TypeOK, Process
  <1>1. PICK hit \in SUBSET {p \in Pids : Lives(p)} : proc' = Killed(proc, hit)
    <2>1. Shell \in Pids
      BY PidAssumption DEF Shell, Pids, PidAssumption
    <2>2. PICK group \in SUBSET {p \in Pids : Lives(p) /\ proc[p].session} :
              proc' = Killed(proc, group \cup {p \in {Shell} : Lives(p)})
      BY DEF KillGroup
    <2>3. group \cup {p \in {Shell} : Lives(p)} \in SUBSET {p \in Pids : Lives(p)}
      BY <2>1
    <2> QED
      BY <2>2, <2>3
  <1>2. hit \in SUBSET {p \in Pids : proc[p].state \in Living}
    BY <1>1 DEF Lives, Living
  <1>3. /\ proc' \in [Pids -> Process] /\ Forest(proc')
        /\ \A q \in Pids :
              /\ proc'[q].session = proc[q].session
              /\ proc'[q].parent = proc[q].parent
              /\ proc'[q].state = IF q \in hit THEN "dying" ELSE proc[q].state
    BY <1>0, <1>1, <1>2, ForestKilled
  <1>4. \A q \in Pids : q \in hit => proc[q].state # "free"
    BY <1>1 DEF Lives
  <1> QED
    BY <1>3, <1>4

\* Each kind of step leaves the process table well typed.
LEMMA ProcNext ==
  ASSUME TypeInv, Forest(proc), Next
  PROVE  proc' \in [Pids -> Process]
  <1>0. proc \in [Pids -> Process] /\ Shell \in Pids /\ NoProcess \in Process
    BY PidAssumption DEF TypeInv, TypeOK, Process, PidAssumption, Shell, Pids, NoProcess
  <1>1. CASE StartShell
    <2>1. [state |-> "running", parent |-> Supervisor, session |-> TRUE] \in Process
      BY DEF Process
    <2> QED
      BY <1>0, <1>1, <2>1, TableEntry DEF StartShell
  <1>2. CASE ShellExited
    <2>1. PICK dead \in SUBSET Orphans(proc) : proc' = Reaped(proc, dead)
      BY <1>2 DEF ShellExited
    <2> QED
      BY <1>0, <2>1, ForestReaped
  <1>3. CASE Poll
    BY <1>0, <1>3 DEF Poll, processes
  <1>4. ASSUME NEW walk, Kill(walk) PROVE proc' \in [Pids -> Process]
    BY <1>4, KillSteps
  <1>k. CASE KillGroup
    BY <1>k, KillGroupSteps
  <1>l. ASSUME NEW walk, Look(walk) PROVE proc' \in [Pids -> Process]
    BY <1>0, <1>l DEF Look, processes
  <1>5. ASSUME NEW from, NEW next, WalkEnds(from, next) \/ WalkSkipped(from, next)
        PROVE  proc' \in [Pids -> Process]
    BY <1>0, <1>5 DEF WalkEnds, WalkSkipped, processes
  <1>6. ASSUME NEW from, NEW next, ReapAvailable(from, next) PROVE proc' \in [Pids -> Process]
    BY <1>0, <1>6, ForestReaped DEF ReapAvailable
  <1>7. CASE SweepAgain \/ SweepBlind \/ Finish \/ GuiStarted \/ GuiRead \/ GuiWait \/ OwnerGone
    BY <1>0, <1>7
    DEF SweepAgain, SweepBlind, Finish, GuiStarted, GuiRead, GuiWait, OwnerGone, processes
  <1>8. ASSUME NEW p \in Pids, Fork(p) PROVE proc' \in [Pids -> Process]
    <2>1. [state |-> "running", parent |-> p, session |-> proc[p].session] \in Process
      BY <1>0 DEF Process
    <2> QED
      BY <1>0, <1>8, <2>1, TableEntry DEF Fork
  <1>9. ASSUME NEW p \in Pids, Exit(p) PROVE proc' \in [Pids -> Process]
    BY <1>0, <1>9, ForestDead DEF Exit
  <1>10. ASSUME NEW p \in Pids, Wait(p) PROVE proc' \in [Pids -> Process]
    BY <1>0, <1>10, TableEntry DEF Wait
  <1>11. ASSUME NEW p \in Pids, Setsid(p) PROVE proc' \in [Pids -> Process]
    BY <1>0, <1>11 DEF Setsid, Process
  <1> QED
    BY <1>1, <1>2, <1>3, <1>4, <1>k, <1>l, <1>5, <1>6, <1>7, <1>8, <1>9, <1>10, <1>11
    DEF Next, CloseSession, Walk, ReapInLoop

\* Every step keeps the types, and a walk counts no more than it has passed.
LEMMA TypeNext ==
  ASSUME TypeInv, Forest(proc), [Next]_vars
  PROVE  TypeInv'
  <1> SUFFICES ASSUME Next PROVE TypeInv'
    BY DEF vars, processes, supervisor, TypeInv, TypeOK
  <1>0. proc' \in [Pids -> [state : {"free", "running", "stopped", "dying", "zombie"},
                           session : BOOLEAN, parent : Pids \cup {Supervisor}]]
    BY ProcNext DEF Process
  <1> USE PidAssumption DEF PidAssumption, TypeInv, TypeOK
  <1>1. CASE StartShell
    BY <1>0, <1>1 DEF StartShell
  <1>2. CASE ShellExited
    BY <1>0, <1>2 DEF ShellExited
  <1>3. CASE Poll
    BY <1>0, <1>3 DEF Poll, processes
  <1>4. ASSUME NEW walk \in {"hup", "stop", "kill", "count"}, Look(walk) PROVE TypeInv'
    <2>1. /\ ~aim /\ cursor <= MaxPid /\ pc = walk /\ count < cursor
          /\ UNCHANGED <<proc, forks, escaped, pc, status, blind, sigchld, reports, owner, gui,
                         received>>
      BY <1>4 DEF Look, processes
    <2>2. \/ cursor' = cursor + 1 /\ aim' = aim /\ count' \in {count, count + 1}
          \/ walk # "count" /\ cursor' = cursor /\ aim' = TRUE /\ count' = count + 1
      BY <1>4 DEF Look
    <2>3. CASE cursor' = cursor + 1 /\ aim' = aim /\ count' \in {count, count + 1}
      <3>1. cursor' \in 1 .. MaxPid + 1 /\ count' \in 0 .. MaxPid /\ count' < cursor'
        BY <2>1, <2>3
      <3>2. ~aim' /\ aim' \in BOOLEAN /\ pc' # "reap"
        BY <2>1, <2>3
      <3> QED
        BY <2>1, <3>1, <3>2
    <2>4. CASE walk # "count" /\ cursor' = cursor /\ aim' = TRUE /\ count' = count + 1
      <3>1. /\ cursor' \in 1 .. MaxPid + 1 /\ count' \in 0 .. MaxPid /\ count' <= cursor'
            /\ cursor' <= MaxPid
        BY <2>1, <2>4
      <3>2. aim' /\ aim' \in BOOLEAN /\ pc' \in {"hup", "stop", "kill"}
        BY <2>1, <2>4
      <3> QED
        BY <2>1, <3>1, <3>2
    <2> QED
      BY <2>2, <2>3, <2>4
  <1>k. ASSUME NEW walk \in {"hup", "stop", "kill"}, Kill(walk) PROVE TypeInv'
    <2>1. cursor' \in 1 .. MaxPid + 1 /\ count' \in 0 .. MaxPid /\ count' < cursor'
      BY <1>k DEF Kill
    <2>2. ~aim' /\ aim' \in BOOLEAN /\ pc' # "reap"
      BY <1>k DEF Kill
    <2>3. UNCHANGED <<forks, escaped, pc, status, blind, sigchld, reports, owner, gui, received>>
      BY <1>k DEF Kill
    <2> QED
      BY <1>0, <2>1, <2>2, <2>3
  <1>g. CASE KillGroup
    BY <1>0, <1>g DEF KillGroup, Unread
  <1>b. CASE SweepBlind
    BY <1>0, <1>b DEF SweepBlind, Unread, processes
  <1>5. CASE \/ WalkEnds("hup", "stop") \/ WalkEnds("stop", "kill") \/ WalkEnds("kill", "reap")
             \/ WalkSkipped("hup", "stop") \/ WalkSkipped("stop", "kill")
    BY <1>0, <1>5 DEF WalkEnds, WalkSkipped, Unread, processes
  <1>6. CASE ReapInLoop \/ ReapAvailable("final", "report")
    BY <1>0, <1>6 DEF ReapInLoop, ReapAvailable
  <1>7. CASE SweepAgain \/ Finish
    BY <1>0, <1>7 DEF SweepAgain, Finish, processes
  <1>8. ASSUME NEW p \in Pids, Fork(p) PROVE TypeInv'
    BY <1>0, <1>8 DEF Fork, supervisor
  <1>9. ASSUME NEW p \in Pids, Exit(p) PROVE TypeInv'
    <2>1. sigchld' \in BOOLEAN
      BY Zenon, <1>9 DEF Exit, Wakes
    <2> QED
      BY <1>0, <1>9, <2>1 DEF Exit, supervisor
  <1>10. ASSUME NEW p \in Pids, Wait(p) PROVE TypeInv'
    BY <1>0, <1>10 DEF Wait, supervisor
  <1>11. ASSUME NEW p \in Pids, Setsid(p) PROVE TypeInv'
    BY <1>0, <1>11 DEF Setsid, supervisor
  <1>12. CASE GuiStarted \/ GuiRead \/ GuiWait \/ OwnerGone
    <2>1. received' \in {"none", "real", "reused"} /\ reports' \in {"none", "READY", "ERROR", "FINISHED"}
      BY <1>12 DEF GuiStarted, GuiRead, GuiWait, OwnerGone, TakeReport
    <2>2. gui' \in {"starting", "failed", "idle", "wait", "finished"} /\ owner' \in BOOLEAN
      BY <1>12 DEF GuiStarted, GuiRead, GuiWait, OwnerGone
    <2> QED
      BY <1>0, <1>12, <2>1, <2>2
      DEF GuiStarted, GuiRead, GuiWait, OwnerGone, processes, supervisor
  <1> QED
    BY <1>1, <1>2, <1>3, <1>4, <1>k, <1>g, <1>b, <1>5, <1>6, <1>7, <1>8, <1>9, <1>10, <1>11, <1>12
    DEF Next, CloseSession, Walk

-----------------------------------------------------------------------------
(* The sweep.                                                              *)

\* Nobody exists at first.
LEMMA SweepInit == Init => SweepInv
  <1> SUFFICES ASSUME Init PROVE SweepInv
    OBVIOUS
  <1>1. NoProcess.state = "free"
    BY DEF NoProcess
  <1>2. Nothing(proc)
    BY <1>1 DEF Init, Nothing
  <1>3. [p \in Pids |-> 0] \in [Pids -> Nat] /\ Older(proc, [p \in Pids |-> 0])
    BY <1>2 DEF Older, Nothing
  <1>4. Forest(proc)
    BY <1>3 DEF Forest
  <1> QED
    BY <1>2, <1>4 DEF Init, SweepInv, Exists, Nothing

\* A step that leaves the processes alone keeps the invariant, if the place of
\* the supervisor does not claim more.
LEMMA SweepStill ==
  ASSUME SweepInv, UNCHANGED processes,
         pc' \in {"start", "failed"} => Nothing(proc),
         ~escaped /\ pc' = "count" /\ count' = 0 => Nothing(proc) \/ Rooted(proc, cursor'),
         ~escaped /\ pc' \in {"final", "report", "done"} /\ ~blind' => Nothing(proc)
  PROVE  SweepInv'
  BY DEF SweepInv, processes, Forest, Older, Nothing, Rooted, Exists

\* A step of a process keeps the invariant: somebody runs or is dead, so that the
\* supervisor is not done, and its children stay.
LEMMA SweepMoves ==
  ASSUME TypeInv, SweepInv, Forest(proc'), UNCHANGED <<pc, cursor, count, blind>>, ~Nothing(proc),
         ~escaped' => ~escaped /\ \A p \in Pids : proc'[p].state # "free" => proc'[p].session,
         ~escaped' /\ Rooted(proc, cursor) => Rooted(proc', cursor)
  PROVE  SweepInv'
  BY DEF SweepInv, Exists, Rooted

\* Every step keeps the invariant.
LEMMA SweepNext ==
  ASSUME TypeInv, SweepInv, [Next]_vars
  PROVE  SweepInv'
  <1>s. CASE UNCHANGED vars
    BY <1>s, SweepStill DEF vars, processes, supervisor, SweepInv
  <1> SUFFICES ASSUME Next PROVE SweepInv'
    BY <1>s
  <1>0. /\ proc \in [Pids -> Process] /\ Forest(proc) /\ Shell \in Pids
        /\ cursor \in Nat /\ NoProcess \in Process
        /\ NoProcess.state = "free"
    BY PidAssumption
    DEF TypeInv, TypeOK, Process, SweepInv, PidAssumption, Shell, Pids, NoProcess
  <1>1. CASE StartShell
    <2>1. CASE proc' = proc /\ pc' = "failed"
      BY <1>1, <2>1, SweepStill DEF StartShell, SweepInv, processes
    <2>2. CASE /\ pc' = "check"
               /\ proc' = [proc EXCEPT ![Shell] = [state |-> "running",
                              parent |-> Supervisor, session |-> TRUE]]
      <3>1. Nothing(proc)
        BY <1>1 DEF StartShell, SweepInv
      <3>2. \A p \in Pids : /\ proc'[p].state # "free" => p = Shell
                            /\ p = Shell => proc'[p].session /\ proc'[p].parent = Supervisor
        BY <1>0, <2>2, <3>1 DEF Nothing
      <3>3. Forest(proc')
        <4>1. [p \in Pids |-> 0] \in [Pids -> Nat] /\ Older(proc', [p \in Pids |-> 0])
          BY <3>2 DEF Older
        <4> QED
          BY <4>1 DEF Forest
      <3> QED
        BY <2>2, <3>2, <3>3 DEF SweepInv, Exists
    <2> QED
      BY <1>1, <2>1, <2>2 DEF StartShell
  <1>2. CASE ShellExited
    <2>1. PICK dead \in SUBSET Orphans(proc) : proc' = Reaped(proc, dead)
      BY <1>2 DEF ShellExited
    <2>2. /\ Forest(proc')
          /\ \A q \in Pids : proc'[q] = proc[q] \/ proc'[q].state = "free"
      BY <1>0, <2>1, ForestReaped
    <2>3. pc' \in {"hup", "poll"} /\ escaped' = escaped
      BY <1>2 DEF ShellExited
    <2> QED
      BY <2>2, <2>3 DEF SweepInv, Exists
  <1>3. CASE Poll
    BY <1>3, SweepStill DEF Poll
  <1>4. ASSUME NEW walk \in {"hup", "stop", "kill", "count"}, Look(walk) PROVE SweepInv'
    <2>1. cursor \in Pids /\ pc = walk /\ pc' = walk /\ UNCHANGED processes
      BY <1>4, PidAssumption DEF Look, TypeInv, TypeOK, Pids, PidAssumption
    <2>2. ASSUME ~escaped, walk = "count", count' = 0, ~Nothing(proc) PROVE Rooted(proc, cursor')
      <3>1. proc[cursor].state = "free" /\ count = 0 /\ cursor' = cursor + 1
        BY <1>4, <2>1, <2>2 DEF Look, SweepInv, Exists, TypeInv, TypeOK
      <3>2. PICK p \in Pids : p >= cursor /\ proc[p].state # "free"
                             /\ proc[p].parent = Supervisor
        BY <2>1, <2>2, <3>1 DEF SweepInv, Rooted
      <3>3. p >= cursor + 1
        BY <1>0, <3>1, <3>2 DEF Pids
      <3> QED
        BY <3>1, <3>2, <3>3 DEF Rooted
    <2> QED
      BY <2>1, <2>2, SweepStill
  <1>k. ASSUME \/ KillGroup \/ \E walk \in {"hup", "stop", "kill"} : Kill(walk)
        PROVE  SweepInv'
    <2>1. pc' \in {"hup", "stop", "kill", "reap"} /\ escaped' = escaped
      BY <1>k DEF Kill, KillGroup
    <2>2. /\ Forest(proc')
          /\ \A p \in Pids : /\ proc'[p].session = proc[p].session
                             /\ proc'[p].state = "free" <=> proc[p].state = "free"
      BY <1>0, <1>k, KillSteps, KillGroupSteps
    <2> QED
      BY <2>1, <2>2 DEF SweepInv, Exists
  <1>b. CASE SweepBlind
    <2>1. pc' = "final" /\ blind' /\ UNCHANGED processes
      BY Zenon, <1>b DEF SweepBlind
    <2> QED
      BY <2>1, SweepStill
  <1>5. CASE \/ WalkEnds("hup", "stop") \/ WalkEnds("stop", "kill") \/ WalkEnds("kill", "reap")
             \/ WalkSkipped("hup", "stop") \/ WalkSkipped("stop", "kill")
    BY <1>5, SweepStill DEF WalkEnds, WalkSkipped
  <1>6. CASE ReapInLoop \/ ReapAvailable("final", "report")
    <2>1. /\ proc' \in [Pids -> Process] /\ Forest(proc')
          /\ \A q \in Pids : proc'[q] = proc[q] \/ proc'[q].state = "free"
      BY <1>0, <1>6, ForestReaped DEF ReapInLoop, ReapAvailable
    <2>2. CASE ReapInLoop
      <3>1. pc' = "count" /\ cursor' = 1 /\ escaped' = escaped
        BY <2>2 DEF ReapInLoop, ReapAvailable, TypeInv
      <3>2. Nothing(proc') \/ Rooted(proc', 1)
        BY <2>1, ForestRoot
      <3> QED
        BY <2>1, <3>1, <3>2 DEF SweepInv, Exists
    <2>3. CASE ReapAvailable("final", "report")
      <3>1. pc = "final" /\ pc' = "report" /\ escaped' = escaped /\ blind' = blind
        BY <2>3 DEF ReapAvailable
      <3> QED
        BY <2>1, <3>1 DEF SweepInv, Exists, Nothing
    <2> QED
      BY <1>6, <2>2, <2>3
  <1>7. CASE SweepAgain
    <2>1. ASSUME ~escaped, count = 0 PROVE Nothing(proc)
      BY <1>7, <2>1, PidAssumption
      DEF SweepAgain, SweepInv, Rooted, Pids, TypeInv, TypeOK, PidAssumption
    <2>2. /\ UNCHANGED processes /\ pc' \in {"stop", "final"}
          /\ pc' = "final" => count = 0
      BY <1>7 DEF SweepAgain, TypeInv, TypeOK
    <2> QED
      BY <2>1, <2>2, SweepStill
  <1>8. CASE Finish
    BY <1>8, SweepStill DEF Finish, SweepInv
  <1>9. CASE GuiStarted \/ GuiRead \/ GuiWait \/ OwnerGone
    BY <1>9, SweepStill
    DEF GuiStarted, GuiRead, GuiWait, OwnerGone, supervisor, SweepInv
  <1>10. ASSUME NEW p \in Pids, Fork(p) PROVE SweepInv'
    <2> DEFINE new == [state |-> "running", parent |-> p, session |-> proc[p].session]
    <2>1. PICK q \in Pids : proc[q].state = "free" /\ proc' = [proc EXCEPT ![q] = new]
      BY <1>10 DEF Fork, Exists
    <2>2. new \in Process /\ new.parent = p /\ new.session = proc[p].session
      BY <1>0 DEF Process
    <2>3. proc[p].state = "running"
      BY <1>10 DEF Fork, Runs
    <2> HIDE DEF new
    <2>4. Forest(proc')
      BY <1>0, <2>1, <2>2, <2>3, ForestFork
    <2>5. \A r \in Pids : proc'[r] = IF r = q THEN new ELSE proc[r]
      BY <1>0, <2>1
    <2>6. Rooted(proc, cursor) => Rooted(proc', cursor)
      BY <2>1, <2>5 DEF Rooted
    <2>7. UNCHANGED <<pc, cursor, count, blind, escaped>>
      BY <1>10 DEF Fork, supervisor
    <2>8. ~escaped => \A r \in Pids : proc'[r].state # "free" => proc'[r].session
      BY <2>2, <2>3, <2>5 DEF SweepInv, Exists
    <2> QED
      BY <2>3, <2>4, <2>6, <2>7, <2>8, SweepMoves DEF Nothing
  <1>11. ASSUME NEW p \in Pids, Exit(p) PROVE SweepInv'
    <2>1. proc[p].state # "free" /\ proc' = Dead(proc, p)
          /\ UNCHANGED <<pc, cursor, count, blind, escaped>>
      BY <1>11 DEF Exit, supervisor
    <2>2. /\ Forest(proc') /\ (Rooted(proc, cursor) => Rooted(proc', cursor))
          /\ \A r \in Pids : /\ proc'[r].session = proc[r].session
                             /\ proc'[r].state = "free" <=> proc[r].state = "free"
      BY <1>0, <2>1, ForestDead
    <2>3. ~escaped => \A r \in Pids : proc'[r].state # "free" => proc'[r].session
      BY <2>2 DEF SweepInv, Exists
    <2> QED
      BY <2>1, <2>2, <2>3, SweepMoves DEF Nothing
  <1>12. ASSUME NEW p \in Pids, Wait(p) PROVE SweepInv'
    <2>1. /\ proc[p].state = "zombie" /\ proc[p].parent \in Pids
          /\ proc' = [proc EXCEPT ![p] = NoProcess] /\ UNCHANGED <<pc, cursor, count, blind, escaped>>
      BY <1>12 DEF Wait, supervisor
    <2>2. \A r \in Pids : proc'[r] = IF r = p THEN NoProcess ELSE proc[r]
      BY <1>0, <2>1
    <2>3. proc' \in [Pids -> Process]
      BY <1>0, <2>1
    <2>4. Forest(proc')
      BY <1>0, <2>1, <2>2, <2>3, ForestSame
    <2>5. Rooted(proc, cursor) => Rooted(proc', cursor)
      BY <2>1, <2>2 DEF Rooted, Pids, Supervisor
    <2>6. ~escaped => \A r \in Pids : proc'[r].state # "free" => proc'[r].session
      BY <1>0, <2>2 DEF SweepInv, Exists
    <2> QED
      BY <2>1, <2>4, <2>5, <2>6, SweepMoves DEF Nothing
  <1>13. ASSUME NEW p \in Pids, Setsid(p) PROVE SweepInv'
    <2>1. /\ proc[p].state = "running" /\ escaped' = TRUE
          /\ proc' = [proc EXCEPT ![p].session = FALSE] /\ UNCHANGED <<pc, cursor, count, blind>>
      BY <1>13 DEF Setsid, Runs, supervisor
    <2>2. /\ proc' \in [Pids -> Process]
          /\ \A r \in Pids : proc'[r].parent = proc[r].parent /\ proc'[r].state = proc[r].state
      BY <1>0, <2>1 DEF Process
    <2>3. Forest(proc')
      BY <1>0, <2>2, ForestSame
    <2> QED
      BY <2>1, <2>3, SweepMoves DEF Nothing
  <1> QED
    BY <1>1, <1>2, <1>3, <1>4, <1>k, <1>b, <1>5, <1>6, <1>7, <1>8, <1>9, <1>10, <1>11, <1>12, <1>13
    DEF Next, CloseSession, Walk

\* With any number of processes, process IDs that wrap, forks behind every walk
\* and walks that cannot open /proc, the supervisor reports the end only when the
\* session is empty, unless a process has left it or the walk that should have
\* found somebody could not look.
THEOREM SessionIsGone == Spec => []SessionGone
  <1>1. TypeInv /\ SweepInv => SessionGone
    BY DEF SweepInv, SessionGone, Empty, Nothing, Exists
  <1>2. TypeInv /\ SweepInv /\ [Next]_vars => (TypeInv /\ SweepInv)'
    <2> SUFFICES ASSUME TypeInv, SweepInv, [Next]_vars PROVE (TypeInv /\ SweepInv)'
      OBVIOUS
    <2>1. Forest(proc)
      BY DEF SweepInv
    <2> QED
      BY <2>1, TypeNext, SweepNext
  <1> QED
    BY <1>1, <1>2, TypeInit, SweepInit, PTL DEF Spec

-----------------------------------------------------------------------------
(* The status.                                                             *)

\* The shell as the supervisor's own child, and as one it can reap.
ShellOurs(ps) ==
    ps[Shell].state # "free" /\ ps[Shell].parent = Supervisor /\ ps[Shell].session
ShellDead(ps) == ps[Shell].state = "zombie"

\* Until its status is known the shell is there to be counted and reaped; then its
\* ID stays free as long as every process is in its session.
StatusInv ==
    /\ pc \in {"start", "failed", "check", "poll", "hup"} => status = "none"
    /\ status = "none" /\ pc \notin {"start", "failed"} => ShellOurs(proc)
    /\ status = "none" /\ pc = "count" /\ cursor > 1 => count > 0
    /\ status = "none" /\ pc \in {"final", "report", "done"} => blind
    /\ status # "none" /\ ~escaped => proc[Shell].state = "free"
    /\ status = "reused" => escaped
    /\ pc = "poll" /\ ShellDead(proc) => sigchld

\* The status on its way: in the report, or received.
ReportInv ==
    /\ reports = "FINISHED" \/ received # "none" \/ gui = "finished" => pc = "done"
    /\ received # "none" => received = status
    /\ pc = "done" => reports = "FINISHED" \/ received = status
    /\ gui = "finished" => received = status

\* A step of a process, or of a walk that changes no count, keeps the invariant:
\* the shell stays the supervisor's, its death leaves SIGCHLD pending, and its ID
\* is not given away.
LEMMA StatusMoves ==
  ASSUME TypeInv, StatusInv, UNCHANGED <<pc, status, blind>>,
         escaped => escaped',
         pc = "count" => UNCHANGED <<cursor, count>>,
         ShellOurs(proc) => ShellOurs(proc'),
         ~escaped' /\ proc[Shell].state = "free" => proc'[Shell].state = "free",
         sigchld => sigchld',
         pc = "poll" /\ ShellDead(proc') => ShellDead(proc) \/ sigchld'
  PROVE  StatusInv'
  BY DEF StatusInv

\* The death of any process leaves the shell the supervisor's.
LEMMA ShellAfterDeath ==
  ASSUME NEW ps \in [Pids -> Process], NEW p \in Pids, ShellOurs(ps)
  PROVE  /\ ShellOurs(Dead(ps, p))
         /\ ShellDead(Dead(ps, p)) <=> ShellDead(ps) \/ p = Shell
  <1>1. Shell \in Pids /\ Supervisor \notin Pids
    BY PidAssumption DEF PidAssumption, Shell, Pids, Supervisor
  <1>2. /\ Dead(ps, p)[Shell].state = IF Shell = p THEN "zombie" ELSE ps[Shell].state
        /\ Dead(ps, p)[Shell].session = ps[Shell].session
        /\ Dead(ps, p)[Shell].parent =
               IF Shell # p /\ ps[Shell].parent = p THEN Supervisor ELSE ps[Shell].parent
    BY <1>1, DeadFields
  <1>3. Dead(ps, p)[Shell].state # "free" /\ Dead(ps, p)[Shell].parent = Supervisor
    BY <1>2 DEF ShellOurs
  <1>4. Dead(ps, p)[Shell].session
    BY <1>2 DEF ShellOurs
  <1>5. ShellDead(Dead(ps, p)) <=> ShellDead(ps) \/ p = Shell
    BY <1>2 DEF ShellDead
  <1> QED
    BY <1>3, <1>4, <1>5 DEF ShellOurs

\* Nothing is known and nothing is reported at first.
LEMMA StatusInit == Init => StatusInv /\ ReportInv
  BY DEF Init, StatusInv, ReportInv

\* Every step keeps the invariant of the status.
LEMMA StatusNext ==
  ASSUME TypeInv, SweepInv, StatusInv, [Next]_vars
  PROVE  StatusInv'
  <1>s. CASE UNCHANGED vars
    BY <1>s DEF vars, processes, supervisor, StatusInv, ShellOurs, ShellDead
  <1> SUFFICES ASSUME Next PROVE StatusInv'
    BY <1>s
  <1>0. /\ proc \in [Pids -> Process] /\ Shell \in Pids /\ Supervisor \notin Pids /\ Forest(proc)
        /\ cursor \in Nat /\ cursor >= 1 /\ count \in Nat /\ MaxPid \in Nat \ {0} /\ Shell = 1
        /\ status \in {"none", "real", "reused"}
    BY PidAssumption
    DEF TypeInv, TypeOK, Process, PidAssumption, Shell, Pids, Supervisor, SweepInv
  <1>1. CASE StartShell
    <2>1. pc = "start" /\ status = "none" /\ UNCHANGED <<status, escaped>>
      BY <1>1 DEF StartShell, StatusInv
    <2>2. CASE pc' = "failed"
      BY <2>1, <2>2 DEF StatusInv
    <2>3. CASE /\ proc' = [proc EXCEPT ![Shell] =
                              [state |-> "running", parent |-> Supervisor, session |-> TRUE]]
               /\ pc' = "check"
      <3>1. proc'[Shell] = [state |-> "running", parent |-> Supervisor, session |-> TRUE]
        BY <1>0, <2>3
      <3>2. ShellOurs(proc')
        BY <3>1 DEF ShellOurs
      <3> QED
        BY <2>1, <2>3, <3>2 DEF StatusInv
    <2> QED
      BY <1>1, <2>2, <2>3 DEF StartShell
  <1>2. CASE ShellExited
    <2>1. pc = "check" /\ pc' \in {"hup", "poll"} /\ UNCHANGED status
      BY <1>2 DEF ShellExited
    <2>2. ShellOurs(proc) /\ status = "none"
      BY <2>1 DEF StatusInv
    <2>3. proc'[Shell] = proc[Shell]
      BY <1>0, <1>2 DEF ShellExited, Reaped
    <2>4. pc' = "poll" => ~ShellDead(proc)
      BY <1>0, <1>2, <2>2 DEF ShellExited, ShellDead, ShellOurs, Orphans
    <2> QED
      BY <2>1, <2>2, <2>3, <2>4 DEF StatusInv, ShellOurs, ShellDead
  <1>3. CASE Poll
    <2>1. pc = "poll" /\ pc' \in {"check", "hup"} /\ proc' = proc /\ UNCHANGED status
      BY <1>3 DEF Poll, processes
    <2> QED
      BY <2>1 DEF StatusInv, ShellOurs, ShellDead
  <1>4. ASSUME NEW walk \in {"hup", "stop", "kill", "count"}, Look(walk) PROVE StatusInv'
    <2>1. pc = walk /\ UNCHANGED <<proc, escaped, pc, status, blind, sigchld>>
      BY <1>4 DEF Look, processes
    <2>2. ASSUME status = "none", walk = "count" PROVE count' > 0
      <3>1. CASE cursor > 1
        <4>1. count > 0 /\ count' \in {count, count + 1}
          BY <1>4, <2>1, <2>2, <3>1 DEF Look, StatusInv
        <4> QED
          BY <1>0, <4>1
      <3>2. CASE cursor = 1
        <4>1. Exists(cursor) /\ proc[cursor].session
          BY <1>0, <2>1, <2>2, <3>2 DEF StatusInv, ShellOurs, Exists
        <4>2. count' = count + 1
          BY <1>4, <4>1 DEF Look
        <4> QED
          BY <1>0, <4>2
      <3> QED
        BY <1>0, <3>1, <3>2
    <2> QED
      BY <2>1, <2>2 DEF StatusInv, ShellOurs, ShellDead
  <1>k. ASSUME NEW walk \in {"hup", "stop", "kill"}, Kill(walk) PROVE StatusInv'
    <2>1. pc = walk /\ UNCHANGED <<escaped, pc, status, blind, sigchld>>
      BY <1>k DEF Kill
    <2>2. ShellOurs(proc) => ShellOurs(proc')
      BY <1>0, <1>k, KillSteps DEF ShellOurs
    <2>3. proc[Shell].state = "free" => proc'[Shell].state = "free"
      BY <1>0, <1>k, KillSteps
    <2> QED
      BY <2>1, <2>2, <2>3, StatusMoves
  <1>g. CASE KillGroup
    <2>1. pc = "kill" /\ pc' = "reap" /\ UNCHANGED <<escaped, status, blind>>
      BY <1>g DEF KillGroup, Unread
    <2>2. ShellOurs(proc) => ShellOurs(proc')
      BY <1>0, <1>g, KillGroupSteps DEF ShellOurs
    <2>3. proc[Shell].state = "free" => proc'[Shell].state = "free"
      BY <1>0, <1>g, KillGroupSteps
    <2> QED
      BY <2>1, <2>2, <2>3 DEF StatusInv
  <1>b. CASE SweepBlind
    <2>1. pc = "count" /\ pc' = "final" /\ UNCHANGED <<proc, escaped, status>>
      BY <1>b DEF SweepBlind, Unread, processes
    <2>2. blind'
      BY Zenon, <1>b DEF SweepBlind
    <2> QED
      BY <2>1, <2>2 DEF StatusInv, ShellOurs, ShellDead
  <1>5. CASE \/ WalkEnds("hup", "stop") \/ WalkEnds("stop", "kill") \/ WalkEnds("kill", "reap")
             \/ WalkSkipped("hup", "stop") \/ WalkSkipped("stop", "kill")
    <2>1. /\ UNCHANGED <<proc, escaped, status, blind>>
          /\ pc \in {"hup", "stop", "kill"} /\ pc' \in {"stop", "kill", "reap"}
      BY <1>5 DEF WalkEnds, WalkSkipped, Unread, processes
    <2> QED
      BY <2>1 DEF StatusInv, ShellOurs, ShellDead
  <1>6. ASSUME \/ ReapInLoop \/ ReapAvailable("final", "report")
        PROVE  StatusInv'
    <2>1. /\ proc' = Reaped(proc, Orphans(proc)) /\ UNCHANGED <<escaped, blind>>
          /\ status' = (IF Shell \notin Orphans(proc) THEN status
                        ELSE IF status = "none" THEN "real" ELSE "reused")
          /\ \/ pc = "reap" /\ pc' = "count" /\ cursor' = 1
             \/ pc = "final" /\ pc' = "report"
      BY <1>6 DEF ReapInLoop, ReapAvailable, TypeInv
    <2>2. CASE Shell \notin Orphans(proc)
      <3>1. proc'[Shell] = proc[Shell] /\ status' = status
        BY <1>0, <2>1, <2>2 DEF Reaped
      <3> QED
        BY <1>0, <2>1, <3>1 DEF StatusInv, ShellOurs, ShellDead
    <2>3. CASE Shell \in Orphans(proc)
      <3>1. proc'[Shell] = NoProcess /\ NoProcess.state = "free"
        BY <1>0, <2>1, <2>3 DEF Reaped, NoProcess
      <3>2. proc[Shell].state # "free"
        BY <2>3 DEF Orphans
      <3>3. status' = "reused" => escaped
        BY <2>1, <2>3, <3>2 DEF StatusInv
      <3>4. status' # "none" /\ pc' \in {"count", "report"}
        BY <2>1, <2>3
      <3> QED
        BY <2>1, <3>1, <3>3, <3>4 DEF StatusInv
    <2> QED
      BY <2>2, <2>3
  <1>8. CASE SweepAgain
    <2>1. /\ pc = "count" /\ pc' \in {"stop", "final"} /\ cursor > MaxPid
          /\ pc' = "final" => count = 0
          /\ UNCHANGED <<proc, escaped, status, blind>>
      BY <1>0, <1>8 DEF SweepAgain, processes
    <2>2. status = "none" => count > 0
      BY <1>0, <2>1 DEF StatusInv
    <2> QED
      BY <1>0, <2>1, <2>2 DEF StatusInv, ShellOurs, ShellDead
  <1>9. CASE Finish
    <2>1. pc = "report" /\ pc' = "done" /\ UNCHANGED <<proc, escaped, status, blind>>
      BY <1>9 DEF Finish, processes
    <2> QED
      BY <2>1 DEF StatusInv, ShellOurs, ShellDead
  <1>10. CASE GuiStarted \/ GuiRead \/ GuiWait \/ OwnerGone
    <2>1. UNCHANGED <<proc, escaped, pc, cursor, count, status, blind, sigchld>>
      BY <1>10 DEF GuiStarted, GuiRead, GuiWait, OwnerGone, processes, supervisor
    <2> QED
      BY <2>1 DEF StatusInv, ShellOurs, ShellDead
  <1>11. ASSUME NEW p \in Pids, Fork(p) PROVE StatusInv'
    <2>1. UNCHANGED <<escaped, pc, cursor, count, status, blind, sigchld>>
      BY <1>11 DEF Fork, supervisor
    <2>2. ShellOurs(proc) => proc'[Shell] = proc[Shell]
      BY <1>0, <1>11 DEF Fork, ShellOurs, Exists
    <2>3. pc = "poll" => ShellOurs(proc)
      BY DEF StatusInv
    <2>4. ~escaped => proc'[Shell] = proc[Shell]
      <3> SUFFICES ASSUME ~escaped PROVE proc'[Shell] = proc[Shell]
        OBVIOUS
      <3>1. proc[p].session
        BY <1>11 DEF SweepInv, Exists, Fork, Runs
      <3>2. PICK q \in Pids : /\ q # Shell
                             /\ proc' = [proc EXCEPT ![q] = [state |-> "running", parent |-> p,
                                                             session |-> proc[p].session]]
        BY <1>11, <3>1 DEF Fork
      <3> QED
        BY <1>0, <3>2
    <2> QED
      BY <2>1, <2>2, <2>3, <2>4, StatusMoves DEF ShellOurs, ShellDead
  <1>12. ASSUME NEW p \in Pids, Exit(p) PROVE StatusInv'
    <2>1. /\ UNCHANGED <<escaped, pc, cursor, count, status, blind>>
          /\ proc' = Dead(proc, p) /\ proc[p].state # "free"
      BY <1>12 DEF Exit, supervisor
    <2>2. sigchld => sigchld'
      BY Zenon, <1>12 DEF Exit, Wakes
    <2>3. proc[p].parent = Supervisor => sigchld'
      BY Zenon, <1>12 DEF Exit, Wakes
    <2>4. ShellOurs(proc) => /\ ShellOurs(proc')
                             /\ ShellDead(proc') <=> ShellDead(proc) \/ p = Shell
      BY <1>0, <2>1, ShellAfterDeath
    <2>5. pc = "poll" => ShellOurs(proc)
      BY DEF StatusInv
    <2>6. pc = "poll" /\ ShellDead(proc') => ShellDead(proc) \/ sigchld'
      BY <2>3, <2>4, <2>5 DEF ShellOurs
    <2>7. proc[Shell].state = "free" => proc'[Shell].state = "free"
      BY <1>0, <2>1, ForestDead
    <2> QED
      BY <2>1, <2>2, <2>4, <2>6, <2>7, StatusMoves
  <1>13. ASSUME NEW p \in Pids, Wait(p) PROVE StatusInv'
    <2>1. UNCHANGED <<escaped, pc, cursor, count, status, blind, sigchld>>
      BY <1>13 DEF Wait, supervisor
    <2>2. ShellOurs(proc) => proc'[Shell] = proc[Shell]
      BY <1>0, <1>13 DEF Wait, ShellOurs
    <2>3. pc = "poll" => ShellOurs(proc)
      BY DEF StatusInv
    <2>4. proc[Shell].state = "free" => proc'[Shell].state = "free"
      BY <1>0, <1>13 DEF Wait, NoProcess
    <2> QED
      BY <2>1, <2>2, <2>3, <2>4, StatusMoves DEF ShellOurs, ShellDead
  <1>14. ASSUME NEW p \in Pids, Setsid(p) PROVE StatusInv'
    <2>1. UNCHANGED <<pc, cursor, count, status, blind, sigchld>>
      BY <1>14 DEF Setsid, supervisor
    <2>2. proc'[Shell] = proc[Shell]
      BY <1>0, <1>14 DEF Setsid
    <2>3. escaped'
      BY Zenon, <1>14 DEF Setsid
    <2> QED
      BY <2>1, <2>2, <2>3, StatusMoves DEF ShellOurs, ShellDead
  <1> QED
    BY <1>1, <1>2, <1>3, <1>4, <1>k, <1>g, <1>b, <1>5, <1>6, <1>8, <1>9, <1>10, <1>11, <1>12,
       <1>13, <1>14
    DEF Next, CloseSession, Walk

\* Every step keeps what the report and the terminal hold of the status.
LEMMA ReportNext ==
  ASSUME TypeInv, ReportInv, [Next]_vars
  PROVE  ReportInv'
  <1>0. /\ reports \in {"none", "READY", "ERROR", "FINISHED"}
        /\ received \in {"none", "real", "reused"} /\ status \in {"none", "real", "reused"}
    BY DEF TypeInv, TypeOK
  <1>1. CASE GuiStarted \/ GuiRead \/ GuiWait \/ OwnerGone
    <2>1. UNCHANGED <<pc, status>>
      BY <1>1 DEF GuiStarted, GuiRead, GuiWait, OwnerGone, supervisor
    <2>2. CASE GuiStarted \/ OwnerGone
      <3>1. /\ received' = received /\ (gui' = "finished" => gui = "finished")
            /\ reports' = "FINISHED" <=> reports = "FINISHED"
        BY <1>0, <2>2 DEF GuiStarted, OwnerGone
      <3> QED
        BY <2>1, <3>1 DEF ReportInv
    <2>3. CASE (GuiRead \/ GuiWait) /\ TakeReport /\ (gui' = "finished" => pc = "done")
      <3>1. /\ received' = (IF received = "none" /\ reports = "FINISHED" THEN status ELSE received)
            /\ reports' = (IF reports = "FINISHED" THEN "none" ELSE reports)
        BY <2>3 DEF TakeReport
      <3> QED
        BY <1>0, <2>1, <2>3, <3>1 DEF ReportInv
    <2>4. CASE gui' = "idle" /\ UNCHANGED <<reports, received>>
      BY <2>1, <2>4 DEF ReportInv
    <2> QED
      BY <1>1, <2>2, <2>3, <2>4 DEF GuiRead, GuiWait
  <1>2. CASE Finish
    <2>1. pc = "report" /\ pc' = "done" /\ reports' = "FINISHED" /\ UNCHANGED <<status, gui, received>>
      BY <1>2 DEF Finish
    <2> QED
      BY <2>1 DEF ReportInv
  <1>3. CASE StartShell
    <2>1. pc = "start" /\ reports' # "FINISHED" /\ pc' # "done" /\ UNCHANGED <<gui, received>>
      BY <1>3 DEF StartShell
    <2> QED
      BY <2>1 DEF ReportInv
  <1>4. CASE UNCHANGED vars \/ \E p \in Pids : Fork(p) \/ Exit(p) \/ Wait(p) \/ Setsid(p)
    <2>1. UNCHANGED <<pc, status, reports, gui, received>>
      BY <1>4 DEF vars, processes, supervisor, Fork, Exit, Wait, Setsid
    <2> QED
      BY <2>1 DEF ReportInv
  <1>5. CASE ShellExited \/ Poll \/ (CloseSession /\ ~Finish)
    <2>1. pc # "done" /\ pc' # "done" /\ UNCHANGED <<reports, gui, received>>
      BY <1>5
      DEF ShellExited, Poll, CloseSession, Walk, Look, Kill, WalkEnds, WalkSkipped, Unread,
          KillGroup, ReapInLoop, ReapAvailable, SweepAgain, SweepBlind
    <2> QED
      BY <2>1 DEF ReportInv
  <1> QED
    BY <1>1, <1>2, <1>3, <1>4, <1>5 DEF Next

\* Whatever the jobs do, the status in FINISHED and the one the terminal returns
\* is the shell's own, but for a last walk that could not look and for a process
\* outside the session whose child was given the shell's ID; and the supervisor
\* never sleeps on a dead shell.
THEOREM StatusIsKept == Spec => []StatusKept
  <1>1. TypeInv /\ StatusInv /\ ReportInv => StatusKept
    <2> SUFFICES ASSUME TypeInv, StatusInv, ReportInv PROVE StatusKept
      OBVIOUS
    <2>1. StatusReal
      BY DEF TypeInv, TypeOK, StatusInv, StatusReal
    <2> QED
      BY <2>1 DEF TypeInv, StatusInv, ReportInv, StatusKept, ExitNoticed, GuiStatus, ShellDead
  <1>2. TypeInv /\ SweepInv /\ StatusInv /\ ReportInv /\ [Next]_vars
        => (TypeInv /\ SweepInv /\ StatusInv /\ ReportInv)'
    <2> SUFFICES ASSUME TypeInv, SweepInv, StatusInv, ReportInv, [Next]_vars
                 PROVE  (TypeInv /\ SweepInv /\ StatusInv /\ ReportInv)'
      OBVIOUS
    <2>1. Forest(proc)
      BY DEF SweepInv
    <2> QED
      BY <2>1, TypeNext, SweepNext, StatusNext, ReportNext
  <1> QED
    BY <1>1, <1>2, TypeInit, SweepInit, StatusInit, PTL DEF Spec
=============================================================================
