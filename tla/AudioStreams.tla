---------------------------- MODULE AudioStreams ----------------------------
(***************************************************************************)
(* The policy of fplinux-audiod and its poll loop: which process may open  *)
(* streams, which stream slots its connections own, which streams play,    *)
(* and when a connection or an orphaned stream is ended                     *)
(* (fplinux-audiod/audio-streams.c, and serve() of audiod.c).               *)
(*                                                                         *)
(* audiod is one thread.  A round of serve() is a walk of `round' through   *)
(* its phases; what the manager and the applications send in a phase is     *)
(* any packet at all, because audiod may not trust them.  Deadlines count   *)
(* down in ticks, and time passes only while audiod is blocked in poll():   *)
(* a round reads the clock once.                                            *)
(***************************************************************************)
EXTENDS Integers, FiniteSets

CONSTANTS
    Pids,           \* process IDs that may appear
    Uids,           \* user IDs that may appear
    Nobody,         \* pid 0: a free entry
    NConnections,   \* FPLINUX_AUDIO_CONNECTIONS
    NProcesses,     \* FPLINUX_AUDIO_PROCESSES
    NGone,          \* FPLINUX_AUDIO_GONE
    AppStreams,     \* FPLINUX_AUDIO_APP_STREAMS
    ClientStreams,  \* FPLINUX_AUDIO_CLIENT_STREAMS
    PacketsPerRound,\* PACKETS_PER_ROUND
    HelloTicks,     \* FPLINUX_AUDIO_HELLO_DEADLINE_MS in ticks
    ResyncTicks,    \* FPLINUX_AUDIO_RESYNC_MS in ticks
    CardTicks,      \* the longer of IDLE_MS and RETRY_MS in ticks
    IdMax           \* bound: stream IDs a connection may use up (2^32 - 1)

ASSUME PidsAssumption == Nobody \notin Pids
ASSUME LimitsAssumption ==
    /\ {NConnections, NGone, AppStreams, ClientStreams, PacketsPerRound,
        HelloTicks, ResyncTicks, CardTicks} \subseteq Nat \ {0}
    /\ NProcesses \in Nat
    /\ IdMax \in Nat

Conns == 0 .. NConnections - 1
ClockStreamIndex == AppStreams
Slots == 0 .. AppStreams
GoneSlots == 0 .. NGone - 1
NoDeadline == -1

VARIABLES
    processes,   \* [Pids -> entry]: the manager's announcements
    gone,        \* [GoneSlots -> pid]: processes remembered as gone
    last_gone,   \* the entry of gone written last
    connections, \* [Conns -> connection]
    streams,     \* [Slots -> stream]
    resync,      \* ticks to resync_ms, or NoDeadline
    manager,     \* the control connection exists
    manager_announced,
    timer,       \* ticks to timer_ms, the deadline arm() set last, or NoDeadline
    alarm,       \* the kernel's timerfd: ticks to its expiry, 0 while it can be
                 \* read, or NoDeadline while it is disarmed
    round,       \* the phase of serve()
    watched,     \* connections polled for POLLIN in this round
    cursor,      \* the connection whose revents are served
    packet       \* packets read from it in this round

policy == <<processes, gone, last_gone, manager, manager_announced, resync>>
rings == <<connections, streams>>
loop == <<timer, alarm, round, watched, cursor, packet>>
vars == <<policy, rings, loop>>

-----------------------------------------------------------------------------
(* Data *)

\* struct fplinux_audio_process; `known' is pid # 0.
NoProcess == [known |-> FALSE, uid |-> Nobody, audible |-> FALSE, clock |-> FALSE]
Process(uid, clock) ==
    [known |-> TRUE, uid |-> uid, audible |-> FALSE, clock |-> clock]

\* struct fplinux_audio_connection.  `left' counts down to deadline_ms, which
\* the code reads only in NEW and WAITING; it is 0 in the other states.
FreeConnection == [state |-> "FREE", pid |-> Nobody, uid |-> Nobody,
                   clock |-> FALSE, left |-> 0, last_id |-> 0]
NewConnection(pid, uid) == [state |-> "NEW", pid |-> pid, uid |-> uid,
                            clock |-> FALSE, left |-> HelloTicks, last_id |-> 0]
ReadyConnection(peer, clock) == [state |-> "READY", pid |-> peer.pid, uid |-> peer.uid,
                                 clock |-> clock, left |-> 0, last_id |-> peer.last_id]

\* struct fplinux_audio_stream; `used' is ring # NULL.
NoStream == [used |-> FALSE, connection |-> 0, id |-> 0, paused |-> FALSE]

stream_pid(s) == connections[streams[s].connection].pid
IsGone(pid) == \E i \in GoneSlots : gone[i] = pid
Announced(pid) == processes[pid].known
Audible(pid) == processes[pid].known /\ processes[pid].audible
Pending(c) == connections[c].state \in {"NEW", "WAITING"}

\* A stream slot is read together with the connection that owns it.
OwnedByAppSlots(s, C) ==
    s # ClockStreamIndex /\ streams[s].used /\ streams[s].connection \in C
OwnedBy(s, C) == streams[s].used /\ streams[s].connection \in C

\* fplinux_audio_streams_disconnect for every connection of C: their streams
\* end and their entries are zeroed.
Disconnect(C) ==
    /\ connections' = [c \in Conns |->
                          IF c \in C THEN FreeConnection ELSE connections[c]]
    /\ streams' = [s \in Slots |-> IF OwnedBy(s, C) THEN NoStream ELSE streams[s]]

-----------------------------------------------------------------------------
(* The control socket: read_manager and accept_manager. *)

\* A CLOCK for a second process is refused; so is an unknown process when the
\* table is full, but only after its gone entry was cleared.
ClockTaken(pid) == \E p \in Pids \ {pid} : Announced(p) /\ processes[p].clock
TableFull == Cardinality({p \in Pids : Announced(p)}) >= NProcesses

\* The connections of pid whose HELLO was read, and those among them that the
\* announcement of this uid and role keeps or admits.
Greeted(pid) == {c \in Conns : /\ connections[c].pid = pid
                               /\ connections[c].state \in {"WAITING", "READY"}}
AdmittedAnyUid(pid, uid, clock) ==
    {c \in Greeted(pid) : connections[c].state = "WAITING" \/ connections[c].clock = clock}
Admitted(pid, uid, clock) ==
    {c \in Greeted(pid) : /\ connections[c].uid = uid
                          /\ \/ connections[c].state = "WAITING"
                             \/ connections[c].clock = clock}

announce(pid, uid, clock) ==
    IF clock /\ ClockTaken(pid)
    THEN UNCHANGED <<processes, gone, rings>>
    ELSE
      /\ gone' = [i \in GoneSlots |-> IF gone[i] = pid THEN Nobody ELSE gone[i]]
      /\ IF ~Announced(pid) /\ TableFull
         THEN UNCHANGED <<processes, rings>>
         ELSE LET kept == Admitted(pid, uid, clock)
                  closed == Greeted(pid) \ kept IN
           /\ processes' = [processes EXCEPT ![pid] = Process(uid, clock)]
           /\ connections' = [c \in Conns |->
                 IF c \in kept THEN ReadyConnection(connections[c], clock)
                 ELSE IF c \in closed THEN FreeConnection
                 ELSE connections[c]]
           /\ streams' = [s \in Slots |->
                 IF OwnedBy(s, closed) THEN NoStream ELSE streams[s]]

\* GONE: every connection of the process closes, whatever its state.
Leaving(pid) == {c \in Conns : connections[c].pid = pid}

forget(pid) ==
    /\ Disconnect(Leaving(pid))
    /\ processes' = [processes EXCEPT ![pid] = NoProcess]
    /\ IF IsGone(pid)
       THEN UNCHANGED <<gone, last_gone>>
       ELSE LET next == (last_gone + 1) % NGone IN
            last_gone' = next /\ gone' = [gone EXCEPT ![next] = pid]

Reading == round = "manager" /\ manager

App(pid, uid, clock) ==
    /\ Reading
    /\ announce(pid, uid, clock)
    /\ manager_announced' = TRUE
    /\ UNCHANGED <<last_gone, manager, resync, loop>>

Gone(pid) ==
    /\ Reading
    /\ forget(pid)
    /\ manager_announced' = TRUE
    /\ UNCHANGED <<manager, resync, loop>>

\* AUDIBLE for an unknown process is ignored.
SetAudible(pid, audible) ==
    /\ Reading
    /\ processes' = IF Announced(pid)
                    THEN [processes EXCEPT ![pid].audible = audible]
                    ELSE processes
    /\ manager_announced' = TRUE
    /\ UNCHANGED <<gone, last_gone, manager, resync, rings, loop>>

\* Before the first other command of a connection, VOLUME restarts the
\* resynchronization deadline.
Volume ==
    /\ Reading
    /\ resync' = IF manager_announced THEN resync ELSE ResyncTicks
    /\ UNCHANGED <<processes, gone, last_gone, manager, manager_announced, rings, loop>>

\* drop_manager: the process table and the gone entries are forgotten.
ForgetManager ==
    /\ processes' = [p \in Pids |-> NoProcess]
    /\ gone' = [i \in GoneSlots |-> Nobody]
    /\ manager_announced' = FALSE
    /\ UNCHANGED <<last_gone, rings, loop>>

\* The manager hung up, or the reply to VOLUME could not be sent.
DropManager ==
    /\ Reading
    /\ ForgetManager
    /\ manager' = FALSE
    /\ resync' = NoDeadline

\* A new manager replaces the old one.
AcceptManager ==
    /\ round = "control"
    /\ IF manager THEN ForgetManager
       ELSE UNCHANGED <<processes, gone, last_gone, manager_announced, rings, loop>>
    /\ manager' = TRUE
    /\ resync' = ResyncTicks

-----------------------------------------------------------------------------
(* The stream connections: handle() of one packet, and accept_streams. *)

\* Receive(c, Do): one iteration of fplinux_audio_streams_receive.  The
\* packets behind a HELLO that waits stay queued.
MayReceive(c) ==
    /\ round = "connections"
    /\ cursor = c
    /\ c \in watched
    /\ packet < PacketsPerRound
    /\ connections[c].state \in {"NEW", "READY"}

ReceiveDone(c) ==
    /\ packet' = packet + 1
    /\ UNCHANGED <<policy, timer, alarm, round, watched, cursor>>

Hello(c) ==
    /\ MayReceive(c)
    /\ LET entry == processes[connections[c].pid] IN
       IF connections[c].state # "NEW" \/ (~entry.known /\ IsGone(connections[c].pid))
                                       \/ (entry.known /\ entry.uid # connections[c].uid)
       THEN Disconnect({c})
       ELSE /\ connections' =
                 IF entry.known
                 THEN [connections EXCEPT ![c] = ReadyConnection(@, entry.clock)]
                 ELSE [connections EXCEPT ![c].state = "WAITING"]
            /\ UNCHANGED streams
    /\ ReceiveDone(c)

\* open_stream: the slots the role may use, the first free one, and the
\* streams of the process among them.
RoleSlots(clock) == IF clock THEN {ClockStreamIndex} ELSE Slots \ {ClockStreamIndex}
IsFirstFree(s, clock) ==
    /\ s \in RoleSlots(clock)
    /\ ~streams[s].used
    /\ \A t \in RoleSlots(clock) : ~streams[t].used => s <= t
MineHere(c) == {s \in RoleSlots(connections[c].clock) : OwnedBy(s, {c})}
Mine(c) == {s \in RoleSlots(connections[c].clock) :
               streams[s].used /\ stream_pid(s) = connections[c].pid}
RoleLimit(c) == IF connections[c].clock THEN 1 ELSE ClientStreams

\* OPEN before READY closes the connection.  A refusal (EINVAL, EMFILE,
\* EBUSY, ENOMEM) leaves everything as it was.
OpenRefused(c) ==
    /\ MayReceive(c)
    /\ IF connections[c].state # "READY" THEN Disconnect({c}) ELSE UNCHANGED rings
    /\ ReceiveDone(c)

\* The ID of a connection's next stream.
NextId(c) == connections[c].last_id + 1

\* update() gives the new stream its first state before OPENED is sent.  A
\* send that fails takes the stream back and closes the connection.
Open(c, sent) ==
    /\ MayReceive(c)
    /\ connections[c].state = "READY"
    /\ connections[c].last_id < IdMax
    /\ Cardinality(Mine(c)) < RoleLimit(c)
    /\ \E s \in Slots :
         /\ IsFirstFree(s, connections[c].clock)
         /\ IF ~sent
            THEN Disconnect({c})
            ELSE /\ connections' = [connections EXCEPT ![c].last_id = NextId(c)]
                 /\ streams' = [streams EXCEPT ![s] =
                      [used |-> TRUE, connection |-> c,
                       id |-> NextId(c),
                       paused |-> ~Audible(connections[c].pid)]]
    /\ ReceiveDone(c)

\* CLOSE of an ID the connection does not own is ignored; KICK only wakes the
\* loop and is a CLOSE of no stream here.
Close(c, id) ==
    /\ MayReceive(c)
    /\ IF connections[c].state # "READY"
       THEN Disconnect({c})
       ELSE /\ streams' = [s \in Slots |->
                 IF OwnedBy(s, {c}) /\ streams[s].id = id THEN NoStream ELSE streams[s]]
            /\ UNCHANGED connections
    /\ ReceiveDone(c)

\* A malformed packet, an ERROR that cannot be sent, or the end of the
\* connection (hang-up without POLLIN included, which also reaches a connection
\* that waits).
HangUp(c) ==
    /\ round = "connections"
    /\ cursor = c
    /\ connections[c].state # "FREE"
    /\ Disconnect({c})
    /\ UNCHANGED <<policy, loop>>

AcceptStream(pid, uid) ==
    /\ round = "streams"
    /\ \E c \in Conns :
         /\ connections[c].state = "FREE"
         /\ \A d \in Conns : d < c => connections[d].state # "FREE"
         /\ connections' = [connections EXCEPT ![c] = NewConnection(pid, uid)]
    /\ UNCHANGED <<policy, streams, loop>>

-----------------------------------------------------------------------------
(* The rest of a round. *)

\* fplinux_audio_streams_expire: READY connections whose process was not
\* announced again with the same uid and role when resync_ms passes, and
\* connections whose HELLO was not answered in time.
OrphansKnown == {c \in Conns :
    /\ connections[c].state = "READY"
    /\ LET entry == processes[connections[c].pid] IN
       entry.known /\ ~(entry.uid = connections[c].uid /\ entry.clock = connections[c].clock)}
Orphans == {c \in Conns :
    /\ connections[c].state = "READY"
    /\ LET entry == processes[connections[c].pid] IN
       ~(entry.known /\ entry.uid = connections[c].uid
                     /\ entry.clock = connections[c].clock)}
LateNew == {c \in Conns : connections[c].state = "NEW" /\ connections[c].left = 0}
Late == {c \in Conns : Pending(c) /\ connections[c].left = 0}

Expire ==
    /\ round = "expire"
    /\ Disconnect(Late \cup (IF resync = 0 THEN Orphans ELSE {}))
    /\ resync' = IF resync = 0 THEN NoDeadline ELSE resync
    /\ round' = "advance"
    /\ UNCHANGED <<processes, gone, last_gone, manager, manager_announced,
                   timer, alarm, watched, cursor, packet>>

\* The deadlines fplinux_audio_streams_expire returns the least of; those of the
\* card, which AudioRing models, are any deadline here.
Deadlines == {connections[c].left : c \in {d \in Conns : Pending(d)}}
             \cup (IF resync = NoDeadline THEN {} ELSE {resync})
IsNext(t, card) ==
    LET all == Deadlines \cup ({card} \ {NoDeadline}) IN
    \/ all = {} /\ t = NoDeadline
    \/ t \in all /\ \A d \in all : t <= d

\* arm(): the timerfd is set only when the deadline is not the one set last.
armOnce(deadline) ==
    IF timer # NoDeadline
    THEN UNCHANGED <<timer, alarm>>
    ELSE timer' = deadline /\ alarm' = deadline
arm(deadline) ==
    IF deadline = timer
    THEN UNCHANGED <<timer, alarm>>
    ELSE timer' = deadline /\ alarm' = deadline

\* fplinux_audio_streams_refresh: update() of every stream.
Refreshed(s) ==
    IF streams[s].used
    THEN [streams[s] EXCEPT !.paused = ~Audible(stream_pid(s))]
    ELSE streams[s]

\* advance() and arm(): the policy reaches every ring before the next period.
\* A stream that may play ends when its application's write counter is more
\* than the ring ahead, whether refresh or the mixer finds it.
Advance(broken, card) ==
    /\ round = "advance"
    /\ \A s \in broken : streams[s].used /\ Audible(stream_pid(s))
    /\ streams' = [s \in Slots |-> IF s \in broken THEN NoStream ELSE Refreshed(s)]
    /\ \E deadline \in NoDeadline .. HelloTicks + ResyncTicks + CardTicks :
          IsNext(deadline, card) /\ arm(deadline)
    /\ round' = "poll"
    /\ UNCHANGED <<policy, connections, watched, cursor, packet>>

\* poll() returns: watch() asked for POLLIN on connections that do not wait.  A
\* timerfd that expired is read, which disarms it, and timer_ms forgets it.
Wake ==
    /\ round = "poll"
    /\ round' = "manager"
    /\ watched' = {c \in Conns : connections[c].state \in {"NEW", "READY"}}
    /\ alarm' = IF alarm = 0 THEN NoDeadline ELSE alarm
    /\ timer' = IF alarm = 0 THEN NoDeadline ELSE timer
    /\ UNCHANGED <<policy, rings, cursor, packet>>

ManagerServed ==
    /\ round = "manager"
    /\ round' = "control"
    /\ UNCHANGED <<policy, rings, timer, alarm, watched, cursor, packet>>

ControlServed ==
    /\ round = "control"
    /\ round' = "connections"
    /\ UNCHANGED <<policy, rings, timer, alarm, watched, cursor, packet>>

ConnectionServed ==
    /\ round = "connections"
    /\ packet' = 0
    /\ IF cursor + 1 < NConnections
       THEN cursor' = cursor + 1 /\ UNCHANGED <<round, watched>>
       ELSE cursor' = 0 /\ watched' = {} /\ round' = "streams"
    /\ UNCHANGED <<policy, rings, timer, alarm>>

StreamsServed ==
    /\ round = "streams"
    /\ round' = "expire"
    /\ UNCHANGED <<policy, rings, timer, alarm, watched, cursor, packet>>

\* SIGTERM or SIGINT: serve() returns and every connection is closed.
Stop ==
    /\ round = "poll"
    /\ round' = "stopped"
    /\ Disconnect(Conns)
    /\ UNCHANGED <<policy, timer, alarm, watched, cursor, packet>>

Down(t) == IF t > 0 THEN t - 1 ELSE t
Tick ==
    /\ round = "poll"
    /\ connections' = [c \in Conns |->
          [connections[c] EXCEPT !.left = IF Pending(c) THEN Down(@) ELSE @]]
    /\ resync' = Down(resync)
    /\ timer' = Down(timer)
    /\ alarm' = Down(alarm)
    /\ UNCHANGED <<processes, gone, last_gone, manager, manager_announced, streams,
                   round, watched, cursor, packet>>

-----------------------------------------------------------------------------
(* The specification. *)

Init ==
    /\ processes = [p \in Pids |-> NoProcess]
    /\ gone = [i \in GoneSlots |-> Nobody]
    /\ last_gone = 0
    /\ connections = [c \in Conns |-> FreeConnection]
    /\ streams = [s \in Slots |-> NoStream]
    /\ resync = NoDeadline
    /\ manager = FALSE
    /\ manager_announced = FALSE
    /\ timer = NoDeadline
    /\ alarm = NoDeadline
    /\ round = "poll"
    /\ watched = {}
    /\ cursor = 0
    /\ packet = 0

Control ==
    \/ \E pid \in Pids, uid \in Uids, clock \in BOOLEAN : App(pid, uid, clock)
    \/ \E pid \in Pids : Gone(pid)
    \/ \E pid \in Pids, audible \in BOOLEAN : SetAudible(pid, audible)
    \/ Volume
    \/ DropManager
    \/ AcceptManager

Streams ==
    \/ \E c \in Conns : Hello(c) \/ OpenRefused(c) \/ HangUp(c)
    \/ \E c \in Conns, sent \in BOOLEAN : Open(c, sent)
    \/ \E c \in Conns, id \in 0 .. IdMax : Close(c, id)
    \/ \E pid \in Pids, uid \in Uids : AcceptStream(pid, uid)

\* The steps audiod takes by itself once poll() has returned.
Serve ==
    \/ ManagerServed \/ ControlServed \/ ConnectionServed \/ StreamsServed
    \/ Expire
    \/ \E broken \in SUBSET Slots, card \in {NoDeadline} \cup 1 .. CardTicks :
          Advance(broken, card)

Next == Control \/ Streams \/ Serve \/ Wake \/ Tick \/ Stop

Spec == Init /\ [][Next]_vars

\* audiod runs (SCHED_FIFO when it may), and an expired timerfd ends poll().
\* Time passes however busy the loop is: Tick is strongly fair because the
\* model lets it happen only between rounds.  A read loop ends when its socket
\* is empty: the peers do not send faster than audiod reads for ever.
Fairness ==
    /\ WF_vars(Serve)
    /\ SF_vars(Tick)
    /\ WF_vars(Wake /\ alarm = 0)

FairSpec == Spec /\ Fairness

-----------------------------------------------------------------------------
(* Properties. *)

\* The tables of audio-streams.c and the variables of serve() keep their types.
TypeOK ==
    /\ processes \in [Pids -> [known : BOOLEAN, uid : Uids \cup {Nobody},
                               audible : BOOLEAN, clock : BOOLEAN]]
    /\ gone \in [GoneSlots -> Pids \cup {Nobody}]
    /\ last_gone \in GoneSlots
    /\ connections \in [Conns -> [state : {"FREE", "NEW", "WAITING", "READY"},
                                  pid : Pids \cup {Nobody},
                                  uid : Uids \cup {Nobody},
                                  clock : BOOLEAN,
                                  left : 0 .. HelloTicks,
                                  last_id : 0 .. IdMax]]
    /\ streams \in [Slots -> [used : BOOLEAN, connection : Conns,
                              id : 0 .. IdMax, paused : BOOLEAN]]
    /\ resync \in NoDeadline .. ResyncTicks
    /\ manager \in BOOLEAN
    /\ manager_announced \in BOOLEAN
    /\ timer \in NoDeadline .. HelloTicks + ResyncTicks + CardTicks
    /\ alarm \in NoDeadline .. HelloTicks + ResyncTicks + CardTicks
    /\ round \in {"poll", "manager", "control", "connections", "streams",
                  "expire", "advance", "stopped"}
    /\ watched \subseteq Conns
    /\ cursor \in Conns
    /\ packet \in 0 .. PacketsPerRound

\* A slot in use belongs to a READY connection of the slot's role, under an ID
\* that connection has handed out: only the clock helper is ever in the
\* reserved slot, and no stream outlives its connection.
StreamsOwned ==
    \A s \in Slots : streams[s].used =>
        LET owner == connections[streams[s].connection] IN
        /\ owner.state = "READY"
        /\ owner.clock = (s = ClockStreamIndex)
        /\ streams[s].id \in 1 .. owner.last_id

\* find_stream() is unambiguous: two streams of a connection differ in ID.
IdsUnique ==
    \A s, t \in Slots :
        (/\ streams[s].used /\ streams[t].used
         /\ streams[s].connection = streams[t].connection
         /\ streams[s].id = streams[t].id) => s = t

\* FPLINUX_AUDIO_CLIENT_STREAMS bounds the streams of a process over all of
\* its connections, and no process holds streams of both roles.
ClientLimit ==
    \A p \in Pids :
        LET mine == {s \in Slots : streams[s].used /\ stream_pid(s) = p} IN
        mine = {ClockStreamIndex} \/
        (ClockStreamIndex \notin mine /\ Cardinality(mine) <= ClientStreams)

\* A READY connection agrees with its process's entry and with the other READY
\* connections of its pid in uid and role, across every order of manager
\* reconnects, role changes and late HELLOs.
RolesAgree ==
    \A c \in Conns : connections[c].state = "READY" =>
        /\ Announced(connections[c].pid) =>
              /\ processes[connections[c].pid].uid = connections[c].uid
              /\ processes[connections[c].pid].clock = connections[c].clock
        /\ \A d \in Conns :
              connections[d].state = "READY" /\ connections[d].pid = connections[c].pid =>
                 /\ connections[d].uid = connections[c].uid
                 /\ connections[d].clock = connections[c].clock

\* There is at most one clock helper at a time, and the table stays in bounds.
OneClock ==
    /\ \A p, q \in Pids : (/\ Announced(p) /\ processes[p].clock
                           /\ Announced(q) /\ processes[q].clock) => p = q
    /\ Cardinality({p \in Pids : Announced(p)}) <= NProcesses

\* A process remembered as gone is not announced, and none of its connections
\* waits or has streams: its HELLO can only be refused.
GoneStaysOut ==
    \A p \in Pids : IsGone(p) =>
        /\ ~Announced(p)
        /\ Greeted(p) = {}
        /\ Cardinality({i \in GoneSlots : gone[i] = p}) = 1

\* A HELLO waits only while its process is not announced: APP and CLOCK answer
\* every HELLO that came before them.
WaitingUnannounced ==
    \A c \in Conns : connections[c].state = "WAITING" => ~Announced(connections[c].pid)

\* Once a manager is connected and the resynchronization deadline has passed,
\* every connection that may hold streams belongs to an announced process.
ManagerCovers ==
    manager /\ resync = NoDeadline =>
        \A c \in Conns : connections[c].state = "READY" => Announced(connections[c].pid)

\* Whenever audiod blocks in poll(), the kernel's timer ends the wait no later
\* than the first deadline it has to keep, although arm() leaves the timerfd alone
\* when it believes it to be set already and other deadlines come and go.
TimerCovers ==
    round = "poll" => \A d \in Deadlines : alarm # NoDeadline /\ alarm <= d

\* The stream slots as a whole: find_stream() and the mixer find the one
\* stream that a packet names, and it has an owner.
StreamTable == StreamsOwned /\ IdsUnique

\* Who may hold what, across announcements, refusals and departures.
Admission == ClientLimit /\ OneClock /\ GoneStaysOut /\ WaitingUnannounced

\* Every connection is admitted or closed: a HELLO before its APP is not left
\* waiting, and a connection without a HELLO does not keep its slot.
HelloAnswered ==
    \A c \in Conns : Pending(c) ~> ~Pending(c)
=============================================================================
