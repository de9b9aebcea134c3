------------------------- MODULE AudioStreamsProofs -------------------------
(***************************************************************************)
(* For tables of every size, whatever the manager and the applications     *)
(* send: a stream slot belongs to a connection that the manager admitted,   *)
(* no process gets more than its share, and audiod blocks only with the     *)
(* timer set for its first deadline.                                        *)
(***************************************************************************)
EXTENDS AudioStreams, FiniteSetTheorems, TLAPS

ConnectionType == [state : {"FREE", "NEW", "WAITING", "READY"},
                   pid : Pids \cup {Nobody}, uid : Uids \cup {Nobody},
                   clock : BOOLEAN, left : 0 .. HelloTicks, last_id : 0 .. IdMax]
StreamType == [used : BOOLEAN, connection : Conns, id : 0 .. IdMax, paused : BOOLEAN]
ProcessType == [known : BOOLEAN, uid : Uids \cup {Nobody}, audible : BOOLEAN, clock : BOOLEAN]

\* The three parts of TypeOK: the manager's announcements, the tables that hold
\* the streams, and the loop.
PolicyType ==
    /\ processes \in [Pids -> ProcessType]
    /\ gone \in [GoneSlots -> Pids \cup {Nobody}]
    /\ last_gone \in GoneSlots
    /\ resync \in NoDeadline .. ResyncTicks
    /\ manager \in BOOLEAN
    /\ manager_announced \in BOOLEAN
RingsType ==
    /\ connections \in [Conns -> ConnectionType]
    /\ streams \in [Slots -> StreamType]
LoopType ==
    /\ timer \in NoDeadline .. HelloTicks + ResyncTicks + CardTicks
    /\ alarm \in NoDeadline .. HelloTicks + ResyncTicks + CardTicks
    /\ round \in {"poll", "manager", "control", "connections", "streams",
                  "expire", "advance", "stopped"}
    /\ watched \subseteq Conns
    /\ cursor \in Conns
    /\ packet \in 0 .. PacketsPerRound

\* A connection in use has the process ID the kernel gave for its peer.
PeersKnown == \A c \in Conns : connections[c].state # "FREE" => connections[c].pid \in Pids

\* The inductive invariant.
StreamsInv ==
    /\ PolicyType /\ RingsType /\ LoopType
    /\ PeersKnown
    /\ StreamsOwned
    /\ IdsUnique
    /\ RolesAgree
    /\ ManagerCovers

\* The limits are counts and the tables are not empty.
LEMMA Limits ==
  /\ NConnections \in Nat \ {0} /\ NGone \in Nat \ {0} /\ AppStreams \in Nat \ {0}
  /\ PacketsPerRound \in Nat \ {0} /\ HelloTicks \in Nat \ {0} /\ ResyncTicks \in Nat \ {0}
  /\ CardTicks \in Nat \ {0} /\ IdMax \in Nat
  /\ 0 \in Conns /\ 0 \in GoneSlots /\ Nobody \notin Pids
  BY LimitsAssumption, PidsAssumption DEF LimitsAssumption, PidsAssumption, Conns, GoneSlots

\* The parts are the type invariant of the component.
LEMMA TypeParts == TypeOK <=> PolicyType /\ RingsType /\ LoopType
  BY DEF TypeOK, PolicyType, RingsType, LoopType, ConnectionType, StreamType, ProcessType

\* Empty entries are entries.
LEMMA EmptyEntries ==
  /\ FreeConnection \in ConnectionType
  /\ NoStream \in StreamType
  /\ NoProcess \in ProcessType
  BY Limits DEF FreeConnection, ConnectionType, NoStream, StreamType, NoProcess, ProcessType

\* An admitted connection keeps its peer and its IDs and takes the role.
LEMMA ReadyEntry ==
  ASSUME NEW peer \in ConnectionType, NEW role \in BOOLEAN
  PROVE  /\ ReadyConnection(peer, role) \in ConnectionType
         /\ ReadyConnection(peer, role).state = "READY"
         /\ ReadyConnection(peer, role).pid = peer.pid
         /\ ReadyConnection(peer, role).uid = peer.uid
         /\ ReadyConnection(peer, role).clock = role
         /\ ReadyConnection(peer, role).last_id = peer.last_id
  <1>1. 0 \in 0 .. HelloTicks
    BY Limits
  <1>2. /\ peer.pid \in Pids \cup {Nobody} /\ peer.uid \in Uids \cup {Nobody}
        /\ peer.last_id \in 0 .. IdMax
    BY DEF ConnectionType
  <1>3. ReadyConnection(peer, role) \in ConnectionType
    BY <1>1, <1>2 DEF ReadyConnection, ConnectionType
  <1>4. /\ ReadyConnection(peer, role).state = "READY"
        /\ ReadyConnection(peer, role).pid = peer.pid
        /\ ReadyConnection(peer, role).uid = peer.uid
        /\ ReadyConnection(peer, role).last_id = peer.last_id
    BY DEF ReadyConnection
  <1>5. ReadyConnection(peer, role).clock = role
    BY DEF ReadyConnection
  <1> QED
    BY <1>3, <1>4, <1>5

-----------------------------------------------------------------------------
(* Steps that admit nobody and open nothing. *)

\* A connection that is READY afterwards was READY before, for the same process
\* in the same role.
Kept(c) ==
    connections'[c].state = "READY" =>
        /\ connections[c].state = "READY"
        /\ connections'[c].pid = connections[c].pid
        /\ connections'[c].uid = connections[c].uid
        /\ connections'[c].clock = connections[c].clock
        /\ connections'[c].last_id = connections[c].last_id

\* A stream that is left was there before, and so is its connection.
Left(s) ==
    streams'[s].used =>
        /\ streams[s].used
        /\ streams'[s].connection = streams[s].connection
        /\ streams'[s].id = streams[s].id
        /\ connections'[streams[s].connection].state = "READY"

Shrinks == (\A c \in Conns : Kept(c)) /\ (\A s \in Slots : Left(s))

\* No announcement appears or changes its user or role.
Withdraws ==
    \A p \in Pids : processes'[p].known =>
        /\ processes[p].known
        /\ processes'[p].uid = processes[p].uid
        /\ processes'[p].clock = processes[p].clock

\* What is left of the streams is owned as before.
LEMMA ShrinkingOwned ==
  ASSUME RingsType, StreamsOwned, IdsUnique, Shrinks
  PROVE  StreamsOwned' /\ IdsUnique'
  <1>1. \A s \in Slots : streams[s].connection \in Conns
    BY DEF RingsType, StreamType
  <1>2. StreamsOwned'
    BY <1>1 DEF StreamsOwned, Shrinks, Kept, Left
  <1>3. IdsUnique'
    BY DEF IdsUnique, Shrinks, Left
  <1> QED
    BY <1>2, <1>3

\* Connections and announcements that are left agree as before.
LEMMA ShrinkingAgrees ==
  ASSUME PeersKnown, RolesAgree, \A c \in Conns : Kept(c), Withdraws
  PROVE  RolesAgree'
  BY DEF PeersKnown, RolesAgree, Kept, Withdraws, Announced

\* Disconnecting a set of connections only takes away.
LEMMA Disconnects ==
  ASSUME RingsType, StreamsOwned, PeersKnown, NEW C, Disconnect(C)
  PROVE  /\ RingsType' /\ PeersKnown' /\ Shrinks
         /\ \A c \in Conns : connections'[c] = IF c \in C THEN FreeConnection ELSE connections[c]
  <1>1. \A c \in Conns : connections'[c] = IF c \in C THEN FreeConnection ELSE connections[c]
    BY DEF Disconnect
  <1>2. \A s \in Slots : streams'[s] = IF OwnedBy(s, C) THEN NoStream ELSE streams[s]
    BY DEF Disconnect
  <1>3. RingsType'
    BY EmptyEntries DEF RingsType, Disconnect
  <1>4. PeersKnown'
    BY <1>1 DEF PeersKnown, FreeConnection
  <1>5. \A c \in Conns : Kept(c)
    BY <1>1 DEF Kept, FreeConnection
  <1>6. \A s \in Slots : Left(s)
    <2> TAKE s \in Slots
    <2>1. streams[s].connection \in Conns
      BY DEF RingsType, StreamType
    <2>2. CASE OwnedBy(s, C)
      BY <1>2, <2>2 DEF Left, NoStream
    <2>3. CASE ~OwnedBy(s, C)
      BY <1>1, <1>2, <2>1, <2>3 DEF Left, OwnedBy, StreamsOwned
    <2> QED
      BY <2>2, <2>3
  <1> QED
    BY <1>1, <1>3, <1>4, <1>5, <1>6 DEF Shrinks

-----------------------------------------------------------------------------
(* The manager's commands. *)

\* An announcement admits the HELLOs that wait for it and closes the connections
\* it contradicts; what stays agrees with it.
LEMMA AppInv ==
  ASSUME StreamsInv, NEW pid \in Pids, NEW uid \in Uids, NEW clock \in BOOLEAN,
         App(pid, uid, clock)
  PROVE  StreamsInv'
  <1> DEFINE kept == Admitted(pid, uid, clock)
             closed == Greeted(pid) \ kept
             refused == (clock /\ ClockTaken(pid)) \/ (~Announced(pid) /\ TableFull)
  <1>1. gone' \in [GoneSlots -> Pids \cup {Nobody}]
    BY DEF App, announce, StreamsInv, PolicyType
  <1>2. LoopType'
    BY DEF App, loop, StreamsInv, LoopType
  <1>3. manager_announced' \in BOOLEAN
    BY Zenon DEF App
  <1>4. CASE refused
    <2>1. UNCHANGED <<processes, connections, streams, last_gone, manager, resync>>
      BY <1>4 DEF App, announce, rings
    <2> QED
      BY <1>1, <1>2, <1>3, <2>1
         DEF StreamsInv, PolicyType, RingsType, PeersKnown, StreamsOwned, IdsUnique, RolesAgree,
             ManagerCovers, Announced
  <1>5. CASE ~refused
    <2>1. /\ processes' = [processes EXCEPT ![pid] = Process(uid, clock)]
          /\ connections' = [c \in Conns |->
                IF c \in kept THEN ReadyConnection(connections[c], clock)
                ELSE IF c \in closed THEN FreeConnection
                ELSE connections[c]]
          /\ streams' = [s \in Slots |->
                IF OwnedBy(s, closed) THEN NoStream ELSE streams[s]]
          /\ UNCHANGED <<last_gone, manager, resync>>
      BY <1>5 DEF App, announce
    <2>2. /\ \A c \in kept : /\ c \in Conns
                             /\ connections[c].pid = pid
                             /\ connections[c].uid = uid
                             /\ connections[c].state # "FREE"
          /\ \A c \in closed : c \in Conns /\ c \notin kept
          /\ \A c \in Conns : /\ connections[c].state = "READY"
                              /\ connections[c].pid = pid
                              => c \in kept \/ c \in closed
          /\ \A c \in kept : connections[c].state = "READY" => connections[c].clock = clock
      BY DEF Admitted, Greeted
    <2> HIDE DEF kept, closed
    <2>3. \A c \in kept : /\ connections'[c].state = "READY"
                          /\ connections'[c].pid = pid
                          /\ connections'[c].uid = uid
                          /\ connections'[c].clock = clock
                          /\ connections'[c].last_id = connections[c].last_id
                          /\ connections'[c] \in ConnectionType
      <3> TAKE c \in kept
      <3>1. connections'[c] = ReadyConnection(connections[c], clock) /\ c \in Conns
        BY <2>1, <2>2
      <3>2. connections[c] \in ConnectionType
        BY <3>1 DEF StreamsInv, RingsType
      <3>3. connections[c].pid = pid /\ connections[c].uid = uid
        BY <2>2, <3>1
      <3>4. /\ ReadyConnection(connections[c], clock) \in ConnectionType
            /\ ReadyConnection(connections[c], clock).state = "READY"
            /\ ReadyConnection(connections[c], clock).pid = connections[c].pid
            /\ ReadyConnection(connections[c], clock).uid = connections[c].uid
            /\ ReadyConnection(connections[c], clock).clock = clock
            /\ ReadyConnection(connections[c], clock).last_id = connections[c].last_id
        BY <3>2, ReadyEntry
      <3> QED
        BY <3>1, <3>3, <3>4
    <2>4. \A c \in closed : connections'[c] = FreeConnection
      BY <2>1, <2>2
    <2>5. \A c \in Conns : c \notin kept /\ c \notin closed => connections'[c] = connections[c]
      BY <2>1, <2>2
    <2>6. \A s \in Slots : streams'[s] = IF OwnedBy(s, closed) THEN NoStream ELSE streams[s]
      BY <2>1
    <2>7. \A p \in Pids : processes'[p] = IF p = pid THEN Process(uid, clock) ELSE processes[p]
      BY <2>1 DEF StreamsInv, PolicyType
    <2>8. PolicyType'
      <3>1. Process(uid, clock) \in ProcessType
        BY DEF Process, ProcessType
      <3> QED
        BY <1>1, <1>3, <2>1, <3>1 DEF StreamsInv, PolicyType
    <2>9. RingsType'
      <3>1. \A c \in Conns : connections'[c] \in ConnectionType
        BY <2>2, <2>3, <2>4, <2>5, EmptyEntries DEF StreamsInv, RingsType
      <3>2. connections' \in [Conns -> ConnectionType]
        BY <2>1, <3>1
      <3>3. streams' \in [Slots -> StreamType]
        BY <2>1, EmptyEntries DEF StreamsInv, RingsType
      <3> QED
        BY <3>2, <3>3 DEF RingsType
    <2>10. PeersKnown'
      BY <2>2, <2>3, <2>4, <2>5 DEF StreamsInv, PeersKnown, FreeConnection
    <2>11. \A c \in Conns : connections'[c].state = "READY" =>
             IF connections'[c].pid = pid
             THEN connections'[c].uid = uid /\ connections'[c].clock = clock
             ELSE connections'[c] = connections[c]
      BY <2>2, <2>3, <2>4, <2>5 DEF FreeConnection
    <2>12. RolesAgree'
      <3>1. Process(uid, clock).uid = uid /\ Process(uid, clock).clock = clock
        BY DEF Process
      <3> QED
        BY <2>7, <2>10, <2>11, <3>1 DEF StreamsInv, RolesAgree, PeersKnown, Announced
    <2>13. ManagerCovers'
      <3>1. Process(uid, clock).known
        BY DEF Process
      <3> QED
        BY <2>1, <2>7, <2>10, <2>11, <3>1 DEF StreamsInv, ManagerCovers, PeersKnown, Announced
    <2>14. \A s \in Slots : streams'[s].used =>
             /\ streams'[s] = streams[s]
             /\ connections'[streams[s].connection].state = "READY"
             /\ connections'[streams[s].connection].clock = connections[streams[s].connection].clock
             /\ connections'[streams[s].connection].last_id = connections[streams[s].connection].last_id
      <3> TAKE s \in Slots
      <3> HAVE streams'[s].used
      <3>1. streams'[s] = streams[s] /\ ~OwnedBy(s, closed)
        BY <2>6 DEF NoStream
      <3>2. streams[s].connection \in Conns \ closed
        BY <3>1 DEF OwnedBy, StreamsInv, RingsType, StreamType
      <3>3. connections[streams[s].connection].state = "READY"
        BY <3>1 DEF StreamsInv, StreamsOwned
      <3> QED
        BY <2>2, <2>3, <2>5, <3>1, <3>2, <3>3
    <2>15. StreamsOwned' /\ IdsUnique'
      BY <2>14 DEF StreamsInv, StreamsOwned, IdsUnique
    <2> QED
      BY <1>2, <2>8, <2>9, <2>10, <2>12, <2>13, <2>15 DEF StreamsInv
  <1> QED
    BY <1>4, <1>5

\* GONE takes the process and everything of it away.
LEMMA GoneInv ==
  ASSUME StreamsInv, NEW pid \in Pids, Gone(pid)
  PROVE  StreamsInv'
  <1>1. /\ Disconnect(Leaving(pid))
        /\ processes' = [processes EXCEPT ![pid] = NoProcess]
        /\ UNCHANGED <<manager, resync, loop>>
    BY DEF Gone, forget
  <1>2. RingsType' /\ PeersKnown' /\ Shrinks
        /\ \A c \in Conns : connections'[c] =
               IF c \in Leaving(pid) THEN FreeConnection ELSE connections[c]
    BY <1>1, Disconnects DEF StreamsInv
  <1>3. PolicyType'
    <2>1. (last_gone + 1) % NGone \in GoneSlots
      BY Limits DEF StreamsInv, PolicyType, GoneSlots
    <2>2. /\ gone' \in [GoneSlots -> Pids \cup {Nobody}]
          /\ last_gone' \in GoneSlots
      BY <2>1 DEF Gone, forget, StreamsInv, PolicyType
    <2>3. manager_announced' \in BOOLEAN
      BY Zenon DEF Gone
    <2> QED
      BY <1>1, <2>2, <2>3, EmptyEntries DEF StreamsInv, PolicyType
  <1>4. LoopType'
    BY <1>1 DEF loop, StreamsInv, LoopType
  <1>5. Withdraws
    BY <1>1 DEF Withdraws, NoProcess, StreamsInv, PolicyType
  <1>6. StreamsOwned' /\ IdsUnique'
    BY <1>2, ShrinkingOwned DEF StreamsInv
  <1>7. RolesAgree'
    BY <1>2, <1>5, ShrinkingAgrees DEF StreamsInv, Shrinks
  <1>8. ManagerCovers'
    BY <1>1, <1>2 DEF StreamsInv, ManagerCovers, Announced, Leaving, FreeConnection, PolicyType,
                      PeersKnown
  <1> QED
    BY <1>2, <1>3, <1>4, <1>6, <1>7, <1>8 DEF StreamsInv

\* A step that admits nobody, opens nothing and announces nothing keeps the
\* invariant when it keeps the types and the manager's cover.
LEMMA Shrinking ==
  ASSUME StreamsInv, PolicyType', RingsType', LoopType', PeersKnown', Shrinks, Withdraws,
         ManagerCovers'
  PROVE  StreamsInv'
  <1>1. StreamsOwned' /\ IdsUnique'
    BY ShrinkingOwned DEF StreamsInv
  <1>2. RolesAgree'
    BY ShrinkingAgrees DEF StreamsInv, Shrinks
  <1> QED
    BY <1>1, <1>2 DEF StreamsInv

\* Nothing changes in the tables of the streams.
LEMMA RingsUnchanged ==
  ASSUME StreamsInv, UNCHANGED <<connections, streams>>
  PROVE  RingsType' /\ PeersKnown' /\ Shrinks
  <1>1. \A s \in Slots : Left(s)
    BY DEF Left, StreamsInv, StreamsOwned
  <1>2. \A c \in Conns : Kept(c)
    BY DEF Kept
  <1> QED
    BY <1>1, <1>2 DEF StreamsInv, RingsType, PeersKnown, Shrinks

\* AUDIBLE changes neither user nor role.
LEMMA SetAudibleInv ==
  ASSUME StreamsInv, NEW pid \in Pids, NEW audible \in BOOLEAN, SetAudible(pid, audible)
  PROVE  StreamsInv'
  <1>1. /\ processes' = IF Announced(pid) THEN [processes EXCEPT ![pid].audible = audible]
                        ELSE processes
        /\ UNCHANGED <<gone, last_gone, manager, resync, connections, streams, loop>>
    BY DEF SetAudible, rings
  <1>2. manager_announced' \in BOOLEAN
    BY Zenon DEF SetAudible
  <1>3. PolicyType'
    BY <1>1, <1>2 DEF StreamsInv, PolicyType, ProcessType
  <1>4. LoopType'
    BY <1>1 DEF StreamsInv, LoopType, loop
  <1>5. RingsType' /\ PeersKnown' /\ Shrinks
    BY <1>1, RingsUnchanged
  <1>6. \A p \in Pids : /\ processes'[p].known = processes[p].known
                        /\ processes'[p].uid = processes[p].uid
                        /\ processes'[p].clock = processes[p].clock
    BY <1>1 DEF StreamsInv, PolicyType, ProcessType
  <1>7. Withdraws
    BY <1>6 DEF Withdraws
  <1>8. ManagerCovers'
    BY <1>1, <1>6 DEF StreamsInv, ManagerCovers, Announced, PeersKnown
  <1> QED
    BY <1>3, <1>4, <1>5, <1>7, <1>8, Shrinking

\* VOLUME only restarts the resynchronization.
LEMMA VolumeInv ==
  ASSUME StreamsInv, Volume
  PROVE  StreamsInv'
  <1>1. UNCHANGED <<processes, gone, last_gone, manager, manager_announced, connections,
                    streams, loop>>
    BY DEF Volume, rings
  <1>2. resync' \in NoDeadline .. ResyncTicks /\ (resync' = NoDeadline => resync = NoDeadline)
    BY Limits DEF Volume, StreamsInv, PolicyType, NoDeadline
  <1>3. PolicyType' /\ LoopType' /\ Withdraws
    BY <1>1, <1>2 DEF StreamsInv, PolicyType, LoopType, loop, Withdraws
  <1>4. ManagerCovers'
    BY <1>1, <1>2 DEF StreamsInv, ManagerCovers, Announced
  <1> QED
    BY <1>1, <1>3, <1>4, RingsUnchanged, Shrinking

\* A manager that leaves takes its announcements along; the streams stay until
\* the next one has had its time.
LEMMA ForgetManagerInv ==
  ASSUME StreamsInv, ForgetManager, manager' \in BOOLEAN,
         resync' \in NoDeadline .. ResyncTicks, ~manager' \/ resync' # NoDeadline
  PROVE  StreamsInv'
  <1>1. /\ processes' = [p \in Pids |-> NoProcess]
        /\ gone' = [i \in GoneSlots |-> Nobody]
        /\ UNCHANGED <<last_gone, connections, streams, loop>>
    BY DEF ForgetManager, rings
  <1>2. manager_announced' \in BOOLEAN
    BY Zenon DEF ForgetManager
  <1>3. PolicyType'
    BY <1>1, <1>2, EmptyEntries DEF StreamsInv, PolicyType
  <1>4. LoopType'
    BY <1>1 DEF StreamsInv, LoopType, loop
  <1>5. Withdraws
    BY <1>1 DEF Withdraws, NoProcess
  <1>6. ManagerCovers'
    BY DEF ManagerCovers
  <1> QED
    BY <1>1, <1>3, <1>4, <1>5, <1>6, RingsUnchanged, Shrinking

\* The manager hangs up.
LEMMA DropManagerInv ==
  ASSUME StreamsInv, DropManager
  PROVE  StreamsInv'
  <1>1. manager' \in BOOLEAN /\ ~manager'
    BY Zenon DEF DropManager
  <1>2. resync' \in NoDeadline .. ResyncTicks
    BY Limits DEF DropManager, NoDeadline
  <1> QED
    BY <1>1, <1>2, ForgetManagerInv DEF DropManager

\* A manager connects, or replaces the one before.
LEMMA AcceptManagerInv ==
  ASSUME StreamsInv, AcceptManager
  PROVE  StreamsInv'
  <1>1. manager' \in BOOLEAN
    BY Zenon DEF AcceptManager
  <1>2. resync' \in NoDeadline .. ResyncTicks /\ resync' # NoDeadline
    BY Limits DEF AcceptManager, NoDeadline
  <1>3. CASE manager
    BY <1>1, <1>2, <1>3, ForgetManagerInv DEF AcceptManager
  <1>4. CASE ~manager
    <2>1. UNCHANGED <<processes, gone, last_gone, manager_announced, connections, streams, loop>>
      BY <1>4 DEF AcceptManager, rings
    <2>2. PolicyType' /\ LoopType' /\ Withdraws
      BY <1>1, <1>2, <2>1 DEF StreamsInv, PolicyType, LoopType, loop, Withdraws
    <2>3. ManagerCovers'
      BY <1>2 DEF ManagerCovers
    <2> QED
      BY <2>1, <2>2, <2>3, RingsUnchanged, Shrinking
  <1> QED
    BY <1>3, <1>4

-----------------------------------------------------------------------------
(* The connections' packets. *)

\* While the policy stays, a step that only takes away keeps the invariant.
LEMMA PolicyStays ==
  ASSUME StreamsInv, UNCHANGED policy, RingsType', LoopType', PeersKnown', Shrinks
  PROVE  StreamsInv'
  <1>1. UNCHANGED <<processes, gone, last_gone, manager, manager_announced, resync>>
    BY DEF policy
  <1>2. PolicyType' /\ Withdraws
    BY <1>1 DEF StreamsInv, PolicyType, Withdraws
  <1>3. ManagerCovers'
    BY <1>1 DEF StreamsInv, ManagerCovers, Announced, Shrinks, Kept
  <1> QED
    BY <1>2, <1>3, Shrinking

\* Closing connections while the policy stays.
LEMMA DisconnectInv ==
  ASSUME StreamsInv, NEW C, Disconnect(C), UNCHANGED policy, LoopType'
  PROVE  StreamsInv'
  <1>1. RingsType' /\ PeersKnown' /\ Shrinks
    BY Disconnects DEF StreamsInv
  <1> QED
    BY <1>1, PolicyStays

\* A packet read is a packet counted.
LEMMA ReceiveLoop ==
  ASSUME StreamsInv, NEW c \in Conns, MayReceive(c), ReceiveDone(c)
  PROVE  LoopType' /\ UNCHANGED policy
  <1>1. packet' = packet + 1 /\ packet < PacketsPerRound
    BY DEF MayReceive, ReceiveDone
  <1>2. packet' \in 0 .. PacketsPerRound
    BY <1>1, Limits DEF StreamsInv, LoopType
  <1>3. UNCHANGED <<policy, timer, alarm, round, watched, cursor>>
    BY DEF ReceiveDone
  <1> QED
    BY <1>2, <1>3 DEF StreamsInv, LoopType

\* A HELLO is refused, waits for its announcement, or is admitted as the
\* process was announced.
LEMMA HelloInv ==
  ASSUME StreamsInv, NEW c \in Conns, Hello(c)
  PROVE  StreamsInv'
  <1> DEFINE entry == processes[connections[c].pid]
             refused == \/ connections[c].state # "NEW"
                        \/ ~entry.known /\ IsGone(connections[c].pid)
                        \/ entry.known /\ entry.uid # connections[c].uid
  <1>1. LoopType' /\ UNCHANGED policy
    BY ReceiveLoop DEF Hello
  <1>2. CASE refused
    <2>1. Disconnect({c})
      BY <1>2 DEF Hello
    <2> QED
      BY <1>1, <2>1, DisconnectInv
  <1>3. CASE ~refused
    <2>1. /\ connections' = IF entry.known
                            THEN [connections EXCEPT ![c] = ReadyConnection(@, entry.clock)]
                            ELSE [connections EXCEPT ![c].state = "WAITING"]
          /\ streams' = streams
          /\ connections[c].state = "NEW"
      BY <1>3 DEF Hello
    <2>2. connections[c].pid \in Pids
      BY <2>1 DEF StreamsInv, PeersKnown
    <2>3. entry \in ProcessType /\ connections[c] \in ConnectionType
      BY <2>2 DEF StreamsInv, PolicyType, RingsType
    <2>4. \A s \in Slots : streams[s].used =>
            /\ streams[s].connection # c
            /\ streams[s].connection \in Conns
            /\ connections[streams[s].connection].state = "READY"
      BY <2>1 DEF StreamsInv, StreamsOwned, RingsType, StreamType
    <2>5. \A d \in Conns : d # c => connections'[d] = connections[d]
      BY <2>1 DEF StreamsInv, RingsType
    <2>6. UNCHANGED <<processes, gone, last_gone, manager, manager_announced, resync>>
      BY <1>1 DEF policy
    <2>7. CASE ~entry.known
      <3>1. connections' = [connections EXCEPT ![c].state = "WAITING"]
        BY <2>1, <2>7
      <3>2. /\ connections'[c].state = "WAITING"
            /\ connections'[c].pid = connections[c].pid
        BY <2>3, <3>1 DEF StreamsInv, RingsType, ConnectionType
      <3>3. RingsType'
        BY <2>1, <2>3, <3>1 DEF StreamsInv, RingsType, ConnectionType
      <3>4. PeersKnown'
        BY <2>2, <2>5, <3>2 DEF StreamsInv, PeersKnown
      <3>5. \A d \in Conns : Kept(d)
        BY <2>5, <3>2 DEF Kept
      <3>6. \A s \in Slots : Left(s)
        BY <2>1, <2>4, <2>5 DEF Left
      <3> QED
        BY <1>1, <3>3, <3>4, <3>5, <3>6, PolicyStays DEF Shrinks
    <2>8. CASE entry.known
      <3>1. connections' = [connections EXCEPT ![c] = ReadyConnection(connections[c], entry.clock)]
        BY <2>1, <2>8
      <3>2. entry.clock \in BOOLEAN /\ entry.uid = connections[c].uid
        BY <1>3, <2>3, <2>8 DEF ProcessType
      <3>3. connections'[c] = ReadyConnection(connections[c], entry.clock)
        BY <3>1 DEF StreamsInv, RingsType
      <3>4. /\ ReadyConnection(connections[c], entry.clock) \in ConnectionType
            /\ ReadyConnection(connections[c], entry.clock).state = "READY"
            /\ ReadyConnection(connections[c], entry.clock).pid = connections[c].pid
            /\ ReadyConnection(connections[c], entry.clock).uid = connections[c].uid
            /\ ReadyConnection(connections[c], entry.clock).clock = entry.clock
        BY <2>3, <3>2, ReadyEntry
      <3>5. RingsType'
        BY <2>1, <3>1, <3>4 DEF StreamsInv, RingsType
      <3>6. PeersKnown'
        BY <2>2, <2>5, <3>3, <3>4 DEF StreamsInv, PeersKnown
      <3>7. PolicyType'
        BY <2>6 DEF StreamsInv, PolicyType
      <3>8. StreamsOwned' /\ IdsUnique'
        BY <2>1, <2>4, <2>5 DEF StreamsInv, StreamsOwned, IdsUnique
      <3>9. /\ connections'[c].pid = connections[c].pid
            /\ connections'[c].uid = entry.uid
            /\ connections'[c].clock = entry.clock
        BY <3>2, <3>3, <3>4
      <3>10. \A d \in Conns : connections[d].state = "READY" /\ connections[d].pid = connections[c].pid
               => connections[d].uid = entry.uid /\ connections[d].clock = entry.clock
        BY <2>8 DEF StreamsInv, RolesAgree, Announced
      <3>11. RolesAgree'
        <4> HIDE DEF entry
        <4>1. \A d \in Conns : connections'[d].state = "READY" =>
                IF connections'[d].pid = connections[c].pid
                THEN connections'[d].uid = entry.uid /\ connections'[d].clock = entry.clock
                ELSE connections'[d] = connections[d]
          BY <2>5, <3>9, <3>10
        <4> QED
          BY <2>6, <4>1 DEF StreamsInv, RolesAgree, Announced, entry
      <3>12. ManagerCovers'
        BY <2>5, <2>6, <2>8, <3>9 DEF StreamsInv, ManagerCovers, Announced
      <3> QED
        BY <1>1, <3>5, <3>6, <3>7, <3>8, <3>11, <3>12 DEF StreamsInv
    <2> QED
      BY <2>7, <2>8
  <1> QED
    BY <1>2, <1>3

\* OPEN before READY closes the connection, a refused one changes nothing.
LEMMA OpenRefusedInv ==
  ASSUME StreamsInv, NEW c \in Conns, OpenRefused(c)
  PROVE  StreamsInv'
  <1>1. LoopType' /\ UNCHANGED policy
    BY ReceiveLoop DEF OpenRefused
  <1>2. CASE connections[c].state # "READY"
    BY <1>1, <1>2, DisconnectInv DEF OpenRefused
  <1>3. CASE connections[c].state = "READY"
    <2>1. UNCHANGED <<connections, streams>>
      BY <1>3 DEF OpenRefused, rings
    <2> QED
      BY <1>1, <2>1, RingsUnchanged, PolicyStays
  <1> QED
    BY <1>2, <1>3

\* A new stream takes a free slot of its role under an ID that no stream of its
\* connection has.
LEMMA OpenInv ==
  ASSUME StreamsInv, NEW c \in Conns, NEW sent \in BOOLEAN, Open(c, sent)
  PROVE  StreamsInv'
  <1>1. LoopType' /\ UNCHANGED policy
    BY ReceiveLoop DEF Open
  <1>2. CASE ~sent
    BY <1>1, <1>2, DisconnectInv DEF Open
  <1>3. CASE sent
    <2> DEFINE opened == [used |-> TRUE, connection |-> c, id |-> NextId(c),
                          paused |-> ~Audible(connections[c].pid)]
    <2>1. PICK s \in Slots :
            /\ IsFirstFree(s, connections[c].clock)
            /\ connections' = [connections EXCEPT ![c].last_id = NextId(c)]
            /\ streams' = [streams EXCEPT ![s] = opened]
      BY <1>3 DEF Open
    <2>2. connections[c].state = "READY" /\ connections[c].last_id < IdMax
      BY DEF Open
    <2>3. connections[c] \in ConnectionType /\ connections[c].clock \in BOOLEAN
      BY DEF StreamsInv, RingsType, ConnectionType
    <2>4. NextId(c) \in 1 .. IdMax /\ NextId(c) = connections[c].last_id + 1
      BY <2>2, <2>3, Limits DEF NextId, ConnectionType
    <2>5. connections[c].clock = (s = ClockStreamIndex)
      BY <2>1, <2>3 DEF IsFirstFree, RoleSlots
    <2>6. opened \in StreamType
      <3>1. (~Audible(connections[c].pid)) \in BOOLEAN
        BY Zenon
      <3> HIDE DEF Audible
      <3>2. NextId(c) \in 0 .. IdMax
        BY <2>4, Limits
      <3> QED
        BY <3>1, <3>2 DEF StreamType
    <2>7. opened.used /\ opened.connection = c /\ opened.id = NextId(c)
      BY Zenon
    <2> HIDE DEF opened
    <2>8. /\ \A t \in Slots : streams'[t] = IF t = s THEN opened ELSE streams[t]
          /\ streams' \in [Slots -> StreamType]
      BY <2>1, <2>6 DEF StreamsInv, RingsType
    <2>9. /\ connections'[c].state = connections[c].state
          /\ connections'[c].pid = connections[c].pid
          /\ connections'[c].uid = connections[c].uid
          /\ connections'[c].clock = connections[c].clock
          /\ connections'[c].last_id = NextId(c)
      BY <2>1, <2>3 DEF StreamsInv, RingsType, ConnectionType
    <2>10. \A d \in Conns : d # c => connections'[d] = connections[d]
      BY <2>1 DEF StreamsInv, RingsType
    <2>11. connections' \in [Conns -> ConnectionType]
      <3>1. NextId(c) \in 0 .. IdMax
        BY <2>4, Limits
      <3> QED
        BY <2>1, <2>3, <3>1 DEF StreamsInv, RingsType, ConnectionType
    <2>12. UNCHANGED <<processes, gone, last_gone, manager, manager_announced, resync>>
      BY <1>1 DEF policy
    <2>13. \A d \in Conns : /\ connections'[d].state = connections[d].state
                            /\ connections'[d].pid = connections[d].pid
                            /\ connections'[d].uid = connections[d].uid
                            /\ connections'[d].clock = connections[d].clock
      BY <2>9, <2>10
    <2>14. PolicyType' /\ RingsType' /\ PeersKnown'
      BY <2>8, <2>11, <2>12, <2>13 DEF StreamsInv, PolicyType, RingsType, PeersKnown
    <2>15. RolesAgree' /\ ManagerCovers'
      BY <2>12, <2>13 DEF StreamsInv, RolesAgree, ManagerCovers, Announced
    <2>16. \A t \in Slots : streams[t].used /\ streams[t].connection = c
             => streams[t].id \in 1 .. connections[c].last_id
      BY DEF StreamsInv, StreamsOwned
    <2>17. StreamsOwned'
      <3> SUFFICES ASSUME NEW t \in Slots, streams'[t].used
                   PROVE  /\ connections'[streams'[t].connection].state = "READY"
                          /\ connections'[streams'[t].connection].clock = (t = ClockStreamIndex)
                          /\ streams'[t].id \in 1 .. connections'[streams'[t].connection].last_id
        BY DEF StreamsOwned
      <3>1. CASE t = s
        BY <2>2, <2>4, <2>5, <2>7, <2>8, <2>9, <3>1, Limits
      <3>2. CASE t # s
        <4>1. streams'[t] = streams[t] /\ streams[t].connection \in Conns
          BY <2>8, <3>2 DEF StreamsInv, RingsType, StreamType
        <4>2. /\ connections[streams[t].connection].state = "READY"
              /\ connections[streams[t].connection].clock = (t = ClockStreamIndex)
              /\ streams[t].id \in 1 .. connections[streams[t].connection].last_id
          BY <4>1 DEF StreamsInv, StreamsOwned
        <4>3. CASE streams[t].connection = c
          <5>1. streams[t].id \in 1 .. NextId(c)
            BY <2>3, <2>4, <4>2, <4>3, Limits DEF ConnectionType
          <5> QED
            BY <2>9, <4>1, <4>2, <4>3, <5>1
        <4>4. CASE streams[t].connection # c
          BY <2>10, <4>1, <4>2, <4>4
        <4> QED
          BY <4>3, <4>4
      <3> QED
        BY <3>1, <3>2
    <2>18. \A t \in Slots : streams[t].used /\ streams[t].connection = c
             => streams[t].id # NextId(c)
      BY <2>3, <2>4, <2>16 DEF ConnectionType
    <2>19. IdsUnique'
      BY <2>7, <2>8, <2>18 DEF StreamsInv, IdsUnique
    <2> QED
      BY <1>1, <2>14, <2>15, <2>17, <2>19 DEF StreamsInv
  <1> QED
    BY <1>2, <1>3

\* CLOSE ends at most the stream it names.
LEMMA CloseInv ==
  ASSUME StreamsInv, NEW c \in Conns, NEW id \in 0 .. IdMax, Close(c, id)
  PROVE  StreamsInv'
  <1>1. LoopType' /\ UNCHANGED policy
    BY ReceiveLoop DEF Close
  <1>2. CASE connections[c].state # "READY"
    BY <1>1, <1>2, DisconnectInv DEF Close
  <1>3. CASE connections[c].state = "READY"
    <2>1. /\ streams' = [s \in Slots |->
                IF OwnedBy(s, {c}) /\ streams[s].id = id THEN NoStream ELSE streams[s]]
          /\ connections' = connections
      BY <1>3 DEF Close
    <2>2. \A s \in Slots : streams'[s] = streams[s] \/ streams'[s] = NoStream
      BY <2>1
    <2>3. RingsType' /\ PeersKnown'
      BY <2>1, EmptyEntries DEF StreamsInv, RingsType, PeersKnown
    <2>4. \A s \in Slots : Left(s)
      BY <2>1, <2>2 DEF Left, NoStream, StreamsInv, StreamsOwned
    <2>5. \A d \in Conns : Kept(d)
      BY <2>1 DEF Kept
    <2> QED
      BY <1>1, <2>3, <2>4, <2>5, PolicyStays DEF Shrinks
  <1> QED
    BY <1>2, <1>3

\* The end of a connection.
LEMMA HangUpInv ==
  ASSUME StreamsInv, NEW c \in Conns, HangUp(c)
  PROVE  StreamsInv'
  <1>1. Disconnect({c}) /\ UNCHANGED <<policy, loop>>
    BY DEF HangUp
  <1>2. LoopType'
    BY <1>1 DEF loop, StreamsInv, LoopType
  <1> QED
    BY <1>1, <1>2, DisconnectInv

\* A new connection has no role and no stream.
LEMMA AcceptStreamInv ==
  ASSUME StreamsInv, NEW pid \in Pids, NEW uid \in Uids, AcceptStream(pid, uid)
  PROVE  StreamsInv'
  <1>1. PICK c \in Conns : /\ connections[c].state = "FREE"
                           /\ connections' = [connections EXCEPT ![c] = NewConnection(pid, uid)]
    BY DEF AcceptStream
  <1>2. UNCHANGED <<policy, streams, loop>>
    BY DEF AcceptStream
  <1>3. /\ NewConnection(pid, uid) \in ConnectionType
        /\ NewConnection(pid, uid).state = "NEW"
        /\ NewConnection(pid, uid).pid = pid
    BY Limits DEF NewConnection, ConnectionType
  <1>4. \A d \in Conns : connections'[d] = IF d = c THEN NewConnection(pid, uid)
                                           ELSE connections[d]
    BY <1>1 DEF StreamsInv, RingsType
  <1>5. RingsType' /\ LoopType'
    BY <1>1, <1>2, <1>3 DEF StreamsInv, RingsType, LoopType, loop
  <1>6. PeersKnown'
    BY <1>3, <1>4 DEF StreamsInv, PeersKnown
  <1>7. \A d \in Conns : Kept(d)
    BY <1>3, <1>4 DEF Kept
  <1>8. \A s \in Slots : Left(s)
    BY <1>1, <1>2, <1>4 DEF Left, StreamsInv, StreamsOwned, RingsType, StreamType
  <1> QED
    BY <1>2, <1>5, <1>6, <1>7, <1>8, PolicyStays DEF Shrinks

-----------------------------------------------------------------------------
(* The loop. *)

\* When the resynchronization ends, the streams nobody announced again end
\* before the deadline is forgotten.
LEMMA ExpireInv ==
  ASSUME StreamsInv, Expire
  PROVE  StreamsInv'
  <1> DEFINE C == Late \cup (IF resync = 0 THEN Orphans ELSE {})
  <1>1. /\ Disconnect(C)
        /\ resync' = IF resync = 0 THEN NoDeadline ELSE resync
        /\ round' = "advance"
        /\ UNCHANGED <<processes, gone, last_gone, manager, manager_announced,
                       timer, alarm, watched, cursor, packet>>
    BY DEF Expire
  <1>2. resync = 0 => \A c \in Conns \ C : connections[c].state = "READY" =>
                        processes[connections[c].pid].known
    BY DEF Orphans
  <1> HIDE DEF C
  <1>3. /\ RingsType' /\ PeersKnown' /\ Shrinks
        /\ \A c \in Conns : connections'[c] = IF c \in C THEN FreeConnection ELSE connections[c]
    BY <1>1, Disconnects DEF StreamsInv
  <1>4. resync' \in NoDeadline .. ResyncTicks
    BY <1>1, Limits DEF StreamsInv, PolicyType, NoDeadline
  <1>5. PolicyType' /\ LoopType' /\ Withdraws
    BY <1>1, <1>4 DEF StreamsInv, PolicyType, LoopType, Withdraws
  <1>6. ManagerCovers'
    <2> SUFFICES ASSUME manager', resync' = NoDeadline, NEW c \in Conns,
                        connections'[c].state = "READY"
                 PROVE  processes'[connections'[c].pid].known
      BY DEF ManagerCovers, Announced
    <2>1. c \notin C /\ connections'[c] = connections[c]
      BY <1>3 DEF FreeConnection
    <2>2. CASE resync = 0
      BY <1>1, <1>2, <2>1, <2>2
    <2>3. CASE resync # 0
      BY <1>1, <2>1, <2>3 DEF StreamsInv, ManagerCovers, Announced
    <2> QED
      BY <2>2, <2>3
  <1> QED
    BY <1>3, <1>5, <1>6, Shrinking

\* A period ends streams or changes whether they play.
LEMMA AdvanceInv ==
  ASSUME StreamsInv, NEW broken \in SUBSET Slots, NEW card, Advance(broken, card)
  PROVE  StreamsInv'
  <1>1. /\ streams' = [s \in Slots |-> IF s \in broken THEN NoStream ELSE Refreshed(s)]
        /\ \E deadline \in NoDeadline .. HelloTicks + ResyncTicks + CardTicks : arm(deadline)
        /\ round' = "poll"
        /\ UNCHANGED <<policy, connections, watched, cursor, packet>>
    BY DEF Advance
  <1>2. /\ timer' \in NoDeadline .. HelloTicks + ResyncTicks + CardTicks
        /\ alarm' \in NoDeadline .. HelloTicks + ResyncTicks + CardTicks
    BY <1>1 DEF arm, StreamsInv, LoopType
  <1>3. LoopType'
    BY <1>1, <1>2 DEF StreamsInv, LoopType
  <1>4. \A s \in Slots : /\ Refreshed(s) \in StreamType
                         /\ Refreshed(s).used = streams[s].used
                         /\ Refreshed(s).connection = streams[s].connection
                         /\ Refreshed(s).id = streams[s].id
    <2> TAKE s \in Slots
    <2>1. streams[s] \in StreamType
      BY DEF StreamsInv, RingsType
    <2>2. (~Audible(stream_pid(s))) \in BOOLEAN
      BY Zenon
    <2> QED
      BY <2>1, <2>2 DEF Refreshed, StreamType
  <1>5. RingsType' /\ PeersKnown'
    BY <1>1, <1>4, EmptyEntries DEF StreamsInv, RingsType, PeersKnown
  <1>6. \A c \in Conns : Kept(c)
    BY <1>1 DEF Kept
  <1>7. \A s \in Slots : streams'[s] = NoStream \/ streams'[s] = Refreshed(s)
    BY <1>1
  <1>8. \A s \in Slots : Left(s)
    BY <1>1, <1>4, <1>7 DEF Left, NoStream, StreamsInv, StreamsOwned
  <1> QED
    BY <1>1, <1>3, <1>5, <1>6, <1>8, PolicyStays DEF Shrinks

\* The steps that only move the loop on.
LEMMA LoopInv ==
  ASSUME StreamsInv,
         Wake \/ ManagerServed \/ ControlServed \/ ConnectionServed \/ StreamsServed
  PROVE  StreamsInv'
  <1>1. UNCHANGED <<policy, connections, streams>>
    BY DEF Wake, ManagerServed, ControlServed, ConnectionServed, StreamsServed, rings
  <1>2. LoopType'
    <2>1. CASE Wake
      BY <2>1, Limits DEF Wake, StreamsInv, LoopType, NoDeadline
    <2>2. CASE ManagerServed \/ ControlServed \/ StreamsServed
      BY <2>2 DEF ManagerServed, ControlServed, StreamsServed, StreamsInv, LoopType
    <2>3. CASE ConnectionServed
      <3>1. packet' \in 0 .. PacketsPerRound
        BY <2>3, Limits DEF ConnectionServed
      <3>2. cursor' \in Conns
        BY <2>3, Limits DEF ConnectionServed, StreamsInv, LoopType, Conns
      <3>3. watched' \subseteq Conns
        BY <2>3 DEF ConnectionServed, StreamsInv, LoopType
      <3> QED
        BY <2>3, <3>1, <3>2, <3>3 DEF ConnectionServed, StreamsInv, LoopType
    <2> QED
      BY <2>1, <2>2, <2>3
  <1> QED
    BY <1>1, <1>2, RingsUnchanged, PolicyStays

\* SIGTERM closes every connection.
LEMMA StopInv ==
  ASSUME StreamsInv, Stop
  PROVE  StreamsInv'
  <1>1. LoopType' /\ UNCHANGED policy
    BY DEF Stop, StreamsInv, LoopType
  <1> QED
    BY <1>1, DisconnectInv DEF Stop

\* Time only runs the deadlines down, and none below zero.
LEMMA TickInv ==
  ASSUME StreamsInv, Tick
  PROVE  StreamsInv'
  <1>1. /\ connections' = [c \in Conns |->
              [connections[c] EXCEPT !.left = IF Pending(c) THEN Down(@) ELSE @]]
        /\ resync' = Down(resync)
        /\ timer' = Down(timer) /\ alarm' = Down(alarm)
        /\ UNCHANGED <<processes, gone, last_gone, manager, manager_announced, streams,
                       round, watched, cursor, packet>>
    BY DEF Tick
  <1>2. /\ resync' \in NoDeadline .. ResyncTicks
        /\ resync' = NoDeadline => resync = NoDeadline
        /\ timer' \in NoDeadline .. HelloTicks + ResyncTicks + CardTicks
        /\ alarm' \in NoDeadline .. HelloTicks + ResyncTicks + CardTicks
    BY <1>1, Limits DEF StreamsInv, PolicyType, LoopType, Down, NoDeadline
  <1>3. PolicyType' /\ LoopType' /\ Withdraws
    BY <1>1, <1>2 DEF StreamsInv, PolicyType, LoopType, Withdraws
  <1>4. \A c \in Conns : /\ connections'[c] \in ConnectionType
                         /\ connections'[c].state = connections[c].state
                         /\ connections'[c].pid = connections[c].pid
                         /\ connections'[c].uid = connections[c].uid
                         /\ connections'[c].clock = connections[c].clock
                         /\ connections'[c].last_id = connections[c].last_id
    <2> TAKE c \in Conns
    <2> DEFINE left == IF Pending(c) THEN Down(connections[c].left) ELSE connections[c].left
    <2>1. connections[c] \in ConnectionType
      BY DEF StreamsInv, RingsType
    <2>2. left \in 0 .. HelloTicks
      BY <2>1, Limits DEF ConnectionType, Down
    <2>3. connections'[c] = [connections[c] EXCEPT !.left = left]
      BY <1>1
    <2> HIDE DEF left
    <2> QED
      BY <2>1, <2>2, <2>3 DEF ConnectionType
  <1>5. RingsType' /\ PeersKnown'
    BY <1>1, <1>4 DEF StreamsInv, RingsType, PeersKnown
  <1>6. \A c \in Conns : Kept(c)
    BY <1>4 DEF Kept
  <1>7. \A s \in Slots : Left(s)
    BY <1>1, <1>4 DEF Left, StreamsInv, StreamsOwned, RingsType, StreamType
  <1>8. ManagerCovers'
    BY <1>1, <1>2, <1>4 DEF StreamsInv, ManagerCovers, Announced
  <1> QED
    BY <1>3, <1>5, <1>6, <1>7, <1>8, Shrinking DEF Shrinks

-----------------------------------------------------------------------------
(* The invariant holds. *)

\* audiod starts with empty tables.
LEMMA StreamsInvInit == Init => StreamsInv
  <1> SUFFICES ASSUME Init PROVE StreamsInv
    OBVIOUS
  <1>1. PolicyType
    <2>1. manager \in BOOLEAN /\ manager_announced \in BOOLEAN
      BY Zenon DEF Init
    <2>2. resync \in NoDeadline .. ResyncTicks
      BY Limits DEF Init, NoDeadline
    <2> QED
      BY <2>1, <2>2, EmptyEntries, Limits DEF Init, PolicyType
  <1>2. RingsType
    BY EmptyEntries DEF Init, RingsType
  <1>3. LoopType
    BY Limits DEF Init, LoopType, NoDeadline
  <1>4. /\ \A c \in Conns : connections[c].state = "FREE"
        /\ \A s \in Slots : ~streams[s].used
    BY DEF Init, FreeConnection, NoStream
  <1>5. PeersKnown /\ StreamsOwned /\ IdsUnique /\ RolesAgree /\ ManagerCovers
    BY <1>4 DEF PeersKnown, StreamsOwned, IdsUnique, RolesAgree, ManagerCovers
  <1> QED
    BY <1>1, <1>2, <1>3, <1>5 DEF StreamsInv

\* Every step of audiod keeps it, whatever is sent to it.
LEMMA StreamsInvNext == StreamsInv /\ [Next]_vars => StreamsInv'
  <1> SUFFICES ASSUME StreamsInv, [Next]_vars PROVE StreamsInv'
    OBVIOUS
  <1>1. CASE Control
    BY <1>1, AppInv, GoneInv, SetAudibleInv, VolumeInv, DropManagerInv, AcceptManagerInv
       DEF Control
  <1>2. CASE Streams
    BY <1>2, HelloInv, OpenRefusedInv, OpenInv, CloseInv, HangUpInv, AcceptStreamInv DEF Streams
  <1>3. CASE Serve
    BY <1>3, ExpireInv, AdvanceInv, LoopInv DEF Serve
  <1>4. CASE Wake \/ Tick \/ Stop
    BY <1>4, LoopInv, TickInv, StopInv
  <1>5. CASE UNCHANGED vars
    <2>1. UNCHANGED <<policy, rings, loop>>
      BY <1>5 DEF vars
    <2>2. LoopType'
      BY <2>1 DEF loop, StreamsInv, LoopType
    <2> QED
      BY <2>1, <2>2, RingsUnchanged, PolicyStays DEF rings
  <1> QED
    BY <1>1, <1>2, <1>3, <1>4, <1>5 DEF Next

\* The inductive invariant holds in every reachable state.
THEOREM StreamsInvAlways == Spec => []StreamsInv
  BY StreamsInvInit, StreamsInvNext, PTL DEF Spec

\* No packet of the manager or of an application takes a table of
\* audio-streams.c or a variable of serve() out of its type.
THEOREM TypesKept == Spec => []TypeOK
  <1>1. StreamsInv => TypeOK
    BY TypeParts DEF StreamsInv
  <1> QED
    BY <1>1, StreamsInvAlways, PTL

\* Every slot in use belongs to a READY connection in the slot's role, under an
\* ID it handed out: no stream outlives its connection in any order of GONE,
\* role changes, hang-ups and late HELLOs.
THEOREM SlotsAreOwned == Spec => []StreamsOwned
  <1>1. StreamsInv => StreamsOwned
    BY DEF StreamsInv
  <1> QED
    BY <1>1, StreamsInvAlways, PTL

\* find_stream() never has two streams to choose from.
THEOREM IdsAreUnique == Spec => []IdsUnique
  <1>1. StreamsInv => IdsUnique
    BY DEF StreamsInv
  <1> QED
    BY <1>1, StreamsInvAlways, PTL

\* The stream slots as a whole: every packet names at most one stream, and that
\* stream has an owner in its role.
THEOREM StreamTableKept == Spec => []StreamTable
  <1>1. StreamsInv => StreamTable
    BY DEF StreamsInv, StreamTable
  <1> QED
    BY <1>1, StreamsInvAlways, PTL

\* READY connections agree with the announcement of their process and with one
\* another in user and role.
THEOREM RolesAlwaysAgree == Spec => []RolesAgree
  <1>1. StreamsInv => RolesAgree
    BY DEF StreamsInv
  <1> QED
    BY <1>1, StreamsInvAlways, PTL

\* Once a manager's resynchronization is over, no connection that may hold
\* streams belongs to a process it has not announced.
THEOREM ManagerAlwaysCovers == Spec => []ManagerCovers
  <1>1. StreamsInv => ManagerCovers
    BY DEF StreamsInv
  <1> QED
    BY <1>1, StreamsInvAlways, PTL

-----------------------------------------------------------------------------
(* Who may hold what. *)

\* The processes in the table, and the streams a process has outside the slot
\* reserved for the clock helper.
Table == {p \in Pids : Announced(p)}
AppMine(p) == {s \in Slots \ {ClockStreamIndex} : streams[s].used /\ stream_pid(s) = p}

\* Admission as an inductive invariant.  It says of the gone entries, slot by
\* slot, what Admission counts, and bounds the application slots of a process
\* whatever its role: a process that becomes the clock helper has none.
AppLimit == \A p \in Pids : Cardinality(AppMine(p)) <= ClientStreams
ClockUnique == \A p, q \in Pids : (/\ Announced(p) /\ processes[p].clock
                                   /\ Announced(q) /\ processes[q].clock) => p = q
TableFits == IsFiniteSet(Table) /\ Cardinality(Table) <= NProcesses
GoneOnce == \A i, j \in GoneSlots : gone[i] \in Pids /\ gone[i] = gone[j] => i = j
GoneOut == \A i \in GoneSlots : gone[i] \in Pids =>
             /\ ~Announced(gone[i])
             /\ \A c \in Conns : connections[c].state \in {"WAITING", "READY"}
                                   => connections[c].pid # gone[i]
AdmissionInv ==
    /\ AppLimit
    /\ ClockUnique /\ TableFits
    /\ GoneOnce /\ GoneOut
    /\ WaitingUnannounced

\* What a step may not add: streams, connections past their HELLO,
\* announcements, gone entries.
NoStreamAdded ==
    \A s \in Slots : streams'[s].used =>
        /\ streams[s].used
        /\ streams'[s].connection = streams[s].connection
        /\ connections'[streams[s].connection].pid = connections[streams[s].connection].pid
NoneGreeted ==
    \A c \in Conns : connections'[c].state \in {"WAITING", "READY"} =>
        /\ connections'[c].state = connections[c].state
        /\ connections'[c].pid = connections[c].pid
NoneAnnounced ==
    \A p \in Pids : processes'[p].known =>
        processes[p].known /\ processes'[p].clock = processes[p].clock
NoneRemembered == \A i \in GoneSlots : gone'[i] \in Pids => gone'[i] = gone[i]

\* The counts are of finite sets.
LEMMA MineFinite ==
  /\ NProcesses \in Nat /\ ClientStreams \in Nat
  /\ IsFiniteSet(Slots) /\ IsFiniteSet(GoneSlots)
  /\ \A p : IsFiniteSet(AppMine(p)) /\ Cardinality(AppMine(p)) \in Nat
  <1>1. NProcesses \in Nat /\ ClientStreams \in Nat
    BY LimitsAssumption DEF LimitsAssumption
  <1>2. IsFiniteSet(Slots)
    BY Limits, FS_Interval DEF Slots
  <1>3. IsFiniteSet(GoneSlots)
    <2>1. NGone - 1 \in Int
      BY Limits
    <2> QED
      BY <2>1, FS_Interval DEF GoneSlots
  <1>4. \A p : IsFiniteSet(AppMine(p)) /\ Cardinality(AppMine(p)) \in Nat
    <2> TAKE p
    <2>1. AppMine(p) \in SUBSET Slots
      BY DEF AppMine
    <2>2. IsFiniteSet(AppMine(p))
      BY <1>2, <2>1, FS_Subset
    <2> QED
      BY <2>2, FS_CardinalityType
  <1> QED
    BY <1>1, <1>2, <1>3, <1>4

\* Without a new stream nobody's share grows.
LEMMA ShareShrinks ==
  ASSUME AppLimit, NoStreamAdded
  PROVE  AppLimit'
  <1> SUFFICES ASSUME NEW p \in Pids PROVE Cardinality(AppMine(p)') <= ClientStreams
    BY DEF AppLimit
  <1>1. AppMine(p)' \in SUBSET AppMine(p)
    BY DEF AppMine, NoStreamAdded, stream_pid
  <1>2. IsFiniteSet(AppMine(p)) /\ Cardinality(AppMine(p)) \in Nat /\ ClientStreams \in Nat
    BY MineFinite
  <1>3. /\ IsFiniteSet(AppMine(p)')
        /\ Cardinality(AppMine(p)') <= Cardinality(AppMine(p))
    BY <1>1, <1>2, FS_Subset
  <1>4. Cardinality(AppMine(p)') \in Nat
    BY <1>3, FS_CardinalityType
  <1>5. Cardinality(AppMine(p)) <= ClientStreams
    BY DEF AppLimit
  <1> QED
    BY <1>2, <1>3, <1>4, <1>5

\* Without a new announcement the table keeps its bounds.
LEMMA TableShrinks ==
  ASSUME ClockUnique, TableFits, NoneAnnounced
  PROVE  ClockUnique' /\ TableFits'
  <1>1. ClockUnique'
    BY DEF ClockUnique, NoneAnnounced, Announced
  <1>2. Table' \in SUBSET Table
    BY DEF Table, NoneAnnounced, Announced
  <1>3. IsFiniteSet(Table) /\ Cardinality(Table) <= NProcesses /\ NProcesses \in Nat
    BY MineFinite DEF TableFits
  <1>4. IsFiniteSet(Table') /\ Cardinality(Table') <= Cardinality(Table)
    BY <1>2, <1>3, FS_Subset
  <1>5. Cardinality(Table) \in Nat /\ Cardinality(Table') \in Nat
    BY <1>3, <1>4, FS_CardinalityType
  <1>6. TableFits'
    BY <1>3, <1>4, <1>5 DEF TableFits
  <1> QED
    BY <1>1, <1>6

\* A step that adds nothing keeps the invariant.
LEMMA AdmissionShrinks ==
  ASSUME AdmissionInv, PeersKnown, NoStreamAdded, NoneGreeted, NoneAnnounced, NoneRemembered
  PROVE  AdmissionInv'
  <1>1. AppLimit' /\ ClockUnique' /\ TableFits'
    BY ShareShrinks, TableShrinks DEF AdmissionInv
  <1>2. GoneOnce'
    BY DEF AdmissionInv, GoneOnce, NoneRemembered
  <1>3. GoneOut'
    BY DEF AdmissionInv, GoneOut, NoneRemembered, NoneAnnounced, NoneGreeted, Announced
  <1>4. WaitingUnannounced'
    BY DEF AdmissionInv, WaitingUnannounced, NoneAnnounced, NoneGreeted, Announced, PeersKnown
  <1> QED
    BY <1>1, <1>2, <1>3, <1>4 DEF AdmissionInv

\* Closing connections adds neither streams nor connections.
LEMMA DisconnectAdds ==
  ASSUME StreamsInv, NEW C, Disconnect(C)
  PROVE  NoStreamAdded /\ NoneGreeted
  <1>1. \A c \in Conns : connections'[c] = IF c \in C THEN FreeConnection ELSE connections[c]
    BY DEF Disconnect
  <1>2. \A s \in Slots : streams'[s] = IF OwnedBy(s, C) THEN NoStream ELSE streams[s]
    BY DEF Disconnect
  <1>3. NoneGreeted
    BY <1>1 DEF NoneGreeted, FreeConnection
  <1>4. \A s \in Slots : streams[s].connection \in Conns
    BY DEF StreamsInv, RingsType, StreamType
  <1>5. NoStreamAdded
    BY <1>1, <1>2, <1>4 DEF NoStreamAdded, OwnedBy, NoStream
  <1> QED
    BY <1>3, <1>5

\* While the policy stays, a step that adds no stream and greets nobody keeps
\* the invariant.
LEMMA AdmissionPolicyStays ==
  ASSUME StreamsInv, AdmissionInv, UNCHANGED <<processes, gone>>, NoStreamAdded, NoneGreeted
  PROVE  AdmissionInv'
  <1>1. NoneAnnounced /\ NoneRemembered
    BY DEF NoneAnnounced, NoneRemembered
  <1> QED
    BY <1>1, AdmissionShrinks DEF StreamsInv

-----------------------------------------------------------------------------
(* The manager's commands. *)

\* An announcement makes room for its process: its gone entry is cleared, the
\* role is free, and the table has an entry left.
LEMMA AppAdmission ==
  ASSUME StreamsInv, AdmissionInv,
         NEW pid \in Pids, NEW uid \in Uids, NEW clock \in BOOLEAN, App(pid, uid, clock)
  PROVE  AdmissionInv'
  <1> DEFINE kept == Admitted(pid, uid, clock)
             closed == Greeted(pid) \ kept
             admits == ~(clock /\ ClockTaken(pid)) /\ ~(~Announced(pid) /\ TableFull)
  <1>1. \/ gone' = gone
        \/ gone' = [i \in GoneSlots |-> IF gone[i] = pid THEN Nobody ELSE gone[i]]
    BY DEF App, announce
  <1>2. NoneRemembered
    BY <1>1, Limits DEF NoneRemembered
  <1>3. GoneOnce'
    BY <1>2 DEF AdmissionInv, GoneOnce, NoneRemembered
  <1>4. CASE ~admits
    <2>1. UNCHANGED <<processes, connections, streams>>
      BY <1>4 DEF App, announce, rings
    <2>2. NoStreamAdded /\ NoneGreeted /\ NoneAnnounced
      BY <2>1 DEF NoStreamAdded, NoneGreeted, NoneAnnounced
    <2> QED
      BY <1>2, <2>2, AdmissionShrinks DEF StreamsInv
  <1>5. CASE admits
    <2>1. /\ processes' = [processes EXCEPT ![pid] = Process(uid, clock)]
          /\ connections' = [c \in Conns |->
                IF c \in kept THEN ReadyConnection(connections[c], clock)
                ELSE IF c \in closed THEN FreeConnection
                ELSE connections[c]]
          /\ streams' = [s \in Slots |->
                IF OwnedBy(s, closed) THEN NoStream ELSE streams[s]]
          /\ gone' = [i \in GoneSlots |-> IF gone[i] = pid THEN Nobody ELSE gone[i]]
      BY <1>5 DEF App, announce
    <2>2. /\ \A c \in kept : c \in Conns /\ connections[c].pid = pid
          /\ \A c \in closed : c \in Conns
          /\ \A c \in Conns : /\ connections[c].state \in {"WAITING", "READY"}
                              /\ connections[c].pid = pid
                              => c \in kept \/ c \in closed
      BY DEF Admitted, Greeted
    <2>3. ~(clock /\ ClockTaken(pid)) /\ ~(~Announced(pid) /\ TableFull)
      BY <1>5
    <2> HIDE DEF kept, closed, admits
    <2>4. \A c \in Conns : c \in kept => /\ connections'[c].state = "READY"
                                         /\ connections'[c].pid = pid
      BY <2>1, <2>2 DEF ReadyConnection
    <2>5. \A c \in Conns : c \notin kept /\ c \in closed => connections'[c].state = "FREE"
      BY <2>1 DEF FreeConnection
    <2>6. \A c \in Conns : c \notin kept /\ c \notin closed => connections'[c] = connections[c]
      BY <2>1
    <2>7. \A p \in Pids : processes'[p] = IF p = pid THEN Process(uid, clock) ELSE processes[p]
      BY <2>1 DEF StreamsInv, PolicyType
    <2>8. Process(uid, clock).known /\ Process(uid, clock).clock = clock
      BY DEF Process
    <2>9. \A c \in Conns : connections'[c].state \in {"WAITING", "READY"} =>
            \/ connections'[c].state = "READY" /\ connections'[c].pid = pid
            \/ connections'[c] = connections[c] /\ connections[c].pid # pid
      BY <2>2, <2>4, <2>5, <2>6
    <2>10. \A i \in GoneSlots : gone'[i] \in Pids => gone'[i] = gone[i] /\ gone[i] # pid
      BY <2>1, Limits
    <2>11. GoneOut'
      BY <2>7, <2>9, <2>10 DEF AdmissionInv, GoneOut, Announced
    <2>12. WaitingUnannounced'
      BY <2>7, <2>9 DEF AdmissionInv, WaitingUnannounced, Announced, StreamsInv, PeersKnown
    <2>13. ClockUnique'
      BY <2>3, <2>7, <2>8 DEF AdmissionInv, ClockUnique, Announced, ClockTaken
    <2>14. TableFits'
      <3>1. Table' = Table \cup {pid}
        BY <2>7, <2>8 DEF Table, Announced
      <3>2. IsFiniteSet(Table) /\ Cardinality(Table) <= NProcesses /\ NProcesses \in Nat
        BY MineFinite DEF AdmissionInv, TableFits
      <3>3. /\ IsFiniteSet(Table \cup {pid})
            /\ Cardinality(Table \cup {pid}) =
                 IF pid \in Table THEN Cardinality(Table) ELSE Cardinality(Table) + 1
        BY <3>2, FS_AddElement
      <3>4. pid \notin Table => ~(Cardinality(Table) >= NProcesses)
        BY <2>3 DEF Table, TableFull
      <3>5. Cardinality(Table) \in Nat
        BY <3>2, FS_CardinalityType
      <3>6. Cardinality(Table \cup {pid}) <= NProcesses
        BY <3>2, <3>3, <3>4, <3>5
      <3> QED
        BY <3>1, <3>3, <3>6 DEF TableFits
    <2>15. AppLimit'
      <3>1. \A s \in Slots : streams'[s].used =>
              /\ streams[s].used /\ streams'[s] = streams[s]
              /\ streams[s].connection \in Conns \ closed
        BY <2>1 DEF OwnedBy, NoStream, StreamsInv, RingsType, StreamType
      <3>2. \A c \in Conns \ closed : connections'[c].pid = connections[c].pid
        BY <2>2, <2>4, <2>6
      <3>3. NoStreamAdded
        BY <3>1, <3>2 DEF NoStreamAdded
      <3> QED
        BY <3>3, ShareShrinks DEF AdmissionInv
    <2> QED
      BY <1>3, <2>11, <2>12, <2>13, <2>14, <2>15 DEF AdmissionInv
  <1> QED
    BY <1>4, <1>5

\* GONE remembers a process of which nothing is left.
LEMMA GoneAdmission ==
  ASSUME StreamsInv, AdmissionInv, NEW pid \in Pids, Gone(pid)
  PROVE  AdmissionInv'
  <1>1. /\ Disconnect(Leaving(pid))
        /\ processes' = [processes EXCEPT ![pid] = NoProcess]
    BY DEF Gone, forget
  <1>2. NoStreamAdded /\ NoneGreeted
    BY <1>1, DisconnectAdds
  <1>3. \A c \in Conns : connections'[c].state \in {"WAITING", "READY"} => connections'[c].pid # pid
    BY <1>1 DEF Disconnect, Leaving, FreeConnection
  <1>4. ~processes'[pid].known
    BY <1>1 DEF NoProcess, StreamsInv, PolicyType
  <1>5. NoneAnnounced
    BY <1>1 DEF NoneAnnounced, NoProcess, StreamsInv, PolicyType
  <1>6. AppLimit' /\ ClockUnique' /\ TableFits'
    BY <1>2, <1>5, ShareShrinks, TableShrinks DEF AdmissionInv
  <1>7. WaitingUnannounced'
    BY <1>2, <1>5 DEF AdmissionInv, WaitingUnannounced, NoneAnnounced, NoneGreeted, Announced,
                      StreamsInv, PeersKnown
  <1>8. \A i \in GoneSlots : gone'[i] = gone[i] \/ gone'[i] = pid
    BY DEF Gone, forget, StreamsInv, PolicyType
  <1>9. GoneOut'
    BY <1>2, <1>3, <1>4, <1>5, <1>8
       DEF AdmissionInv, GoneOut, NoneAnnounced, NoneGreeted, Announced
  <1>10. GoneOnce'
    <2>1. CASE IsGone(pid)
      BY <2>1 DEF Gone, forget, AdmissionInv, GoneOnce
    <2>2. CASE ~IsGone(pid)
      <3>1. gone' = [gone EXCEPT ![(last_gone + 1) % NGone] = pid]
        BY <2>2 DEF Gone, forget
      <3>2. \A i \in GoneSlots : gone[i] # pid
        BY <2>2 DEF IsGone
      <3>3. \A i \in GoneSlots : gone'[i] = IF i = (last_gone + 1) % NGone THEN pid ELSE gone[i]
        BY <3>1 DEF StreamsInv, PolicyType
      <3> QED
        BY <3>2, <3>3 DEF AdmissionInv, GoneOnce
    <2> QED
      BY <2>1, <2>2
  <1> QED
    BY <1>6, <1>7, <1>9, <1>10 DEF AdmissionInv

\* The other commands, and a manager that leaves, admit nobody.
LEMMA ManagerAdmission ==
  ASSUME StreamsInv, AdmissionInv,
         \/ \E pid \in Pids, audible \in BOOLEAN : SetAudible(pid, audible)
         \/ Volume \/ DropManager \/ AcceptManager
  PROVE  AdmissionInv'
  <1>1. UNCHANGED <<connections, streams>>
    BY DEF SetAudible, Volume, DropManager, AcceptManager, ForgetManager, rings
  <1>2. NoStreamAdded /\ NoneGreeted
    BY <1>1 DEF NoStreamAdded, NoneGreeted
  <1>3. CASE \E pid \in Pids, audible \in BOOLEAN : SetAudible(pid, audible)
    <2>1. PICK pid \in Pids, audible \in BOOLEAN : SetAudible(pid, audible)
      BY <1>3
    <2>2. NoneAnnounced /\ NoneRemembered
      BY <2>1 DEF SetAudible, NoneAnnounced, NoneRemembered, StreamsInv, PolicyType, ProcessType
    <2> QED
      BY <1>2, <2>2, AdmissionShrinks DEF StreamsInv
  <1>4. CASE Volume \/ DropManager \/ AcceptManager
    <2>1. \/ UNCHANGED <<processes, gone>>
          \/ processes' = [p \in Pids |-> NoProcess] /\ gone' = [i \in GoneSlots |-> Nobody]
      BY <1>4 DEF Volume, DropManager, AcceptManager, ForgetManager
    <2>2. NoneAnnounced /\ NoneRemembered
      BY <2>1, Limits DEF NoneAnnounced, NoneRemembered, NoProcess
    <2> QED
      BY <1>2, <2>2, AdmissionShrinks DEF StreamsInv
  <1> QED
    BY <1>3, <1>4

-----------------------------------------------------------------------------
(* The connections' packets. *)

\* A HELLO waits only for a process that is neither announced nor gone, and is
\* admitted only for one that is announced.
LEMMA HelloAdmission ==
  ASSUME StreamsInv, AdmissionInv, NEW c \in Conns, Hello(c)
  PROVE  AdmissionInv'
  <1> DEFINE entry == processes[connections[c].pid]
             refused == \/ connections[c].state # "NEW"
                        \/ ~entry.known /\ IsGone(connections[c].pid)
                        \/ entry.known /\ entry.uid # connections[c].uid
  <1>1. UNCHANGED <<processes, gone>>
    BY DEF Hello, ReceiveDone, policy
  <1>2. CASE refused
    <2>1. Disconnect({c})
      BY <1>2 DEF Hello
    <2> QED
      BY <1>1, <2>1, DisconnectAdds, AdmissionPolicyStays
  <1>3. CASE ~refused
    <2>1. /\ connections' = IF entry.known
                            THEN [connections EXCEPT ![c] = ReadyConnection(@, entry.clock)]
                            ELSE [connections EXCEPT ![c].state = "WAITING"]
          /\ streams' = streams
          /\ connections[c].state = "NEW"
          /\ ~entry.known => ~IsGone(connections[c].pid)
      BY <1>3 DEF Hello
    <2>2. connections[c].pid \in Pids
      BY <2>1 DEF StreamsInv, PeersKnown
    <2>3. connections[c] \in ConnectionType
      BY DEF StreamsInv, RingsType
    <2>4. \A d \in Conns : d # c => connections'[d] = connections[d]
      BY <2>1 DEF StreamsInv, RingsType
    <2>5. /\ connections'[c].pid = connections[c].pid
          /\ connections'[c].state = IF entry.known THEN "READY" ELSE "WAITING"
      BY <2>1, <2>3 DEF StreamsInv, RingsType, ReadyConnection, ConnectionType
    <2>6. NoStreamAdded /\ NoneAnnounced
      BY <1>1, <2>1, <2>4, <2>5 DEF NoStreamAdded, NoneAnnounced, StreamsInv, RingsType, StreamType
    <2>7. AppLimit' /\ ClockUnique' /\ TableFits'
      BY <2>6, ShareShrinks, TableShrinks DEF AdmissionInv
    <2>8. GoneOnce'
      BY <1>1 DEF AdmissionInv, GoneOnce
    <2>9. \A i \in GoneSlots : gone[i] \in Pids => gone[i] # connections[c].pid
      BY <2>1 DEF AdmissionInv, GoneOut, Announced, IsGone
    <2>10. GoneOut'
      BY <1>1, <2>4, <2>5, <2>9 DEF AdmissionInv, GoneOut, Announced
    <2>11. WaitingUnannounced'
      BY <1>1, <2>4, <2>5 DEF AdmissionInv, WaitingUnannounced, Announced
    <2> QED
      BY <2>7, <2>8, <2>10, <2>11 DEF AdmissionInv
  <1> QED
    BY <1>2, <1>3

\* A new stream is within the share of its process: what open_stream() counts
\* on the slots of the connection's role is all the process has there.
LEMMA OpenAdmission ==
  ASSUME StreamsInv, AdmissionInv, NEW c \in Conns, NEW sent \in BOOLEAN, Open(c, sent)
  PROVE  AdmissionInv'
  <1>1. UNCHANGED <<processes, gone>>
    BY DEF Open, ReceiveDone, policy
  <1>2. CASE ~sent
    <2>1. Disconnect({c})
      BY <1>2 DEF Open
    <2> QED
      BY <1>1, <2>1, DisconnectAdds, AdmissionPolicyStays
  <1>3. CASE sent
    <2> DEFINE opened == [used |-> TRUE, connection |-> c, id |-> NextId(c),
                          paused |-> ~Audible(connections[c].pid)]
    <2>1. PICK s \in Slots :
            /\ IsFirstFree(s, connections[c].clock)
            /\ connections' = [connections EXCEPT ![c].last_id = NextId(c)]
            /\ streams' = [streams EXCEPT ![s] = opened]
      BY <1>3 DEF Open
    <2>2. Cardinality(Mine(c)) < RoleLimit(c)
      BY DEF Open
    <2>3. opened.used /\ opened.connection = c
      BY Zenon
    <2> HIDE DEF opened
    <2>4. \A t \in Slots : streams'[t] = IF t = s THEN opened ELSE streams[t]
      BY <2>1 DEF StreamsInv, RingsType
    <2>5. \A d \in Conns : /\ connections'[d].pid = connections[d].pid
                           /\ connections'[d].state = connections[d].state
      BY <2>1 DEF StreamsInv, RingsType, ConnectionType
    <2>6. ~streams[s].used /\ s \in RoleSlots(connections[c].clock)
      BY <2>1 DEF IsFirstFree
    <2>7. \A t \in Slots : streams[t].connection \in Conns
      BY DEF StreamsInv, RingsType, StreamType
    <2>8. AppLimit'
      <3> SUFFICES ASSUME NEW p \in Pids PROVE Cardinality(AppMine(p)') <= ClientStreams
        BY DEF AppLimit
      <3>1. IsFiniteSet(AppMine(p)) /\ Cardinality(AppMine(p)) \in Nat /\ ClientStreams \in Nat
        BY MineFinite
      <3>2. CASE p # connections[c].pid \/ s = ClockStreamIndex
        <4>1. AppMine(p)' = AppMine(p)
          BY <2>3, <2>4, <2>5, <2>6, <2>7, <3>2 DEF AppMine, stream_pid
        <4> QED
          BY <4>1 DEF AdmissionInv, AppLimit
      <3>3. CASE p = connections[c].pid /\ s # ClockStreamIndex
        <4>1. ~connections[c].clock
          BY <2>6, <3>3 DEF RoleSlots
        <4>2. Mine(c) = AppMine(p)
          BY <3>3, <4>1 DEF Mine, AppMine, RoleSlots
        <4>3. Cardinality(AppMine(p)) < ClientStreams
          BY <2>2, <4>1, <4>2 DEF RoleLimit
        <4>4. AppMine(p)' = AppMine(p) \cup {s}
          BY <2>3, <2>4, <2>5, <2>7, <3>3 DEF AppMine, stream_pid
        <4>5. s \notin AppMine(p)
          BY <2>6 DEF AppMine
        <4>6. Cardinality(AppMine(p) \cup {s}) = Cardinality(AppMine(p)) + 1
          BY <3>1, <4>5, FS_AddElement
        <4> QED
          BY <3>1, <4>3, <4>4, <4>6
      <3> QED
        BY <3>2, <3>3
    <2>9. NoneGreeted /\ NoneAnnounced
      BY <1>1, <2>5 DEF NoneGreeted, NoneAnnounced
    <2>10. ClockUnique' /\ TableFits'
      BY <2>9, TableShrinks DEF AdmissionInv
    <2>11. GoneOnce' /\ GoneOut'
      BY <1>1, <2>5 DEF AdmissionInv, GoneOnce, GoneOut, Announced
    <2>12. WaitingUnannounced'
      BY <1>1, <2>5 DEF AdmissionInv, WaitingUnannounced, Announced
    <2> QED
      BY <2>8, <2>10, <2>11, <2>12 DEF AdmissionInv
  <1> QED
    BY <1>2, <1>3

\* The other packets, and a connection that comes or goes, add no stream.
LEMMA StreamsAdmission ==
  ASSUME StreamsInv, AdmissionInv, NEW c \in Conns,
         \/ OpenRefused(c) \/ HangUp(c)
         \/ \E id \in 0 .. IdMax : Close(c, id)
         \/ \E pid \in Pids, uid \in Uids : AcceptStream(pid, uid)
  PROVE  AdmissionInv'
  <1>1. UNCHANGED <<processes, gone>>
    BY DEF OpenRefused, HangUp, Close, AcceptStream, ReceiveDone, policy
  <1>2. \A s \in Slots : streams[s].connection \in Conns
    BY DEF StreamsInv, RingsType, StreamType
  <1>3. CASE Disconnect({c})
    BY <1>1, <1>3, DisconnectAdds, AdmissionPolicyStays
  <1>4. CASE UNCHANGED <<connections, streams>>
    <2>1. NoStreamAdded /\ NoneGreeted
      BY <1>4 DEF NoStreamAdded, NoneGreeted
    <2> QED
      BY <1>1, <2>1, AdmissionPolicyStays
  <1>5. CASE OpenRefused(c) \/ HangUp(c)
    BY <1>3, <1>4, <1>5 DEF OpenRefused, HangUp, rings
  <1>6. CASE \E id \in 0 .. IdMax : Close(c, id)
    <2>1. PICK id \in 0 .. IdMax : Close(c, id)
      BY <1>6
    <2>2. CASE connections[c].state # "READY"
      BY <1>3, <2>1, <2>2 DEF Close
    <2>3. CASE connections[c].state = "READY"
      <3>1. /\ connections' = connections
            /\ \A s \in Slots : streams'[s] = streams[s] \/ streams'[s] = NoStream
        BY <2>1, <2>3 DEF Close
      <3>2. NoStreamAdded /\ NoneGreeted
        BY <3>1 DEF NoStreamAdded, NoneGreeted, NoStream
      <3> QED
        BY <1>1, <3>2, AdmissionPolicyStays
    <2> QED
      BY <2>2, <2>3
  <1>7. CASE \E pid \in Pids, uid \in Uids : AcceptStream(pid, uid)
    <2>1. PICK pid \in Pids, uid \in Uids : AcceptStream(pid, uid)
      BY <1>7
    <2>2. PICK d \in Conns : /\ connections[d].state = "FREE"
                             /\ connections' = [connections EXCEPT ![d] = NewConnection(pid, uid)]
                             /\ streams' = streams
      BY <2>1 DEF AcceptStream
    <2>3. \A e \in Conns : connections'[e] = IF e = d THEN NewConnection(pid, uid)
                                             ELSE connections[e]
      BY <2>2 DEF StreamsInv, RingsType
    <2>4. NewConnection(pid, uid).state = "NEW"
      BY DEF NewConnection
    <2>5. NoneGreeted
      BY <2>3, <2>4 DEF NoneGreeted
    <2>6. \A s \in Slots : streams[s].used => streams[s].connection # d
      BY <2>2 DEF StreamsInv, StreamsOwned
    <2>7. NoStreamAdded
      BY <1>2, <2>2, <2>3, <2>6 DEF NoStreamAdded
    <2> QED
      BY <1>1, <2>5, <2>7, AdmissionPolicyStays
  <1> QED
    BY <1>5, <1>6, <1>7

-----------------------------------------------------------------------------
(* The loop, and the theorem. *)

\* The loop only ends connections and streams.
LEMMA LoopAdmission ==
  ASSUME StreamsInv, AdmissionInv,
         Serve \/ Wake \/ Tick \/ Stop \/ UNCHANGED vars
  PROVE  AdmissionInv'
  <1>1. UNCHANGED <<processes, gone>>
    BY DEF Serve, ManagerServed, ControlServed, ConnectionServed, StreamsServed, Expire, Advance,
           Wake, Tick, Stop, vars, policy
  <1>2. CASE Expire \/ Stop
    <2>1. PICK C : Disconnect(C)
      BY <1>2 DEF Expire, Stop
    <2> QED
      BY <1>1, <2>1, DisconnectAdds, AdmissionPolicyStays
  <1>3. CASE \E broken \in SUBSET Slots, card \in {NoDeadline} \cup 1 .. CardTicks :
               Advance(broken, card)
    <2>1. PICK broken \in SUBSET Slots, card \in {NoDeadline} \cup 1 .. CardTicks :
             Advance(broken, card)
      BY <1>3
    <2>2. /\ connections' = connections
          /\ \A s \in Slots : streams'[s] = NoStream \/ streams'[s] = Refreshed(s)
      BY <2>1 DEF Advance
    <2>3. \A s \in Slots : /\ Refreshed(s).used = streams[s].used
                           /\ Refreshed(s).connection = streams[s].connection
      BY DEF Refreshed, StreamsInv, RingsType, StreamType
    <2>4. NoStreamAdded /\ NoneGreeted
      BY <2>2, <2>3 DEF NoStreamAdded, NoneGreeted, NoStream
    <2> QED
      BY <1>1, <2>4, AdmissionPolicyStays
  <1>4. CASE Tick
    <2>1. \A c \in Conns : /\ connections'[c].state = connections[c].state
                           /\ connections'[c].pid = connections[c].pid
      BY <1>4 DEF Tick, StreamsInv, RingsType, ConnectionType
    <2>2. streams' = streams
      BY <1>4 DEF Tick
    <2>3. NoStreamAdded /\ NoneGreeted
      BY <2>1, <2>2 DEF NoStreamAdded, NoneGreeted, StreamsInv, RingsType, StreamType
    <2> QED
      BY <1>1, <2>3, AdmissionPolicyStays
  <1>5. CASE \/ Wake \/ ManagerServed \/ ControlServed \/ ConnectionServed \/ StreamsServed
             \/ UNCHANGED vars
    <2>1. UNCHANGED <<connections, streams>>
      BY <1>5 DEF Wake, ManagerServed, ControlServed, ConnectionServed, StreamsServed, vars, rings
    <2>2. NoStreamAdded /\ NoneGreeted
      BY <2>1 DEF NoStreamAdded, NoneGreeted
    <2> QED
      BY <1>1, <2>2, AdmissionPolicyStays
  <1> QED
    BY <1>2, <1>3, <1>4, <1>5 DEF Serve

\* audiod starts without announcements, gone entries or streams.
LEMMA AdmissionInvInit == Init => AdmissionInv
  <1> SUFFICES ASSUME Init PROVE AdmissionInv
    OBVIOUS
  <1>1. /\ \A p \in Pids : ~Announced(p)
        /\ \A i \in GoneSlots : gone[i] \notin Pids
        /\ \A c \in Conns : connections[c].state = "FREE"
        /\ \A s \in Slots : ~streams[s].used
    BY Limits DEF Init, NoProcess, FreeConnection, NoStream, Announced
  <1>2. \A p \in Pids : Cardinality(AppMine(p)) <= ClientStreams
    <2> TAKE p \in Pids
    <2>1. AppMine(p) = {}
      BY <1>1 DEF AppMine
    <2> QED
      BY <2>1, MineFinite, FS_EmptySet
  <1>3. TableFits
    <2>1. Table = {}
      BY <1>1 DEF Table
    <2> QED
      BY <2>1, MineFinite, FS_EmptySet DEF TableFits
  <1> QED
    BY <1>1, <1>2, <1>3 DEF AdmissionInv, AppLimit, ClockUnique, GoneOnce, GoneOut,
                            WaitingUnannounced

\* Every step keeps it.
LEMMA AdmissionInvNext == StreamsInv /\ AdmissionInv /\ [Next]_vars => AdmissionInv'
  <1> SUFFICES ASSUME StreamsInv, AdmissionInv, [Next]_vars PROVE AdmissionInv'
    OBVIOUS
  <1>1. CASE Control
    BY <1>1, AppAdmission, GoneAdmission, ManagerAdmission DEF Control
  <1>2. CASE Streams
    BY <1>2, HelloAdmission, OpenAdmission, StreamsAdmission, Limits DEF Streams
  <1>3. CASE Serve \/ Wake \/ Tick \/ Stop \/ UNCHANGED vars
    BY <1>3, LoopAdmission
  <1> QED
    BY <1>1, <1>2, <1>3 DEF Next

\* The inductive invariant gives what the component promises.
LEMMA AdmissionHolds == StreamsInv /\ AdmissionInv => Admission
  <1> SUFFICES ASSUME StreamsInv, AdmissionInv PROVE Admission
    OBVIOUS
  <1>1. ClientLimit
    <2> SUFFICES ASSUME NEW p \in Pids
                 PROVE  LET mine == {s \in Slots : streams[s].used /\ stream_pid(s) = p} IN
                        mine = {ClockStreamIndex} \/
                        (ClockStreamIndex \notin mine /\ Cardinality(mine) <= ClientStreams)
      BY DEF ClientLimit
    <2> DEFINE mine == {s \in Slots : streams[s].used /\ stream_pid(s) = p}
    <2>1. CASE ClockStreamIndex \in mine
      <3>1. \A s \in mine : /\ streams[s].connection \in Conns
                            /\ connections[streams[s].connection].state = "READY"
                            /\ connections[streams[s].connection].pid = p
                            /\ connections[streams[s].connection].clock = (s = ClockStreamIndex)
        BY DEF StreamsInv, StreamsOwned, RingsType, StreamType, stream_pid
      <3>2. \A s \in mine : s = ClockStreamIndex
        BY <2>1, <3>1 DEF StreamsInv, RolesAgree
      <3> QED
        BY <2>1, <3>2
    <2>2. CASE ClockStreamIndex \notin mine
      <3>1. mine = AppMine(p)
        BY <2>2 DEF AppMine
      <3> QED
        BY <2>2, <3>1 DEF AdmissionInv, AppLimit
    <2> QED
      BY <2>1, <2>2
  <1>2. OneClock
    BY DEF OneClock, AdmissionInv, ClockUnique, TableFits, Table
  <1>3. GoneStaysOut
    <2> SUFFICES ASSUME NEW p \in Pids, IsGone(p)
                 PROVE  /\ ~Announced(p)
                        /\ Greeted(p) = {}
                        /\ Cardinality({i \in GoneSlots : gone[i] = p}) = 1
      BY DEF GoneStaysOut
    <2>1. PICK j \in GoneSlots : gone[j] = p
      BY DEF IsGone
    <2>2. {i \in GoneSlots : gone[i] = p} = {j}
      BY <2>1 DEF AdmissionInv, GoneOnce
    <2>3. ~Announced(p) /\ Greeted(p) = {}
      BY <2>1 DEF AdmissionInv, GoneOut, Greeted
    <2> QED
      BY <2>2, <2>3, FS_Singleton
  <1> QED
    BY <1>1, <1>2, <1>3 DEF Admission, AdmissionInv

\* FPLINUX_AUDIO_CLIENT_STREAMS bounds a process over all of its connections,
\* there is one clock helper, the table of processes stays in bounds, a process
\* that is gone has nothing left and a HELLO waits only while it has to,
\* for tables of every size and in every order of commands and packets.
THEOREM AdmissionKept == Spec => []Admission
  BY StreamsInvInit, StreamsInvNext, AdmissionInvInit, AdmissionInvNext, AdmissionHolds, PTL
     DEF Spec

-----------------------------------------------------------------------------
(* Blocking in poll(). *)

\* timer_ms is what the timerfd is set to: arm() may go by it.
Armed == timer = alarm /\ TimerCovers

\* arm() sets the timerfd for the first deadline or finds it set for that one;
\* time moves the timer and the deadlines together, and a timerfd that was read
\* is remembered as disarmed.
LEMMA ArmedNext == StreamsInv /\ Armed /\ [Next]_vars => Armed'
  <1> SUFFICES ASSUME StreamsInv, Armed, [Next]_vars PROVE Armed'
    OBVIOUS
  <1> DEFINE Advances == \E broken \in SUBSET Slots, card \in {NoDeadline} \cup 1 .. CardTicks :
                            Advance(broken, card)
  <1>2. CASE Advances
    <2>1. PICK broken \in SUBSET Slots, card \in {NoDeadline} \cup 1 .. CardTicks :
             Advance(broken, card)
      BY <1>2
    <2>2. PICK deadline \in NoDeadline .. HelloTicks + ResyncTicks + CardTicks :
             IsNext(deadline, card) /\ arm(deadline)
      BY <2>1 DEF Advance
    <2>3. UNCHANGED <<connections, resync>>
      BY <2>1 DEF Advance, policy
    <2>4. timer' = deadline /\ alarm' = deadline
      BY <2>2 DEF arm, Armed
    <2>5. Deadlines' = Deadlines
      BY <2>3 DEF Deadlines, Pending
    <2>6. \A d \in Deadlines : d # NoDeadline
      BY Limits DEF Deadlines, NoDeadline, StreamsInv, RingsType, ConnectionType
    <2>7. \A d \in Deadlines : deadline # NoDeadline /\ deadline <= d
      BY <2>2, <2>6 DEF IsNext
    <2> QED
      BY <2>4, <2>5, <2>7 DEF Armed, TimerCovers
  <1>3. CASE Tick
    <2>1. /\ resync' = Down(resync) /\ timer' = Down(timer) /\ alarm' = Down(alarm)
          /\ round = "poll"
          /\ connections' = [c \in Conns |->
               [connections[c] EXCEPT !.left = IF Pending(c) THEN Down(@) ELSE @]]
      BY <1>3 DEF Tick
    <2>2. \A c \in Conns : /\ connections[c].left \in 0 .. HelloTicks
                           /\ connections'[c].state = connections[c].state
                           /\ Pending(c) => connections'[c].left = Down(connections[c].left)
      BY <2>1 DEF StreamsInv, RingsType, ConnectionType
    <2>4. /\ alarm \in NoDeadline .. HelloTicks + ResyncTicks + CardTicks
          /\ resync \in NoDeadline .. ResyncTicks
      BY DEF StreamsInv, LoopType, PolicyType
    <2>5. \A d \in Deadlines : alarm # NoDeadline /\ alarm <= d
      BY <2>1 DEF Armed, TimerCovers
    <2>6. \A d \in Deadlines' : \E e \in Deadlines : e \in Nat /\ d = Down(e)
      <3> TAKE d \in Deadlines'
      <3>1. CASE d = resync' /\ resync' # NoDeadline
        <4>1. resync # NoDeadline /\ resync \in Nat
          BY <2>1, <2>4, <3>1, Limits DEF Down, NoDeadline
        <4> QED
          BY <2>1, <3>1, <4>1 DEF Deadlines
      <3>2. CASE \E c \in Conns : Pending(c)' /\ d = connections'[c].left
        <4>1. PICK c \in Conns : Pending(c)' /\ d = connections'[c].left
          BY <3>2
        <4>2. Pending(c) /\ d = Down(connections[c].left) /\ connections[c].left \in Nat
          BY <2>2, <4>1, Limits DEF Pending
        <4> QED
          BY <4>2 DEF Deadlines
      <3> QED
        BY <3>1, <3>2 DEF Deadlines
    <2>7. TimerCovers'
      BY <2>1, <2>4, <2>5, <2>6, Limits DEF TimerCovers, Down, NoDeadline
    <2>8. timer' = alarm'
      BY <2>1 DEF Armed
    <2> QED
      BY <2>7, <2>8 DEF Armed
  <1>4. CASE UNCHANGED vars
    <2>1. UNCHANGED <<connections, resync, timer, alarm, round>>
      BY <1>4 DEF vars, policy, rings, loop
    <2> QED
      BY <2>1 DEF Armed, TimerCovers, Deadlines, Pending
  <1>5. ASSUME Next, ~Advances, ~Tick
        PROVE  round' # "poll" /\ timer' = alarm'
    <2> HIDE DEF Advances
    <2>0. timer = alarm
      BY DEF Armed
    <2>1. CASE Control
      BY <2>0, <2>1 DEF Control, App, Gone, SetAudible, Volume, DropManager, AcceptManager,
                  Reading, ForgetManager, loop
    <2>2. CASE Streams
      BY <2>0, <2>2 DEF Streams, Hello, OpenRefused, HangUp, Open, Close, AcceptStream,
                  MayReceive, ReceiveDone, loop
    <2>3. CASE Serve \/ Wake \/ Stop
      BY <1>5, <2>0, <2>3 DEF Serve, ManagerServed, ControlServed, ConnectionServed,
                        StreamsServed, Expire, Wake, Stop, Advances
    <2> QED
      BY <1>5, <2>1, <2>2, <2>3 DEF Next
  <1>6. ASSUME Next, ~Advances, ~Tick PROVE Armed'
    BY <1>5, <1>6 DEF Armed, TimerCovers
  <1> QED
    BY <1>2, <1>3, <1>4, <1>6

\* Whenever audiod blocks, the kernel's timer ends the wait by the first deadline,
\* whatever deadlines the card adds and although arm() leaves a timerfd alone that
\* it believes to be set: no HELLO and no resynchronization waits for another event.
THEOREM TimerAlwaysCovers == Spec => []TimerCovers
  <1>1. Init => Armed
    <2> SUFFICES ASSUME Init PROVE Armed
      OBVIOUS
    <2>1. /\ \A c \in Conns : connections[c].state = "FREE"
          /\ resync = NoDeadline /\ timer = alarm
      BY DEF Init, FreeConnection
    <2> QED
      BY <2>1 DEF Armed, TimerCovers, Deadlines, Pending
  <1>2. Armed => TimerCovers
    BY DEF Armed
  <1> QED
    BY <1>1, <1>2, StreamsInvInit, StreamsInvNext, ArmedNext, PTL DEF Spec
=============================================================================
