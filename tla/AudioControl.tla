---------------------------- MODULE AudioControl ----------------------------
(***************************************************************************)
(* The session manager's client of the audio service's control socket      *)
(* (fplinux-session/session-audio.c) against audiod's end of it             *)
(* (read_manager() and accept_manager() of audiod.c, announce() and         *)
(* forget() of audio-streams.c).                                            *)
(*                                                                         *)
(* A link is one connection of the Unix SOCK_SEQPACKET socket: packets      *)
(* arrive in order, and those sent before the manager closed its end are    *)
(* still delivered.  audiod serves the first link; the others wait in the   *)
(* listening socket's backlog.  The manager's own link is the last one.     *)
(* User IDs and stream connections are AudioStreams' concern.               *)
(***************************************************************************)
EXTENDS Integers, FiniteSets, SequencesExt

CONSTANTS
    Pids,
    Levels,       \* volume levels
    NProcesses,   \* FPLINUX_SESSION_AUDIO_PROCESSES = FPLINUX_AUDIO_PROCESSES
    BackoffMax,   \* FPLINUX_SESSION_AUDIO_RETRY_MAX_MS, with RETRY_MS one tick
    VolumeTicks,  \* FPLINUX_SESSION_AUDIO_VOLUME_TIMEOUT_MS in ticks
    MaxQueue,     \* bound: packets a socket buffer holds
    MaxLinks      \* bound: links audiod has not dropped yet

ASSUME ControlAssumption ==
    /\ {NProcesses, BackoffMax, VolumeTicks, MaxQueue, MaxLinks} \subseteq Nat \ {0}
    /\ Levels # {}

VARIABLES
    manager,  \* struct fplinux_session_audio
    hung,     \* audiod closed the manager's link; it has not noticed yet
    replies,  \* VOLUME replies on the manager's link
    links,    \* sequence of [open, queue]: manager to audiod
    served,   \* audiod has accepted the first link
    table,    \* [Pids -> entry]: audiod's announced processes
    master    \* audiod's volume

audiod == <<served, table, master>>
vars == <<manager, hung, replies, links, audiod>>

-----------------------------------------------------------------------------
(* Data *)

\* struct fplinux_session_audio_process; `used' is pid # 0.
NoEntry == [used |-> FALSE, clock |-> FALSE, audible |-> FALSE,
            announced |-> FALSE, told |-> FALSE]
Entry(clock) == [NoEntry EXCEPT !.used = TRUE, !.clock = clock]

\* An entry of audiod's process table.
Unknown == [known |-> FALSE, clock |-> FALSE, audible |-> FALSE]
NoTable == [p \in Pids |-> Unknown]

\* Control commands.
ANNOUNCE(p, clock) == [type |-> "ANNOUNCE", pid |-> p, flag |-> clock]
AUDIBLE(p, audible) == [type |-> "AUDIBLE", pid |-> p, flag |-> audible]
GONE(p) == [type |-> "GONE", pid |-> p]
VOLUME(level) == [type |-> "VOLUME", level |-> level]

\* fplinux_session_audio_init, with the level of the stored settings.
NewManager(level) ==
    [fd |-> FALSE, retry |-> 0, backoff |-> 1,
     desired |-> level, sent |-> level, applied |-> level,
     waiting |-> FALSE, known |-> FALSE, ready |-> FALSE, left |-> 0,
     entries |-> [p \in Pids |-> NoEntry]]

Own == Len(links)
HasLink == manager.fd /\ ~hung
OwnServed == HasLink /\ served /\ Own = 1
Used == {p \in Pids : manager.entries[p].used}

-----------------------------------------------------------------------------
(* Sending: send_text, lose() and retry_later(). *)

\* retry_later() doubles the wait up to its limit.
Backoff(b) == IF 2 * b > BackoffMax THEN BackoffMax ELSE 2 * b

\* disconnect() forgets what was announced.  told_audible is read only for an
\* announced process and is cleared with it here.
Lost(m) == [m EXCEPT
    !.fd = FALSE, !.waiting = FALSE, !.known = FALSE, !.ready = FALSE,
    !.entries = [p \in Pids |-> [@[p] EXCEPT !.announced = FALSE, !.told = FALSE]],
    !.retry = m.backoff,
    !.backoff = Backoff(@)]

\* A call that changes the manager's state to `before' and sends `commands' ends
\* in `after'.  Any send may fail (the buffer is full, the peer is gone, memory
\* is short), which loses the connection after the commands that went out.
Transmit(k, commands, before, after) ==
    /\ k <= Len(commands)
    /\ HasLink => Len(links[Own].queue) + k <= MaxQueue
    /\ hung => k = 0
    /\ manager' = IF k = Len(commands) THEN after ELSE Lost(before)
    /\ links' = IF HasLink
                THEN [links EXCEPT ![Own].queue = @ \o SubSeq(commands, 1, k),
                                   ![Own].open = (k = Len(commands))]
                ELSE links
    /\ hung' = (hung /\ k = Len(commands))

\* The call has nothing to send.
Keep(k, after) ==
    /\ k = 0
    /\ manager' = after
    /\ UNCHANGED <<links, hung>>

-----------------------------------------------------------------------------
(* The manager's calls. *)

Announcement(p, e) == <<ANNOUNCE(p, e.clock), AUDIBLE(p, e.audible)>>
ToldNothing(e) == [e EXCEPT !.announced = TRUE]
Told(e) == [e EXCEPT !.announced = TRUE, !.told = e.audible]
SentVolume(m) == [m EXCEPT !.sent = m.desired, !.waiting = TRUE, !.left = VolumeTicks]

\* Processes are announced once the volume of this connection is confirmed.
MayAnnounce == manager.fd /\ manager.ready

\* fplinux_session_audio_app and _clock: a started process, not audible, or a
\* replacement of the same pid.
Start(p, clock, k) ==
    /\ p \in Used \/ Cardinality(Used) < NProcesses
    /\ clock => \A q \in Used \ {p} : ~manager.entries[q].clock
    /\ LET entered == [manager EXCEPT !.entries[p] = Entry(clock)] IN
       IF MayAnnounce
       THEN Transmit(k, Announcement(p, Entry(clock)), entered,
                     [entered EXCEPT !.entries[p] = Told(@)])
       ELSE Keep(k, entered)
    /\ UNCHANGED <<replies, audiod>>

\* fplinux_session_audio_gone: GONE only for a process that was announced.
TellsGone(p) == manager.fd /\ manager.entries[p].announced
Leave(p, k) ==
    /\ p \in Used
    /\ LET left == [manager EXCEPT !.entries[p] = NoEntry] IN
       IF TellsGone(p)
       THEN Transmit(k, <<GONE(p)>>, left, left)
       ELSE Keep(k, left)
    /\ UNCHANGED <<replies, audiod>>

\* fplinux_session_audio_audible: AUDIBLE when the announced state changes.
SetAudible(p, audible, k) ==
    /\ p \in Used
    /\ LET set == [manager EXCEPT !.entries[p].audible = audible] IN
       IF manager.fd /\ manager.entries[p].announced /\ manager.entries[p].told # audible
       THEN Transmit(k, <<AUDIBLE(p, audible)>>, set, [set EXCEPT !.entries[p].told = audible])
       ELSE Keep(k, set)
    /\ UNCHANGED <<replies, audiod>>

\* fplinux_session_audio_set_volume: one VOLUME in flight at a time.
TellsVolume(level) ==
    manager.fd /\ ~manager.waiting /\ (~manager.known \/ manager.applied # level)
SetVolume(level, k) ==
    /\ LET set == [manager EXCEPT !.desired = level] IN
       IF TellsVolume(level)
       THEN Transmit(k, <<VOLUME(level)>>, set, SentVolume(set))
       ELSE Keep(k, set)
    /\ UNCHANGED <<replies, audiod>>

-----------------------------------------------------------------------------
(* fplinux_session_audio_dispatch. *)

\* connect_service: VOLUME is the first packet of a link, which is lost at
\* once when VOLUME cannot be sent.
Connect(sent) ==
    /\ ~manager.fd /\ manager.retry = 0
    /\ Len(links) < MaxLinks
    /\ manager' = IF sent THEN SentVolume([manager EXCEPT !.fd = TRUE]) ELSE Lost(manager)
    /\ links' = Append(links,
          [open |-> sent, queue |-> IF sent THEN <<VOLUME(manager.desired)>> ELSE <<>>])
    /\ replies' = <<>>
    /\ UNCHANGED <<hung, audiod>>

\* audiod is not there, or its backlog is full.
ConnectFails ==
    /\ ~manager.fd /\ manager.retry = 0
    /\ manager' = Lost(manager)
    /\ UNCHANGED <<hung, replies, links, audiod>>

Lose ==
    /\ manager' = Lost(manager)
    /\ links' = IF HasLink THEN [links EXCEPT ![Own].open = FALSE] ELSE links
    /\ hung' = FALSE
    /\ UNCHANGED <<replies, audiod>>

VolumeTimeout == manager.fd /\ manager.waiting /\ manager.left = 0 /\ Lose

HangUpWaiting == hung /\ manager.waiting /\ Lose
HangUp == hung /\ Lose

\* The reply at the head is the one the manager waits for.  Any other would
\* lose the connection too; RepliesExpected shows that there is none.
Expected == manager.waiting /\ Head(replies) = manager.sent

\* announce_all: in the order of the manager's table, which is any order of its
\* processes here.
AllAnnouncements(order) ==
    [i \in 1 .. 2 * Len(order) |->
        LET p == order[(i + 1) \div 2] IN Announcement(p, manager.entries[p])[2 - (i % 2)]]

\* What the awaited reply confirms is the level that was sent.
ConfirmedDesired(m) == [m EXCEPT !.waiting = FALSE, !.known = TRUE, !.applied = m.desired]
Confirmed(m) == [m EXCEPT !.waiting = FALSE, !.known = TRUE, !.applied = m.sent]

\* The awaited reply: a level that changed meanwhile is sent; else the first
\* reply of a link is followed by the whole state, which resets the backoff.
Reply(k) ==
    /\ HasLink /\ replies # <<>> /\ Expected
    /\ ~(manager.waiting /\ manager.left = 0)
    /\ LET got == Confirmed(manager)
           ready == [got EXCEPT !.ready = TRUE]
           all == [p \in Pids |-> IF p \in Used THEN Told(got.entries[p]) ELSE got.entries[p]] IN
       \/ got.desired # got.applied /\ Transmit(k, <<VOLUME(got.desired)>>, got, SentVolume(got))
       \/ /\ got.desired = got.applied /\ ~got.ready
          /\ \E order \in SetToSeqs(Used) :
               Transmit(k, AllAnnouncements(order), ready,
                        [ready EXCEPT !.entries = all, !.backoff = 1])
       \/ got.desired = got.applied /\ got.ready /\ Keep(k, got)
    /\ replies' = Tail(replies)
    /\ UNCHANGED audiod

Down(t) == IF t > 0 THEN t - 1 ELSE 0
Tick ==
    /\ manager' = [manager EXCEPT !.retry = IF manager.fd THEN @ ELSE Down(@),
                                  !.left = IF manager.waiting THEN Down(@) ELSE @]
    /\ UNCHANGED <<hung, replies, links, audiod>>

-----------------------------------------------------------------------------
(* audiod. *)

\* drop_manager: the table is forgotten; a manager at the other end will see
\* the connection end.
DropServed ==
    /\ served' = FALSE
    /\ table' = NoTable
    /\ links' = Tail(links)
    /\ hung' = (hung \/ (HasLink /\ Own = 1))

\* accept_manager: a new connection replaces the one served.
Accept ==
    /\ Len(links) > (IF served THEN 1 ELSE 0)
    /\ links' = IF served THEN Tail(links) ELSE links
    /\ table' = NoTable
    /\ served' = TRUE
    /\ UNCHANGED <<manager, hung, replies, master>>

Next1 == Head(links[1].queue)
HasCommand == served /\ links[1].queue # <<>>

\* What announce() refuses.
Known == {p \in Pids : table[p].known}
Refused(command) ==
    \/ command.flag /\ \E q \in Known \ {command.pid} : table[q].clock
    \/ command.pid \notin Known /\ Cardinality(Known) >= NProcesses

Applied(command) ==
    LET p == command.pid IN
    CASE command.type = "ANNOUNCE" ->
            IF Refused(command) THEN table
            ELSE [table EXCEPT ![p] = [known |-> TRUE, clock |-> command.flag, audible |-> FALSE]]
      [] command.type = "AUDIBLE" ->
            IF table[p].known THEN [table EXCEPT ![p].audible = command.flag] ELSE table
      [] command.type = "GONE" -> [table EXCEPT ![p] = Unknown]

ReadCommand ==
    /\ HasCommand /\ Next1.type # "VOLUME"
    /\ table' = Applied(Next1)
    /\ links' = [links EXCEPT ![1].queue = Tail(@)]
    /\ UNCHANGED <<manager, hung, replies, served, master>>

\* The level is applied; a reply that cannot be sent, as on a link that the
\* manager has closed, drops the manager.
ReadVolume(answered) ==
    /\ HasCommand /\ Next1.type = "VOLUME"
    /\ answered => links[1].open
    /\ master' = Next1.level
    /\ IF answered
       THEN /\ replies' = Append(replies, Next1.level)
            /\ links' = [links EXCEPT ![1].queue = Tail(@)]
            /\ UNCHANGED <<hung, served, table>>
       ELSE DropServed /\ UNCHANGED replies
    /\ UNCHANGED manager

\* recv() returns 0 once the packets of a closed link are read.
ReadEnd ==
    /\ served /\ links[1].queue = <<>> /\ ~links[1].open
    /\ DropServed
    /\ UNCHANGED <<manager, replies, master>>

\* audiod stops or crashes, and its service starts it again.
Restart ==
    /\ served' = FALSE /\ table' = NoTable
    /\ links' = <<>>
    /\ hung' = manager.fd
    /\ master' \in Levels
    /\ UNCHANGED <<manager, replies>>

\* fplinux_session_audio_close, or a crash: the session manager ends, which
\* closes its link, and is started again.
ManagerRestart ==
    /\ \E level \in Levels : manager' = NewManager(level)
    /\ links' = IF HasLink THEN [links EXCEPT ![Own].open = FALSE] ELSE links
    /\ hung' = FALSE
    /\ UNCHANGED <<replies, audiod>>

-----------------------------------------------------------------------------
(* The specification. *)

Init ==
    /\ \E level \in Levels : manager = NewManager(level) /\ master = level
    /\ hung = FALSE /\ replies = <<>> /\ links = <<>>
    /\ served = FALSE /\ table = NoTable

Calls(k) ==
    \/ \E p \in Pids, clock \in BOOLEAN : Start(p, clock, k)
    \/ \E p \in Pids : Leave(p, k)
    \/ \E p \in Pids, audible \in BOOLEAN : SetAudible(p, audible, k)
    \/ \E level \in Levels : SetVolume(level, k)

Dispatch ==
    \/ Connect(TRUE) \/ HangUp \/ VolumeTimeout
    \/ \E k \in 0 .. MaxQueue : Reply(k)

Serve == Accept \/ ReadCommand \/ ReadEnd \/ \E answered \in BOOLEAN : ReadVolume(answered)

Failure == ConnectFails \/ Connect(FALSE) \/ Restart \/ ManagerRestart

Next ==
    \/ \E k \in 0 .. MaxQueue : Calls(k)
    \/ Dispatch \/ Serve \/ Failure \/ Tick

Spec == Init /\ [][Next]_vars

\* The manager's and audiod's loops run and time passes.
FairSpec == Spec /\ WF_vars(Dispatch) /\ WF_vars(Serve) /\ WF_vars(Tick)

-----------------------------------------------------------------------------
(* Properties. *)

\* The manager's record, the links and audiod's table keep their types and limits.
TypeOK ==
    /\ manager \in [fd : BOOLEAN, retry : 0 .. BackoffMax, backoff : 1 .. BackoffMax,
                    desired : Levels, sent : Levels, applied : Levels,
                    waiting : BOOLEAN, known : BOOLEAN, ready : BOOLEAN,
                    left : 0 .. VolumeTicks,
                    entries : [Pids -> [used : BOOLEAN, clock : BOOLEAN, audible : BOOLEAN,
                                        announced : BOOLEAN, told : BOOLEAN]]]
    /\ hung \in BOOLEAN /\ served \in BOOLEAN
    /\ \A i \in DOMAIN replies : replies[i] \in Levels
    /\ Len(links) <= MaxLinks
    /\ \A i \in DOMAIN links : links[i].open \in BOOLEAN /\ Len(links[i].queue) <= MaxQueue
    /\ table \in [Pids -> [known : BOOLEAN, clock : BOOLEAN, audible : BOOLEAN]]
    /\ master \in Levels

\* What audiod's table holds once it has read everything the manager sent.
View(p) == IF manager.ready /\ p \in Used
           THEN [known |-> TRUE, clock |-> manager.entries[p].clock,
                 audible |-> manager.entries[p].audible]
           ELSE Unknown

\* With nothing left to read on the manager's connection, audiod's table is the
\* manager's: no lost, failed or half-finished connection leaves an
\* announcement behind, and none is missing.
Mirror ==
    OwnServed /\ links[1].queue = <<>> => \A p \in Pids : table[p] = View(p)

\* audiod never refuses what this manager announces: its table has room, and
\* the clock helper before has left.
NeverRefused ==
    HasCommand /\ Next1.type = "ANNOUNCE" => ~Refused(Next1)

\* Nothing is announced for a dead connection: while audiod serves no link,
\* no process is known, so every stream is paused.
NoManagerNoProcess ==
    ~served => Known = {}

\* At most one VOLUME is in flight, and its reply is the level last sent.
RepliesExpected ==
    HasLink => /\ Len(replies) <= 1
               /\ replies # <<>> => Expected

\* The level the manager calls applied is the one audiod plays at.
VolumeApplied ==
    OwnServed /\ manager.known /\ ~manager.waiting => master = manager.applied

\* VOLUME is confirmed before any process is announced on a link, and every
\* process the manager keeps is announced from then on.
AnnouncedWhenReady ==
    \A p \in Used : manager.entries[p].announced = (manager.fd /\ manager.ready)

\* The two tables, in every state of the connection between them.
TablesAgree ==
    TypeOK /\ Mirror /\ NeverRefused /\ NoManagerNoProcess /\ AnnouncedWhenReady

\* The volume, in every state of its acknowledgement.
VolumeAgrees == RepliesExpected /\ VolumeApplied

\* The connection is up, nothing is on its way, and the volume is the desired one.
Settled == OwnServed /\ links[1].queue = <<>> /\ manager.ready /\ ~manager.waiting
           /\ master = manager.desired

\* After the last call, failure and missed deadline, the manager and audiod
\* agree for ever on every process and on the volume.
Disturbance == Failure \/ VolumeTimeout \/ (\E k \in 0 .. MaxQueue : Calls(k))
               \/ (ReadVolume(FALSE) /\ links[1].open)
               \/ (\E k \in 0 .. MaxQueue : Reply(k) /\ ~manager'.fd)
EventuallySettled ==
    <>[][~Disturbance]_vars => <>[](Settled /\ \A p \in Pids : table[p] = View(p))
=============================================================================
