----------------------- MODULE SessionHandOffProofs ------------------------
(***************************************************************************)
(* For any applications, any size of the launcher's socket and any number   *)
(* of launches, ends, changes of mode and covers: an ACTIVE_ACK means that   *)
(* the launcher's surface shows the frame of the newest ACTIVE, and, unless  *)
(* the launcher's full socket refused it, the application and the launcher   *)
(* are swapped in one repaint.                                               *)
(***************************************************************************)
EXTENDS SessionHandOff, SequenceTheorems, TLAPS

MaybeApp == Apps \cup {NoApp}
ProcessType == [up : BOOLEAN, dead : BOOLEAN, closing : BOOLEAN, ready : BOOLEAN,
                drawn : BOOLEAN, shown : BOOLEAN, leaving : BOOLEAN, park : BOOLEAN,
                placed : BOOLEAN, requested : Modes, configured : Modes, mode : Modes,
                late : BOOLEAN]
LauncherType == [up : BOOLEAN, dead : BOOLEAN, closing : BOOLEAN, fd : BOOLEAN, ready : BOOLEAN]
ClientType == [inbox : Seq(FrameType), canvas : Seq(FrameType), sync : Seq(FrameType),
               view : MaybeApp, acks : Seq(FrameType)]
CoverType == {"none", "locked", "off"}
MessageType == [app : MaybeApp, card : BOOLEAN, cover : CoverType, rest : Nat]
SessionType == [app : MaybeApp, task : [Apps -> ProcessType], launcher : LauncherType,
                client : ClientType, failures : 0 .. MaxFailures, pending : MaybeApp,
                starting : BOOLEAN, acked : BOOLEAN, expired : BOOLEAN, retained : BOOLEAN,
                busy : {"no", "yes", "finishing"}, refused : BOOLEAN,
                late : BOOLEAN, held : SUBSET {"LAUNCH", "HOME"}, last : MessageType,
                sent : BOOLEAN, named : BOOLEAN, wait : BOOLEAN, draws : BOOLEAN,
                gaveUp : BOOLEAN, rest : Nat, launches : Nat, modes : Nat, busies : Nat,
                crashes : Nat, covers : Nat]

-----------------------------------------------------------------------------
(* The inductive invariant. *)

\* A launcher's process has not used up its starts, and what it has been told is
\* gone with it.
LauncherOK(s) ==
    /\ s.launcher.dead \/ s.launcher.fd => s.launcher.up
    /\ s.launcher.up => s.failures < MaxFailures
    /\ ~s.launcher.up \/ ~s.sent => s.client = NoClient
    /\ Len(s.client.inbox) <= InboxMax

\* The newest ACTIVE is the last message in the launcher's socket, or the frame
\* it has drawn, or on its surface; nothing is left behind it there, so that its
\* frame stays once it is on the surface.
NewestLast(s) ==
    /\ s.named = (s.last.app # NoApp)
    /\ \A i \in DOMAIN s.client.inbox : s.client.inbox[i].current =>
          i = Len(s.client.inbox) /\ s.client.inbox[i].app = s.last.app
    /\ \A i \in DOMAIN s.client.canvas : s.client.canvas[i].current =>
          s.client.inbox = <<>> /\ s.client.canvas[i].app = s.last.app

OnSurface(s) == s.client.inbox = <<>> /\ s.client.canvas = <<>> /\ s.client.view = s.last.app

AnswersTrue(s) ==
    /\ Len(s.client.canvas) <= 1 /\ Len(s.client.sync) <= 1 /\ Len(s.client.acks) <= 1
    /\ \A i \in DOMAIN s.client.sync : s.client.sync[i].current => OnSurface(s)
    /\ \A i \in DOMAIN s.client.acks : s.client.acks[i].current => OnSurface(s)
    /\ ~s.wait /\ ~s.gaveUp => OnSurface(s) /\ s.draws = s.named

Told(s) == s.sent /\ s.launcher.up => NewestLast(s) /\ AnswersTrue(s)

HandOffOK(s) == s \in SessionType /\ LauncherOK(s) /\ Told(s)

HandOffInv == HandOffOK(session) /\ cover \in CoverType

-----------------------------------------------------------------------------
(* Steps that do not concern the launcher. *)

\* Nothing of the launcher, of ACTIVE and of its answers changes.
SameTold(s, t) ==
    /\ t.client = s.client /\ t.last = s.last /\ t.sent = s.sent /\ t.named = s.named
    /\ t.wait = s.wait /\ t.draws = s.draws /\ t.gaveUp = s.gaveUp /\ t.refused = s.refused
    /\ t.launcher.up = s.launcher.up /\ t.launcher.dead = s.launcher.dead
    /\ t.launcher.fd = s.launcher.fd

\* Such steps keep what the launcher was told.
LEMMA SameKeeps ==
  ASSUME NEW s, NEW t \in SessionType, HandOffOK(s), SameTold(s, t), t.failures \in {0, s.failures}
  PROVE  HandOffOK(t)
  <1>1. s \in SessionType /\ LauncherOK(s) /\ Told(s)
    BY DEF HandOffOK
  <1>2. s.failures \in Nat /\ t.failures \in Nat /\ MaxFailures \in Nat
    BY <1>1, HandOffAssumption DEF SessionType, HandOffAssumption
  <1>3. LauncherOK(t)
    BY <1>1, <1>2 DEF LauncherOK, SameTold
  <1>4. Told(t)
    BY <1>1 DEF Told, SameTold, NewestLast, AnswersTrue, OnSurface
  <1> QED
    BY <1>3, <1>4 DEF HandOffOK

\* The records of processes.
LEMMA Processes ==
  ASSUME NEW a
  PROVE  /\ Fresh(a) \in ProcessType /\ NoProcess(a) \in ProcessType
         /\ Fresh(a).up /\ ~NoProcess(a).up /\ ~NoProcess(a).dead /\ ~NoProcess(a).shown
  <1>1. Declared(a) \in Modes
    BY DEF Declared, Modes
  <1> QED
    BY <1>1 DEF Fresh, NoProcess, ProcessType

\* The application in front is one of the table, if there is one.
LEMMA Front ==
  ASSUME NEW s \in SessionType
  PROVE  /\ App(s) \in ProcessType
         /\ App(s).up => s.app \in Apps /\ App(s) = s.task[s.app]
         /\ s.app # NoApp => s.app \in Apps /\ App(s) = s.task[s.app]
  BY Processes DEF App, SessionType, MaybeApp

\* finish_launch() touches only the launch.
LEMMA FinishLaunchSame ==
  ASSUME NEW s \in SessionType
  PROVE  /\ FinishLaunch(s) \in SessionType /\ SameTold(s, FinishLaunch(s))
         /\ FinishLaunch(s).failures = s.failures
         /\ FinishLaunch(s).task = s.task /\ FinishLaunch(s).app = s.app
         /\ FinishLaunch(s).pending = s.pending /\ FinishLaunch(s).held = s.held
  BY DEF FinishLaunch, SessionType, SameTold

\* hold_scene() and release_scene().
LEMMA ScenesSame ==
  ASSUME NEW s \in SessionType, NEW scene \in {"LAUNCH", "HOME"}, NEW scenes
  PROVE  /\ HoldScene(s, scene) \in SessionType /\ SameTold(s, HoldScene(s, scene))
         /\ HoldScene(s, scene).failures = s.failures
         /\ HoldScene(s, scene).task = s.task /\ HoldScene(s, scene).app = s.app
         /\ HoldScene(s, scene).pending = s.pending
         /\ ReleaseScene(s, scenes) \in SessionType /\ SameTold(s, ReleaseScene(s, scenes))
         /\ ReleaseScene(s, scenes).failures = s.failures
  BY DEF HoldScene, ReleaseScene, SessionType, SameTold

\* A process that is asked to close, is parked or leaves.
LEMMA CloseSame ==
  ASSUME NEW s \in SessionType, NEW a \in MaybeApp
  PROVE  /\ RequestClose(s, a) \in SessionType /\ SameTold(s, RequestClose(s, a))
         /\ RequestClose(s, a).failures = s.failures
         /\ CloseLauncher(s) \in SessionType /\ SameTold(s, CloseLauncher(s))
         /\ CloseLauncher(s).failures = s.failures
  <1>1. RequestClose(s, a) \in SessionType /\ SameTold(s, RequestClose(s, a))
        /\ RequestClose(s, a).failures = s.failures
    <2>1. CASE a # NoApp /\ IsRunning(s.task[a])
      <3>1. a \in Apps /\ s.task[a] \in ProcessType
        BY <2>1 DEF MaybeApp, SessionType
      <3>2. [s.task[a] EXCEPT !.closing = TRUE] \in ProcessType
        BY <3>1 DEF ProcessType
      <3>3. [s.task EXCEPT ![a].closing = TRUE] \in [Apps -> ProcessType]
        BY <3>1, <3>2 DEF SessionType
      <3> QED
        BY <2>1, <3>3 DEF RequestClose, SessionType, SameTold
    <2>2. CASE ~(a # NoApp /\ IsRunning(s.task[a]))
      BY <2>2 DEF RequestClose, SameTold
    <2> QED
      BY <2>1, <2>2
  <1>2. CloseLauncher(s) \in SessionType /\ SameTold(s, CloseLauncher(s))
        /\ CloseLauncher(s).failures = s.failures
    <2>1. [s.launcher EXCEPT !.closing = TRUE] \in LauncherType
      BY DEF SessionType, LauncherType
    <2> DEFINE asked == [s.launcher EXCEPT !.closing = TRUE]
    <2>2. asked \in LauncherType /\ asked.up = s.launcher.up /\ asked.dead = s.launcher.dead
          /\ asked.fd = s.launcher.fd
      BY <2>1 DEF SessionType, LauncherType
    <2>3. CloseLauncher(s) \in {s, [s EXCEPT !.launcher = asked]}
      BY DEF CloseLauncher, SessionType
    <2> HIDE DEF asked
    <2>4. /\ [s EXCEPT !.launcher = asked] \in SessionType
          /\ SameTold(s, [s EXCEPT !.launcher = asked])
          /\ [s EXCEPT !.launcher = asked].failures = s.failures
      BY <2>2 DEF SessionType, SameTold
    <2>5. SameTold(s, s)
      BY DEF SameTold
    <2> QED
      BY <2>3, <2>4, <2>5
  <1> QED
    BY <1>1, <1>2

\* One process of the table is changed.
LEMMA TaskAs ==
  ASSUME NEW s \in SessionType, NEW a \in Apps, NEW process \in ProcessType
  PROVE  /\ [s EXCEPT !.task[a] = process] \in SessionType
         /\ SameTold(s, [s EXCEPT !.task[a] = process])
         /\ [s EXCEPT !.task[a] = process].failures = s.failures
         /\ [s EXCEPT !.task[a] = process].app = s.app
         /\ [s EXCEPT !.task[a] = process].task[a] = process
  <1>1. [s.task EXCEPT ![a] = process] \in [Apps -> ProcessType]
    BY DEF SessionType
  <1> QED
    BY <1>1 DEF SessionType, SameTold

\* park_app() leaves nobody in front.
LEMMA ParkSame ==
  ASSUME NEW s \in SessionType, s.app \in Apps
  PROVE  ParkApp(s) \in SessionType /\ SameTold(s, ParkApp(s)) /\ ParkApp(s).failures = s.failures
  <1>1. s.task[s.app] \in ProcessType
    BY DEF SessionType
  <1> DEFINE parked == [s.task[s.app] EXCEPT !.shown = FALSE, !.leaving = FALSE, !.park = FALSE]
  <1>2. parked \in ProcessType
    BY <1>1 DEF ProcessType
  <1>3. [s.task EXCEPT ![s.app] = parked] \in [Apps -> ProcessType]
    BY <1>2 DEF SessionType
  <1>4. ParkApp(s) = [s EXCEPT !.task = [s.task EXCEPT ![s.app] = parked], !.app = NoApp]
    BY DEF ParkApp
  <1> DEFINE tasks == [s.task EXCEPT ![s.app] = parked]
             t == [s EXCEPT !.task = tasks, !.app = NoApp]
  <1>5. tasks \in [Apps -> ProcessType] /\ ParkApp(s) = t
    BY <1>3, <1>4
  <1> HIDE DEF parked, tasks
  <1>6. t \in SessionType
    BY <1>5 DEF SessionType, MaybeApp
  <1>7. SameTold(s, t) /\ t.failures = s.failures
    BY DEF SessionType, SameTold
  <1> QED
    BY <1>5, <1>6, <1>7

\* leave_app() changes the application in front, the launch and the held scenes.
LEMMA LeaveSame ==
  ASSUME NEW s \in SessionType, NEW retain \in BOOLEAN
  PROVE  /\ LeaveApp(s, retain) \in SessionType /\ SameTold(s, LeaveApp(s, retain))
         /\ LeaveApp(s, retain).failures = s.failures
  <1> DEFINE held == IF IsRunning(App(s)) /\ App(s).shown /\ "LAUNCH" \notin s.held
                     THEN HoldScene(s, "HOME") ELSE s
             finished == IF s.pending = NoApp THEN FinishLaunch(held) ELSE held
             marked == [finished EXCEPT !.task[s.app].park = retain]
             leaves == [marked EXCEPT !.task[s.app].leaving = TRUE, !.late = FALSE]
  <1>1. /\ held \in SessionType /\ SameTold(s, held) /\ held.failures = s.failures
        /\ held.task = s.task /\ held.app = s.app
    BY ScenesSame DEF SameTold
  <1>2. /\ finished \in SessionType /\ SameTold(s, finished) /\ finished.failures = s.failures
        /\ finished.task = s.task /\ finished.app = s.app
    <2> HIDE DEF held
    <2> QED
      BY <1>1, FinishLaunchSame DEF SameTold
  <1>3. LeaveApp(s, retain) = IF ~IsRunning(App(s)) \/ App(s).leaving THEN held
                              ELSE IF ~App(s).shown \/ ~Uncovered
                              THEN IF retain THEN ParkApp(marked) ELSE RequestClose(marked, s.app)
                              ELSE leaves
    BY DEF LeaveApp
  <1>4. ASSUME IsRunning(App(s))
        PROVE  /\ marked \in SessionType /\ SameTold(s, marked) /\ marked.failures = s.failures
               /\ marked.app = s.app /\ s.app \in Apps
               /\ leaves \in SessionType /\ SameTold(s, leaves) /\ leaves.failures = s.failures
    <2> HIDE DEF held, finished
    <2>1. s.app \in Apps /\ finished.task[s.app] \in ProcessType
      BY <1>2, <1>4, Front DEF IsRunning, SessionType
    <2>2. [finished.task[s.app] EXCEPT !.park = retain] \in ProcessType
      BY <2>1 DEF ProcessType
    <2>3. marked = [finished EXCEPT !.task[s.app] = [finished.task[s.app] EXCEPT !.park = retain]]
      BY <1>2 DEF SessionType
    <2>4. /\ marked \in SessionType /\ SameTold(finished, marked)
          /\ marked.failures = finished.failures /\ marked.app = finished.app
      BY <1>2, <2>1, <2>2, <2>3, TaskAs
    <2> HIDE DEF marked
    <2>5. marked.task[s.app] \in ProcessType
      BY <2>1, <2>4 DEF SessionType
    <2>6. [marked.task[s.app] EXCEPT !.leaving = TRUE] \in ProcessType
      BY <2>5 DEF ProcessType
    <2>7. [marked.task EXCEPT ![s.app].leaving = TRUE] \in [Apps -> ProcessType]
      BY <2>1, <2>4, <2>6 DEF SessionType
    <2>8. leaves \in SessionType /\ SameTold(marked, leaves) /\ leaves.failures = marked.failures
      BY <2>4, <2>7 DEF SessionType, SameTold
    <2> QED
      BY <1>2, <2>1, <2>4, <2>8 DEF SameTold
  <1> HIDE DEF held, finished, marked, leaves
  <1>5. CASE ~IsRunning(App(s)) \/ App(s).leaving
    BY <1>1, <1>3, <1>5
  <1>6. CASE ~(~IsRunning(App(s)) \/ App(s).leaving)
    <2>1. /\ ParkApp(marked) \in SessionType /\ SameTold(marked, ParkApp(marked))
          /\ ParkApp(marked).failures = marked.failures
      BY <1>4, <1>6, ParkSame
    <2>2. /\ RequestClose(marked, s.app) \in SessionType
          /\ SameTold(marked, RequestClose(marked, s.app))
          /\ RequestClose(marked, s.app).failures = marked.failures
      BY <1>4, <1>6, CloseSame DEF MaybeApp
    <2> QED
      BY <1>3, <1>4, <1>6, <2>1, <2>2 DEF SameTold
  <1> QED
    BY <1>5, <1>6

\* finish_activation() and settle_held_scene().
LEMMA SettleSame ==
  ASSUME NEW s \in SessionType
  PROVE  /\ FinishActivation(s) \in SessionType /\ SameTold(s, FinishActivation(s))
         /\ FinishActivation(s).failures = s.failures /\ FinishActivation(s).task = s.task
         /\ FinishActivation(s).held = s.held /\ FinishActivation(s).late = s.late
         /\ SettleHeldScene(s) \in SessionType /\ SameTold(s, SettleHeldScene(s))
         /\ SettleHeldScene(s).failures = s.failures
  <1>1. SameTold(s, s)
    BY DEF SameTold
  <1>2. /\ FinishActivation(s) \in SessionType /\ SameTold(s, FinishActivation(s))
        /\ FinishActivation(s).failures = s.failures /\ FinishActivation(s).task = s.task
        /\ FinishActivation(s).held = s.held /\ FinishActivation(s).late = s.late
    <2> DEFINE t == [s EXCEPT !.starting = FALSE, !.expired = FALSE]
    <2>1. /\ t \in SessionType /\ SameTold(s, t) /\ t.failures = s.failures
          /\ t.task = s.task /\ t.held = s.held /\ t.late = s.late
      BY DEF SessionType, SameTold
    <2>2. FinishActivation(s) \in {s, t, FinishLaunch(s)}
      BY DEF FinishActivation
    <2>3. FinishLaunch(s).late = s.late
      BY DEF FinishLaunch, SessionType
    <2> HIDE DEF t
    <2> QED
      BY <1>1, <2>1, <2>2, <2>3, FinishLaunchSame
  <1>3. SettleHeldScene(s) \in {s, ReleaseScene(s, {"LAUNCH", "HOME"})}
    BY DEF SettleHeldScene
  <1>4. /\ ReleaseScene(s, {"LAUNCH", "HOME"}) \in SessionType
        /\ SameTold(s, ReleaseScene(s, {"LAUNCH", "HOME"}))
        /\ ReleaseScene(s, {"LAUNCH", "HOME"}).failures = s.failures
    BY ScenesSame
  <1>5. /\ SettleHeldScene(s) \in SessionType /\ SameTold(s, SettleHeldScene(s))
        /\ SettleHeldScene(s).failures = s.failures
    BY <1>1, <1>3, <1>4
  <1> QED
    BY <1>2, <1>5

-----------------------------------------------------------------------------
(* ACTIVE. *)

\* With a newer serial, no message, frame or answer before it counts.
LEMMA OutdatedFrames ==
  ASSUME NEW q \in Seq(FrameType)
  PROVE  /\ Outdated(q) \in Seq(FrameType) /\ Len(Outdated(q)) = Len(q)
         /\ DOMAIN Outdated(q) = 1 .. Len(q) /\ Len(q) \in Nat
         /\ \A i \in DOMAIN Outdated(q) : ~Outdated(q)[i].current
  <1>1. Len(q) \in Nat /\ DOMAIN q = 1 .. Len(q)
    BY LenProperties
  <1>2. \A i \in 1 .. Len(q) : q[i] \in FrameType
    BY <1>1, ElementOfSeq
  <1>3. \A i \in 1 .. Len(q) : [q[i] EXCEPT !.current = FALSE] \in FrameType
                               /\ ~[q[i] EXCEPT !.current = FALSE].current
    BY <1>2 DEF FrameType
  <1>4. Outdated(q) = [i \in 1 .. Len(q) |-> [q[i] EXCEPT !.current = FALSE]]
    BY <1>1 DEF Outdated
  <1>5. Outdated(q) \in [1 .. Len(q) -> FrameType]
    BY <1>3, <1>4
  <1>6. Outdated(q) \in Seq(FrameType) /\ Len(Outdated(q)) = Len(q)
    BY <1>1, <1>5, IsASeq, LenProperties
  <1> QED
    BY <1>1, <1>3, <1>4, <1>6

\* The message names the application in front if it is announced.
LEMMA MessageNames ==
  ASSUME NEW s \in SessionType, cover \in CoverType
  PROVE  /\ Message(s) \in MessageType
         /\ AppAnnounced(s) = (Message(s).app # NoApp)
  <1>1. AppAnnounced(s) => s.app \in Apps
    BY Front DEF AppAnnounced, AppInForeground, IsRunning
  <1>2. AppAnnounced(s) \in BOOLEAN
    BY Front DEF AppAnnounced, AppInForeground, IsRunning, SessionType, ProcessType
  <1>3. s.app \in MaybeApp /\ LaunchInProgress(s) \in BOOLEAN /\ s.rest \in Nat
    BY DEF SessionType, LaunchInProgress
  <1> QED
    BY <1>1, <1>2, <1>3, HandOffAssumption DEF Message, MessageType, MaybeApp, HandOffAssumption

\* The newest ACTIVE is the last in the socket.
LEMMA SentOK ==
  ASSUME NEW s, HandOffOK(s), cover \in CoverType, s.launcher.fd,
         Len(s.client.inbox) # InboxMax
  PROVE  HandOffOK(Sent(s))
  <1> DEFINE m == Message(s)
             frame == [app |-> m.app, current |-> TRUE]
             c == [inbox |-> Append(Outdated(s.client.inbox), frame),
                   canvas |-> Outdated(s.client.canvas),
                   sync |-> Outdated(s.client.sync),
                   view |-> s.client.view,
                   acks |-> Outdated(s.client.acks)]
             t == [s EXCEPT !.last = m, !.sent = TRUE, !.named = AppAnnounced(s), !.wait = TRUE,
                            !.gaveUp = FALSE, !.refused = FALSE, !.client = c]
  <1>1. s \in SessionType /\ LauncherOK(s)
    BY DEF HandOffOK
  <1>2. m \in MessageType /\ AppAnnounced(s) = (m.app # NoApp)
    BY <1>1, MessageNames
  <1>3. Sent(s) = t
    BY DEF Sent
  <1> HIDE DEF m
  <1>4. frame \in FrameType /\ frame.current /\ frame.app = m.app
    BY <1>2 DEF MessageType, FrameType, MaybeApp
  <1> HIDE DEF frame
  <1>5. /\ s.client.inbox \in Seq(FrameType) /\ s.client.canvas \in Seq(FrameType)
        /\ s.client.sync \in Seq(FrameType) /\ s.client.acks \in Seq(FrameType)
        /\ s.client.view \in MaybeApp
    BY <1>1 DEF SessionType, ClientType
  <1> DEFINE o == Outdated(s.client.inbox)
  <1>6. /\ o \in Seq(FrameType) /\ Len(o) = Len(s.client.inbox) /\ DOMAIN o = 1 .. Len(o)
        /\ Len(o) \in Nat /\ \A i \in DOMAIN o : ~o[i].current
    BY <1>5, OutdatedFrames
  <1>7. /\ c.canvas \in Seq(FrameType) /\ c.sync \in Seq(FrameType) /\ c.acks \in Seq(FrameType)
        /\ Len(c.canvas) = Len(s.client.canvas) /\ Len(c.sync) = Len(s.client.sync)
        /\ Len(c.acks) = Len(s.client.acks)
        /\ \A i \in DOMAIN c.canvas : ~c.canvas[i].current
        /\ \A i \in DOMAIN c.sync : ~c.sync[i].current
        /\ \A i \in DOMAIN c.acks : ~c.acks[i].current
    BY <1>5, OutdatedFrames
  <1> HIDE DEF o
  <1>8. /\ Append(o, frame) \in Seq(FrameType) /\ Len(Append(o, frame)) = Len(o) + 1
        /\ \A i \in DOMAIN Append(o, frame) : Append(o, frame)[i].current =>
              i = Len(o) + 1 /\ Append(o, frame)[i].app = m.app
    <2>1. /\ Append(o, frame) \in Seq(FrameType) /\ Len(Append(o, frame)) = Len(o) + 1
          /\ \A i \in 1 .. Len(o) : Append(o, frame)[i] = o[i]
          /\ Append(o, frame)[Len(o) + 1] = frame
      BY <1>4, <1>6, AppendProperties
    <2>2. DOMAIN Append(o, frame) = 1 .. Len(o) + 1
      BY <2>1, LenProperties
    <2>3. \A i \in DOMAIN Append(o, frame) : i \in DOMAIN o \/ i = Len(o) + 1
      BY <1>6, <2>2
    <2> QED
      BY <1>4, <1>6, <2>1, <2>3
  <1>9. c.inbox = Append(o, frame) /\ c.view = s.client.view
    BY DEF o
  <1>10. c \in ClientType
    BY <1>5, <1>7, <1>8, <1>9 DEF ClientType
  <1>11. Len(s.client.canvas) <= 1 /\ Len(s.client.sync) <= 1 /\ Len(s.client.acks) <= 1
    <2>1. s.launcher.up
      BY <1>1 DEF LauncherOK
    <2>2. CASE s.sent
      BY <2>1, <2>2 DEF HandOffOK, Told, AnswersTrue
    <2>3. CASE ~s.sent
      BY <1>1, <2>3 DEF LauncherOK, NoClient
    <2> QED
      BY <2>2, <2>3
  <1> HIDE DEF c
  <1>12. /\ t.last = m /\ t.sent /\ t.named = AppAnnounced(s) /\ t.wait /\ ~t.gaveUp
         /\ t.client = c /\ t.launcher = s.launcher /\ t.failures = s.failures
    BY <1>1 DEF SessionType
  <1>13. t \in SessionType
    <2>1. AppAnnounced(s) \in BOOLEAN
      BY <1>2
    <2> QED
      BY <1>1, <1>2, <1>10, <2>1 DEF SessionType
  <1> HIDE DEF t
  <1>14. Len(c.inbox) <= InboxMax
    <2>1. Len(s.client.inbox) <= InboxMax /\ InboxMax \in Nat
      BY <1>1, HandOffAssumption DEF LauncherOK, HandOffAssumption
    <2> QED
      BY <1>6, <1>8, <1>9, <2>1
  <1>15. LauncherOK(t)
    BY <1>1, <1>12, <1>14 DEF LauncherOK
  <1>16. NewestLast(t)
    BY <1>2, <1>7, <1>8, <1>9, <1>12 DEF NewestLast
  <1>17. AnswersTrue(t)
    BY <1>7, <1>11, <1>12 DEF AnswersTrue
  <1> QED
    BY <1>3, <1>13, <1>15, <1>16, <1>17 DEF HandOffOK, Told

\* send_active(), whether or not it sends.
LEMMA SendOK ==
  ASSUME NEW s, HandOffOK(s), cover \in CoverType
  PROVE  HandOffOK(SendActive(s))
  <1>1. ASSUME NEW b \in BOOLEAN PROVE HandOffOK([s EXCEPT !.refused = b])
    <2> DEFINE t == [s EXCEPT !.refused = b]
    <2>1. s \in SessionType /\ LauncherOK(s) /\ Told(s)
      BY DEF HandOffOK
    <2>2. /\ t \in SessionType /\ t.client = s.client /\ t.last = s.last /\ t.sent = s.sent
          /\ t.named = s.named /\ t.wait = s.wait /\ t.draws = s.draws /\ t.gaveUp = s.gaveUp
          /\ t.launcher = s.launcher /\ t.failures = s.failures
      BY <2>1 DEF SessionType
    <2> HIDE DEF t
    <2>3. LauncherOK(t) /\ Told(t)
      BY <2>1, <2>2 DEF LauncherOK, Told, NewestLast, AnswersTrue, OnSurface
    <2> QED
      BY <2>2, <2>3 DEF HandOffOK, t
  <1>2. HandOffOK([s EXCEPT !.refused = FALSE]) /\ HandOffOK([s EXCEPT !.refused = TRUE])
    BY <1>1
  <1> QED
    BY <1>2, SentOK DEF SendActive

\* send_active() after a change that does not concern the launcher.
LEMMA SendSame ==
  ASSUME NEW s, NEW t \in SessionType, HandOffOK(s), SameTold(s, t), t.failures \in {0, s.failures},
         cover \in CoverType
  PROVE  HandOffOK(SendActive(t))
  BY SameKeeps, SendOK

-----------------------------------------------------------------------------
(* Launching, leaving and closing. *)

\* begin_launch(): the application before leaves, and the card is told.
LEMMA BeginLaunchOK ==
  ASSUME NEW s, HandOffOK(s), cover \in CoverType, NEW a \in Apps
  PROVE  HandOffOK(BeginLaunch(s, a))
  <1> DEFINE set == [s EXCEPT !.pending = a, !.starting = TRUE, !.acked = FALSE, !.busy = "no",
                              !.retained = s.task[a].up, !.launches = @ + 1]
             begun == SendActive(HoldScene(set, "LAUNCH"))
             left == LeaveApp(begun, TRUE)
  <1>1. s \in SessionType
    BY DEF HandOffOK
  <1>2. s.task[a].up \in BOOLEAN /\ s.launches + 1 \in Nat
    BY <1>1 DEF SessionType, ProcessType
  <1>3. set \in SessionType /\ SameTold(s, set) /\ set.failures = s.failures
    BY <1>1, <1>2 DEF SessionType, SameTold, MaybeApp
  <1>4. BeginLaunch(s, a) = SendActive(IF a \in Fullscreen THEN CloseLauncher(left) ELSE left)
    BY DEF BeginLaunch
  <1> HIDE DEF set
  <1>5. HandOffOK(set)
    BY <1>3, SameKeeps
  <1>6. HandOffOK(begun)
    BY <1>3, <1>5, ScenesSame, SendSame
  <1>7. begun \in SessionType
    BY <1>6 DEF HandOffOK
  <1> HIDE DEF begun
  <1>8. HandOffOK(left)
    BY <1>6, <1>7, LeaveSame, SameKeeps
  <1>9. left \in SessionType
    BY <1>8 DEF HandOffOK
  <1> HIDE DEF left
  <1>10. HandOffOK(CloseLauncher(left))
    BY <1>8, <1>9, CloseSame, SameKeeps DEF MaybeApp
  <1> QED
    BY <1>4, <1>8, <1>10, SendOK

\* fplinux_session_cancel_launch().
LEMMA CancelLaunchOK ==
  ASSUME NEW s, HandOffOK(s), cover \in CoverType
  PROVE  HandOffOK(CancelLaunch(s))
  <1> DEFINE owns == s.app # NoApp /\ s.pending = NoApp
             cleared == [s EXCEPT !.pending = NoApp]
             left == IF ~owns THEN cleared
                     ELSE IF s.retained THEN LeaveApp(cleared, TRUE)
                     ELSE RequestClose(cleared, s.app)
  <1>1. s \in SessionType
    BY DEF HandOffOK
  <1>2. cleared \in SessionType /\ SameTold(s, cleared) /\ cleared.failures = s.failures
    BY <1>1 DEF SessionType, SameTold, MaybeApp
  <1>3. CancelLaunch(s) = IF ~LaunchInProgress(s) THEN s ELSE SendActive(FinishLaunch(left))
    BY DEF CancelLaunch
  <1> HIDE DEF cleared
  <1>4. HandOffOK(cleared)
    BY <1>2, SameKeeps
  <1>5. HandOffOK(LeaveApp(cleared, TRUE))
    BY <1>2, <1>4, LeaveSame, SameKeeps
  <1>6. HandOffOK(RequestClose(cleared, s.app))
    <2>1. s.app \in MaybeApp
      BY <1>1 DEF SessionType
    <2> QED
      BY <1>2, <1>4, <2>1, CloseSame, SameKeeps
  <1>7. HandOffOK(left)
    BY <1>4, <1>5, <1>6
  <1> HIDE DEF left
  <1>8. left \in SessionType
    BY <1>7 DEF HandOffOK
  <1>9. HandOffOK(SendActive(FinishLaunch(left)))
    BY <1>7, <1>8, FinishLaunchSame, SendSame
  <1> QED
    BY <1>3, <1>9

\* return_home().
LEMMA ReturnHomeOK ==
  ASSUME NEW s, HandOffOK(s), cover \in CoverType
  PROVE  HandOffOK(ReturnHome(s))
  <1> DEFINE cleared == [s EXCEPT !.pending = NoApp]
             calm == FinishLaunch(cleared)
             held == IF AppInForeground(s) /\ App(s).shown THEN HoldScene(calm, "HOME") ELSE calm
  <1>1. s \in SessionType
    BY DEF HandOffOK
  <1>2. cleared \in SessionType /\ SameTold(s, cleared) /\ cleared.failures = s.failures
    BY <1>1 DEF SessionType, SameTold, MaybeApp
  <1>3. ReturnHome(s) = SendActive(LeaveApp(held, TRUE))
    BY DEF ReturnHome
  <1> HIDE DEF cleared
  <1>4. calm \in SessionType /\ HandOffOK(calm)
    BY <1>2, FinishLaunchSame, SameKeeps
  <1> HIDE DEF calm
  <1>5. held \in SessionType /\ HandOffOK(held)
    BY <1>4, ScenesSame, SameKeeps
  <1> HIDE DEF held
  <1> QED
    BY <1>3, <1>5, LeaveSame, SendSame

\* finish_user_close().
LEMMA UserCloseOK ==
  ASSUME NEW s, HandOffOK(s), cover \in CoverType, NEW a \in Apps
  PROVE  HandOffOK(FinishUserClose(s, a))
  <1> DEFINE process == [s.task[a] EXCEPT !.park = FALSE]
             final == [s EXCEPT !.task[a] = process]
             held == IF s.task[a].shown THEN HoldScene(final, "HOME") ELSE final
  <1>1. s \in SessionType /\ s.task[a] \in ProcessType
    BY DEF HandOffOK, SessionType
  <1>2. process \in ProcessType
    BY <1>1 DEF ProcessType
  <1>3. FinishUserClose(s, a) = IF a # s.app THEN RequestClose(s, a)
                                ELSE SendActive(IF s.task[a].leaving THEN RequestClose(held, a)
                                                ELSE LeaveApp(held, FALSE))
    <2>1. [s EXCEPT !.task[a].park = FALSE] = final
      BY <1>1 DEF SessionType
    <2> QED
      BY <2>1 DEF FinishUserClose
  <1> HIDE DEF process
  <1>4. final \in SessionType /\ SameTold(s, final) /\ final.failures = s.failures
    BY <1>1, <1>2, TaskAs
  <1> HIDE DEF final
  <1>5. held \in SessionType /\ HandOffOK(held)
    <2>1. HandOffOK(final)
      BY <1>4, SameKeeps
    <2> QED
      BY <1>4, <2>1, ScenesSame, SameKeeps
  <1> HIDE DEF held
  <1>6. HandOffOK(RequestClose(s, a))
    BY <1>1, CloseSame, SameKeeps DEF MaybeApp
  <1>7. HandOffOK(SendActive(RequestClose(held, a))) /\ HandOffOK(SendActive(LeaveApp(held, FALSE)))
    <2>1. HandOffOK(SendActive(RequestClose(held, a)))
      BY <1>5, CloseSame, SendSame DEF MaybeApp
    <2>2. HandOffOK(SendActive(LeaveApp(held, FALSE)))
      BY <1>5, LeaveSame, SendSame
    <2> QED
      BY <2>1, <2>2
  <1> QED
    BY <1>3, <1>6, <1>7

-----------------------------------------------------------------------------
(* advance(). *)

\* reap_process() of the launcher: what it was told is gone with it.
LEMMA ReapedLauncherOK ==
  ASSUME NEW s, HandOffOK(s)
  PROVE  HandOffOK(ReapedLauncher(s)) /\ ReapedLauncher(s).task = s.task
  <1>1. s \in SessionType /\ LauncherOK(s)
    BY DEF HandOffOK
  <1>2. CASE ~s.launcher.dead
    BY <1>2 DEF ReapedLauncher
  <1>3. CASE s.launcher.dead
    <2> DEFINE n == IF s.launcher.closing THEN s.failures ELSE s.failures + 1
               t == [s EXCEPT !.launcher = NoLauncher, !.client = NoClient, !.failures = n]
    <2>1. ReapedLauncher(s) = t
      BY <1>1, <1>3 DEF ReapedLauncher, SessionType
    <2>2. n \in 0 .. MaxFailures
      <3>1. s.failures \in Nat /\ s.failures < MaxFailures /\ MaxFailures \in Nat
        BY <1>1, <1>3, HandOffAssumption DEF LauncherOK, SessionType, HandOffAssumption
      <3> QED
        BY <3>1
    <2> HIDE DEF n
    <2>3. NoLauncher \in LauncherType /\ ~NoLauncher.up /\ ~NoLauncher.dead /\ ~NoLauncher.fd
      BY DEF NoLauncher, LauncherType
    <2>4. NoClient \in ClientType /\ NoClient.inbox = <<>>
      BY EmptySeq DEF NoClient, ClientType, MaybeApp
    <2>5. t \in SessionType /\ t.launcher = NoLauncher /\ t.client = NoClient /\ t.task = s.task
      BY <1>1, <2>2, <2>3, <2>4 DEF SessionType
    <2> HIDE DEF t
    <2>6. LauncherOK(t)
      BY <2>3, <2>4, <2>5, HandOffAssumption DEF LauncherOK, HandOffAssumption
    <2> QED
      BY <2>1, <2>3, <2>5, <2>6 DEF HandOffOK, Told
  <1> QED
    BY <1>2, <1>3

\* reap_process() of applications.
LEMMA ReapedAppsOK ==
  ASSUME NEW s, HandOffOK(s), cover \in CoverType, NEW apps \in SUBSET Apps
  PROVE  HandOffOK(ReapedApps(s, apps))
  <1> DEFINE dead == {a \in apps : s.task[a].dead}
             ended == IF s.app \in dead /\ s.pending = NoApp THEN FinishLaunch(s) ELSE s
             tasks == [a \in Apps |-> IF a \in dead THEN NoProcess(a) ELSE s.task[a]]
             front == IF s.app \in dead THEN NoApp ELSE s.app
             t == [ended EXCEPT !.task = tasks, !.app = front]
  <1>1. s \in SessionType
    BY DEF HandOffOK
  <1>2. ReapedApps(s, apps) = IF dead = {} THEN s ELSE SendActive(t)
    BY DEF ReapedApps
  <1>3. tasks \in [Apps -> ProcessType] /\ front \in MaybeApp
    BY <1>1, Processes DEF SessionType, MaybeApp
  <1> HIDE DEF tasks, front
  <1>4. ended \in SessionType /\ SameTold(s, ended) /\ ended.failures = s.failures
    BY <1>1, FinishLaunchSame DEF SameTold
  <1> HIDE DEF ended
  <1>5. t \in SessionType /\ SameTold(ended, t) /\ t.failures = ended.failures
    BY <1>3, <1>4 DEF SessionType, SameTold
  <1> HIDE DEF t
  <1>6. HandOffOK(ended)
    BY <1>4, SameKeeps
  <1>7. HandOffOK(SendActive(t))
    BY <1>5, <1>6, SendSame
  <1> QED
    BY <1>2, <1>7

\* All the processes that have ended.
LEMMA ReapedOK ==
  ASSUME NEW s, HandOffOK(s), cover \in CoverType
  PROVE  HandOffOK(Reaped(s))
  <1>1. HandOffOK(ReapedLauncher(s))
    BY ReapedLauncherOK
  <1>2. HandOffOK(ReapedApps(ReapedLauncher(s), Apps \ {s.app}))
    BY <1>1, ReapedAppsOK
  <1> QED
    BY <1>2, ReapedAppsOK DEF Reaped

\* The pending application comes in front.
LEMMA StartPendingOK ==
  ASSUME NEW s, HandOffOK(s), cover \in CoverType, NEW starts \in Starts
  PROVE  HandOffOK(StartPending(s, starts))
  <1> DEFINE a == s.pending
             cleared == [s EXCEPT !.pending = NoApp]
             failed == FinishLaunch(cleared)
             kept == [s EXCEPT !.task[a].shown = FALSE, !.late = FALSE]
             new == [s EXCEPT !.task[a] = Fresh(a), !.retained = FALSE]
             begun == IF s.task[a].up THEN kept ELSE new
             t == [begun EXCEPT !.app = a, !.pending = NoApp]
  <1>1. s \in SessionType
    BY DEF HandOffOK
  <1>2. \/ StartPending(s, starts) \in {s, failed, CloseLauncher(s), SendActive(failed)}
        \/ a # NoApp /\ StartPending(s, starts) = SendActive(t)
    BY DEF StartPending
  <1>3. HandOffOK(CloseLauncher(s))
    BY <1>1, CloseSame, SameKeeps DEF MaybeApp
  <1>5. HandOffOK(failed) /\ HandOffOK(SendActive(failed))
    <2>1. cleared \in SessionType /\ SameTold(s, cleared) /\ cleared.failures = s.failures
      BY <1>1 DEF SessionType, SameTold, MaybeApp
    <2> HIDE DEF cleared
    <2>2. failed \in SessionType /\ HandOffOK(failed)
      BY <2>1, FinishLaunchSame, SameKeeps
    <2> QED
      BY <2>2, SendOK
  <1>4. ASSUME a # NoApp PROVE HandOffOK(SendActive(t))
    <2>1. a \in Apps /\ s.task[a] \in ProcessType
      BY <1>1, <1>4 DEF SessionType, MaybeApp
    <2>2. kept \in SessionType /\ SameTold(s, kept) /\ kept.failures = s.failures
      <3>1. [s.task[a] EXCEPT !.shown = FALSE] \in ProcessType
        BY <2>1 DEF ProcessType
      <3>2. [s.task EXCEPT ![a].shown = FALSE] \in [Apps -> ProcessType]
        BY <1>1, <2>1, <3>1 DEF SessionType
      <3> QED
        BY <1>1, <3>2 DEF SessionType, SameTold
    <2>3. new \in SessionType /\ SameTold(s, new) /\ new.failures = s.failures
      <3>1. [s.task EXCEPT ![a] = Fresh(a)] \in [Apps -> ProcessType]
        BY <1>1, <2>1, Processes DEF SessionType
      <3> QED
        BY <1>1, <3>1 DEF SessionType, SameTold
    <2> HIDE DEF kept, new
    <2>4. begun \in SessionType /\ SameTold(s, begun) /\ begun.failures = s.failures
      BY <2>2, <2>3
    <2> HIDE DEF begun
    <2>5. t \in SessionType /\ SameTold(begun, t) /\ t.failures = begun.failures
      BY <2>1, <2>4 DEF SessionType, SameTold, MaybeApp
    <2> HIDE DEF t
    <2>6. HandOffOK(begun)
      BY <2>4, SameKeeps
    <2> QED
      BY <2>5, <2>6, SendSame
  <1> HIDE DEF t, failed
  <1> QED
    BY <1>2, <1>3, <1>4, <1>5

\* A new launcher has been told nothing.
LEMMA StartLauncherOK ==
  ASSUME NEW s, HandOffOK(s), NEW starts \in Starts
  PROVE  HandOffOK(StartLauncher(s, starts))
  <1> DEFINE new == [NoLauncher EXCEPT !.up = TRUE]
             t == [s EXCEPT !.launcher = new, !.named = FALSE, !.wait = FALSE, !.draws = FALSE,
                            !.sent = FALSE, !.gaveUp = FALSE, !.refused = FALSE]
             f == [s EXCEPT !.failures = @ + 1]
  <1>1. s \in SessionType /\ LauncherOK(s) /\ Told(s)
    BY DEF HandOffOK
  <1>2. \/ StartLauncher(s, starts) = s
        \/ ~s.launcher.up /\ s.failures < MaxFailures /\ StartLauncher(s, starts) \in {t, f}
    <2> DEFINE needed == /\ ~s.launcher.up
                         /\ \/ ~App(s).up \/ App(s).closing \/ ~AppRunsAlone(s) \/ App(s).leaving
                            \/ cover = "locked"
                         /\ s.pending = NoApp \/ App(s).leaving
                         /\ s.failures < MaxFailures
    <2>1. StartLauncher(s, starts) = IF needed THEN IF starts.launcher THEN t ELSE f ELSE s
      BY DEF StartLauncher
    <2> HIDE DEF t, f
    <2> QED
      BY <2>1
  <1>3. ASSUME ~s.launcher.up, s.failures < MaxFailures PROVE HandOffOK(t)
    <2>1. new \in LauncherType /\ new.up /\ ~new.dead /\ ~new.fd
      BY DEF NoLauncher, LauncherType
    <2> HIDE DEF new
    <2>2. /\ t \in SessionType /\ t.launcher = new /\ ~t.sent /\ t.client = s.client
          /\ t.failures = s.failures
      BY <1>1, <2>1 DEF SessionType
    <2> HIDE DEF t
    <2>3. LauncherOK(t)
      BY <1>1, <1>3, <2>1, <2>2 DEF LauncherOK
    <2> QED
      BY <2>2, <2>3 DEF HandOffOK, Told
  <1>4. ASSUME ~s.launcher.up, s.failures < MaxFailures PROVE HandOffOK(f)
    <2>1. s.failures + 1 \in 0 .. MaxFailures
      BY <1>1, <1>4, HandOffAssumption DEF SessionType, HandOffAssumption
    <2>2. /\ f \in SessionType /\ f.launcher = s.launcher /\ f.sent = s.sent
          /\ f.client = s.client
      BY <1>1, <2>1 DEF SessionType
    <2> HIDE DEF f
    <2>3. LauncherOK(f) /\ Told(f)
      BY <1>1, <1>4, <2>2 DEF LauncherOK, Told
    <2> QED
      BY <2>2, <2>3 DEF HandOffOK
  <1> QED
    BY <1>2, <1>3, <1>4

\* A swap that has waited too long takes the answer for granted.
LEMMA GiveUpOK ==
  ASSUME NEW s, HandOffOK(s)
  PROVE  /\ HandOffOK(GiveUp(s)) /\ GiveUp(s).task = s.task /\ GiveUp(s).app = s.app
         /\ GiveUp(s).failures = s.failures
  <1>1. s \in SessionType /\ LauncherOK(s) /\ Told(s)
    BY DEF HandOffOK
  <1> DEFINE t == [s EXCEPT !.wait = FALSE, !.draws = s.named, !.gaveUp = TRUE]
  <1>2. GiveUp(s) = t
    BY DEF GiveUp
  <1>3. /\ t \in SessionType /\ t.client = s.client /\ t.last = s.last /\ t.sent = s.sent
        /\ t.named = s.named /\ t.gaveUp /\ t.launcher = s.launcher /\ t.failures = s.failures
        /\ t.task = s.task /\ t.app = s.app
    BY <1>1 DEF SessionType
  <1> HIDE DEF t
  <1>4. LauncherOK(t)
    BY <1>1, <1>3 DEF LauncherOK
  <1>5. Told(t)
    BY <1>1, <1>3 DEF Told, NewestLast, AnswersTrue, OnSurface
  <1> QED
    BY <1>2, <1>3, <1>4, <1>5 DEF HandOffOK

\* hand_off() shows the application in front or takes it away.
LEMMA HandOffKeeps ==
  ASSUME NEW s, HandOffOK(s)
  PROVE  HandOffOK(HandOff(s))
  <1> DEFINE given == IF SwapWaits(s) THEN GiveUp(s) ELSE s
             shows == [given EXCEPT !.task[s.app].shown = TRUE]
  <1>1. s \in SessionType
    BY DEF HandOffOK
  <1>2. HandOff(s) = IF ~SwapDue(s) \/ (SwapWaits(s) /\ ~s.late) THEN s
                     ELSE IF ~App(s).leaving THEN shows
                     ELSE IF App(s).park THEN ParkApp(given) ELSE RequestClose(given, s.app)
    BY DEF HandOff
  <1>3. HandOffOK(given) /\ given.task = s.task /\ given.app = s.app
    BY GiveUpOK
  <1> HIDE DEF given
  <1>4. given \in SessionType
    BY <1>3 DEF HandOffOK
  <1>5. ASSUME SwapDue(s)
        PROVE  HandOffOK(shows) /\ HandOffOK(ParkApp(given)) /\ HandOffOK(RequestClose(given, s.app))
    <2>1. s.app \in Apps
      BY <1>1, <1>5, Front DEF SwapDue, IsRunning
    <2>2. given.task[s.app] \in ProcessType
      BY <1>4, <2>1 DEF SessionType
    <2>3. HandOffOK(shows)
      <3> DEFINE process == [given.task[s.app] EXCEPT !.shown = TRUE]
      <3>1. process \in ProcessType
        BY <2>2 DEF ProcessType
      <3>2. shows = [given EXCEPT !.task[s.app] = process]
        BY <1>4 DEF SessionType
      <3> HIDE DEF process
      <3>3. shows \in SessionType /\ SameTold(given, shows) /\ shows.failures = given.failures
        BY <1>4, <2>1, <3>1, <3>2, TaskAs
      <3> HIDE DEF shows
      <3> QED
        BY <1>3, <3>3, SameKeeps
    <2>4. HandOffOK(ParkApp(given))
      BY <1>3, <1>4, <2>1, ParkSame, SameKeeps
    <2>5. HandOffOK(RequestClose(given, s.app))
      BY <1>3, <1>4, <2>1, CloseSame, SameKeeps DEF MaybeApp
    <2> QED
      BY <2>3, <2>4, <2>5
  <1> HIDE DEF shows
  <1> QED
    BY <1>2, <1>5

\* switch_mode() configures the application in front.
LEMMA SwitchModeOK ==
  ASSUME NEW s, HandOffOK(s)
  PROVE  HandOffOK(SwitchMode(s))
  <1> DEFINE given == IF ModeWaits(s) THEN GiveUp(s) ELSE s
             t == [given EXCEPT !.task[s.app].configured = App(s).requested]
  <1>1. s \in SessionType
    BY DEF HandOffOK
  <1>2. SwitchMode(s) = IF \/ ~AppInForeground(s) \/ App(s).requested = App(s).configured
                           \/ ModeWaits(s) /\ ~App(s).late
                        THEN s ELSE t
    BY DEF SwitchMode
  <1>3. HandOffOK(given) /\ given.task = s.task /\ given.app = s.app
    BY GiveUpOK
  <1> HIDE DEF given
  <1>4. given \in SessionType
    BY <1>3 DEF HandOffOK
  <1>5. ASSUME AppInForeground(s) PROVE HandOffOK(t)
    <2>1. s.app \in Apps /\ App(s) \in ProcessType
      BY <1>1, <1>5, Front DEF AppInForeground, IsRunning
    <2>2. given.task[s.app] \in ProcessType /\ App(s).requested \in Modes
      BY <1>4, <2>1 DEF SessionType, ProcessType
    <2> DEFINE process == [given.task[s.app] EXCEPT !.configured = App(s).requested]
    <2>3. process \in ProcessType
      BY <2>2 DEF ProcessType
    <2>4. t = [given EXCEPT !.task[s.app] = process]
      BY <1>4 DEF SessionType
    <2> HIDE DEF process
    <2>5. t \in SessionType /\ SameTold(given, t) /\ t.failures = given.failures
      BY <1>4, <2>1, <2>3, <2>4, TaskAs
    <2> HIDE DEF t
    <2> QED
      BY <1>3, <2>5, SameKeeps
  <1> HIDE DEF t
  <1> QED
    BY <1>2, <1>5

\* advance() keeps the invariant.
LEMMA AdvancedOK ==
  ASSUME NEW s, HandOffOK(s), cover \in CoverType, NEW starts \in Starts
  PROVE  HandOffOK(Advanced(s, starts))
  <1> DEFINE s1 == Reaped(s)
             s2 == LaunchTimeout(s1)
             s3 == StartPending(s2, starts)
             s4 == StartLauncher(s3, starts)
             s5 == CloseLauncherAlone(s4)
             s6 == LauncherWorks(s5)
             s7 == HandOff(s6)
             s8 == SwitchMode(s7)
             s9 == SettleHeldScene(s8)
  <1>0. Advanced(s, starts) = IF s9.last.cover # cover THEN SendActive(s9) ELSE s9
    BY DEF Advanced, ManageProcesses
  <1>1. HandOffOK(s1)
    BY ReapedOK
  <1> HIDE DEF s1
  <1>2. HandOffOK(s2)
    BY <1>1, CancelLaunchOK DEF LaunchTimeout
  <1> HIDE DEF s2
  <1>3. HandOffOK(s3)
    BY <1>2, StartPendingOK
  <1> HIDE DEF s3
  <1>4. HandOffOK(s4) /\ s4 \in SessionType
    BY <1>3, StartLauncherOK DEF HandOffOK
  <1> HIDE DEF s4
  <1>5. HandOffOK(s5) /\ s5 \in SessionType
    BY <1>4, CloseSame, SameKeeps DEF CloseLauncherAlone, MaybeApp
  <1> HIDE DEF s5
  <1>6. HandOffOK(s6)
    <2> DEFINE t == [s5 EXCEPT !.failures = 0]
    <2>1. t \in SessionType /\ SameTold(s5, t) /\ t.failures = 0
      BY <1>5, HandOffAssumption DEF SessionType, SameTold, HandOffAssumption
    <2>2. s6 \in {s5, t}
      BY DEF LauncherWorks
    <2> HIDE DEF t
    <2>3. HandOffOK(t)
      BY <1>5, <2>1, SameKeeps
    <2> QED
      BY <1>5, <2>2, <2>3
  <1> HIDE DEF s6
  <1>7. HandOffOK(s7)
    BY <1>6, HandOffKeeps
  <1> HIDE DEF s7
  <1>8. HandOffOK(s8) /\ s8 \in SessionType
    BY <1>7, SwitchModeOK DEF HandOffOK
  <1> HIDE DEF s8
  <1>9. HandOffOK(s9)
    BY <1>8, SettleSame, SameKeeps
  <1> HIDE DEF s9
  <1> QED
    BY <1>0, <1>9, SendOK

-----------------------------------------------------------------------------
(* The actions. *)

\* Messages of applications and of the user, and their timers.
LEMMA AppActions ==
  ASSUME HandOffInv, NEW a \in Apps,
         \/ Launch(a) \/ Exit(a) \/ Ready(a) \/ ActivationAck(a) \/ Die(a) \/ ModeLate(a)
         \/ \E mode \in Modes : Mode(a, mode)
         \/ \E enabled \in BOOLEAN : Busy(a, enabled)
  PROVE  HandOffOK(session')
  <1>0. /\ HandOffOK(session) /\ cover \in CoverType /\ session \in SessionType
        /\ session.task[a] \in ProcessType
    BY DEF HandOffInv, HandOffOK, SessionType
  <1>1. CASE Launch(a)
    BY <1>0, <1>1, BeginLaunchOK DEF Launch
  <1>2. CASE Exit(a)
    BY <1>0, <1>2, UserCloseOK DEF Exit
  <1>3. CASE Ready(a)
    <2> DEFINE process == [session.task[a] EXCEPT !.ready = TRUE]
               marked == [session EXCEPT !.task[a].ready = TRUE,
                                         !.late = @ /\ ~session.task[a].drawn]
    <2>1. process \in ProcessType /\ (session.late /\ ~session.task[a].drawn) \in BOOLEAN
      BY <1>0 DEF ProcessType, SessionType
    <2>2. [session.task EXCEPT ![a].ready = TRUE] \in [Apps -> ProcessType]
      BY <1>0, <2>1 DEF SessionType
    <2>3. marked \in SessionType /\ SameTold(session, marked) /\ marked.failures = session.failures
      BY <1>0, <2>1, <2>2 DEF SessionType, SameTold
    <2>4. session' = SendActive(IF a = session.app THEN FinishActivation(marked) ELSE marked)
      BY <1>3 DEF Ready
    <2> HIDE DEF marked
    <2>5. HandOffOK(marked)
      BY <1>0, <2>3, SameKeeps
    <2>6. HandOffOK(FinishActivation(marked))
      BY <2>3, <2>5, SettleSame, SameKeeps
    <2> QED
      BY <1>0, <2>4, <2>5, <2>6, SendOK
  <1>4. CASE ActivationAck(a)
    <2> DEFINE t == [session EXCEPT !.acked = TRUE]
    <2>1. t \in SessionType /\ SameTold(session, t) /\ t.failures = session.failures
      BY <1>0 DEF SessionType, SameTold
    <2>2. session' = SendActive(FinishActivation(t))
      BY <1>4 DEF ActivationAck
    <2> HIDE DEF t
    <2>3. HandOffOK(t)
      BY <1>0, <2>1, SameKeeps
    <2> QED
      BY <1>0, <2>1, <2>2, <2>3, SettleSame, SendSame
  <1>5. CASE Die(a)
    <2> DEFINE process == session.task[a]
               t == Ended(process)
    <2>1. session' = [t EXCEPT !.task[a].dead = TRUE]
      BY <1>5 DEF Die
    <2>2. /\ t \in SessionType /\ SameTold(session, t) /\ t.failures = session.failures
          /\ t.task = session.task
      <3>1. session.crashes + 1 \in Nat
        BY <1>0 DEF SessionType
      <3> QED
        BY <1>0, <3>1 DEF Ended, SessionType, SameTold
    <2> HIDE DEF t
    <2>3. [process EXCEPT !.dead = TRUE] \in ProcessType
      BY <1>0 DEF ProcessType
    <2>4. [t.task EXCEPT ![a].dead = TRUE] \in [Apps -> ProcessType]
      BY <1>0, <2>2, <2>3 DEF SessionType
    <2>5. session' \in SessionType /\ SameTold(t, session') /\ session'.failures = t.failures
      BY <2>1, <2>2, <2>4 DEF SessionType, SameTold
    <2>6. HandOffOK(t)
      BY <1>0, <2>2, SameKeeps
    <2> QED
      BY <2>5, <2>6, SameKeeps
  <1>6. CASE ModeLate(a)
    <2>1. session' = [session EXCEPT !.task[a].late = TRUE]
      BY <1>6 DEF ModeLate
    <2>2. [session.task[a] EXCEPT !.late = TRUE] \in ProcessType
      BY <1>0 DEF ProcessType
    <2>3. [session.task EXCEPT ![a].late = TRUE] \in [Apps -> ProcessType]
      BY <1>0, <2>2 DEF SessionType
    <2>4. session' \in SessionType /\ SameTold(session, session')
          /\ session'.failures = session.failures
      BY <1>0, <2>1, <2>3 DEF SessionType, SameTold
    <2> QED
      BY <1>0, <2>4, SameKeeps
  <1>7. ASSUME NEW mode \in Modes, Mode(a, mode) PROVE HandOffOK(session')
    <2> DEFINE process == [session.task[a] EXCEPT !.requested = mode, !.late = FALSE,
                                                  !.placed = TRUE]
    <2>1. session' = [session EXCEPT !.task[a] = process, !.modes = @ + 1]
      BY <1>7 DEF Mode
    <2>2. process \in ProcessType /\ session.modes + 1 \in Nat
      <3>1. process \in ProcessType
        BY <1>0, <1>7 DEF ProcessType
      <3>2. session.modes + 1 \in Nat
        BY <1>0 DEF SessionType
      <3> QED
        BY <3>1, <3>2
    <2>3. session' = [session EXCEPT !.task = [session.task EXCEPT ![a] = process],
                                     !.modes = session.modes + 1]
      BY <1>0, <2>1 DEF SessionType
    <2>4. [session.task EXCEPT ![a] = process] \in [Apps -> ProcessType]
      BY <1>0, <2>2 DEF SessionType
    <2> HIDE DEF process
    <2>5. session' \in SessionType /\ SameTold(session, session')
          /\ session'.failures = session.failures
      BY <1>0, <2>2, <2>3, <2>4 DEF SessionType, SameTold
    <2> QED
      BY <1>0, <2>5, SameKeeps
  <1>8. ASSUME NEW enabled \in BOOLEAN, Busy(a, enabled) PROVE HandOffOK(session')
    <2> DEFINE on == [session EXCEPT !.busy = "yes", !.busies = @ + 1,
                                     !.retained = @ /\ LaunchInProgress(session)]
               off == [session EXCEPT !.busy = "finishing"]
    <2>1. session' = SendActive(IF enabled THEN on ELSE off)
      BY <1>8 DEF Busy
    <2>2. /\ on \in SessionType /\ SameTold(session, on) /\ on.failures = session.failures
      <3> DEFINE n == session.busies + 1
                 kept == session.retained /\ LaunchInProgress(session)
      <3>1. n \in Nat /\ kept \in BOOLEAN
        BY <1>0 DEF SessionType
      <3>2. on = [session EXCEPT !.busy = "yes", !.busies = n, !.retained = kept]
        BY <1>0 DEF SessionType
      <3> HIDE DEF n, kept
      <3> QED
        BY <1>0, <3>1, <3>2 DEF SessionType, SameTold
    <2>3. off \in SessionType /\ SameTold(session, off) /\ off.failures = session.failures
      BY <1>0 DEF SessionType, SameTold
    <2> HIDE DEF on, off
    <2> QED
      BY <1>0, <2>1, <2>2, <2>3, SendSame
  <1> QED
    BY <1>1, <1>2, <1>3, <1>4, <1>5, <1>6, <1>7, <1>8

\* A buffer of an application, which advance() follows.
LEMMA CommitAction ==
  ASSUME HandOffInv, NEW a \in Apps, NEW mode \in Modes, Commit(a, mode)
  PROVE  HandOffOK(session')
  <1> DEFINE process == session.task[a]
             first == a = session.app /\ ~process.drawn
             places == a = session.app /\ process.placed /\ process.mode # mode
             idles == a = session.app /\ process.ready /\ session.busy = "finishing"
             sized == IF places THEN [session EXCEPT !.task[a].mode = mode] ELSE session
             calm == [sized EXCEPT !.busy = "no"]
             idle == IF ~idles THEN sized
                     ELSE IF session.starting THEN calm ELSE FinishLaunch(sized)
             marked == [idle EXCEPT !.task[a].drawn = TRUE, !.late = FALSE]
             drawn == IF first THEN SendActive(FinishActivation(marked))
                      ELSE IF idles THEN SendActive(idle) ELSE idle
  <1>0. /\ HandOffOK(session) /\ cover \in CoverType /\ session \in SessionType
        /\ process \in ProcessType
    BY DEF HandOffInv, HandOffOK, SessionType
  <1>1. Advances(drawn)
    BY DEF Commit
  <1>2. sized \in SessionType /\ HandOffOK(sized)
    <2> DEFINE t == [session EXCEPT !.task[a].mode = mode]
    <2>1. [process EXCEPT !.mode = mode] \in ProcessType
      BY <1>0 DEF ProcessType
    <2>2. [session.task EXCEPT ![a].mode = mode] \in [Apps -> ProcessType]
      BY <1>0, <2>1 DEF SessionType
    <2>3. t \in SessionType /\ SameTold(session, t) /\ t.failures = session.failures
      BY <1>0, <2>2 DEF SessionType, SameTold
    <2> HIDE DEF t
    <2>4. HandOffOK(t)
      BY <1>0, <2>3, SameKeeps
    <2>5. sized \in {session, t}
      BY DEF t
    <2> QED
      BY <1>0, <2>3, <2>4, <2>5
  <1> HIDE DEF sized
  <1>6. idle \in SessionType /\ HandOffOK(idle)
    <2>1. calm \in SessionType /\ SameTold(sized, calm) /\ calm.failures = sized.failures
      BY <1>2 DEF SessionType, SameTold
    <2>2. idle \in {sized, calm, FinishLaunch(sized)}
      OBVIOUS
    <2> HIDE DEF calm, idle
    <2> QED
      BY <1>2, <2>1, <2>2, FinishLaunchSame, SameKeeps
  <1> HIDE DEF idle
  <1>3. marked \in SessionType /\ SameTold(idle, marked) /\ marked.failures = idle.failures
    <2>1. idle.task[a] \in ProcessType
      BY <1>6 DEF SessionType
    <2>2. [idle.task[a] EXCEPT !.drawn = TRUE] \in ProcessType
      BY <2>1 DEF ProcessType
    <2>3. [idle.task EXCEPT ![a].drawn = TRUE] \in [Apps -> ProcessType]
      BY <1>6, <2>2 DEF SessionType
    <2> QED
      BY <1>6, <2>3 DEF SessionType, SameTold
  <1> HIDE DEF marked
  <1>4. HandOffOK(SendActive(FinishActivation(marked)))
    <2>1. HandOffOK(marked)
      BY <1>6, <1>3, SameKeeps
    <2> QED
      BY <1>0, <1>3, <2>1, SettleSame, SendSame
  <1>5. HandOffOK(drawn)
    BY <1>0, <1>4, <1>6, SendOK
  <1> HIDE DEF drawn
  <1> QED
    BY <1>0, <1>1, <1>5, AdvancedOK DEF Advances

\* The red key, news, covers and time.
LEMMA ManagerActions ==
  ASSUME HandOffInv,
         \/ Home \/ Tell \/ Advance \/ SwapLate \/ LaunchLate
         \/ \E c \in CoverType : ChangeCover(c)
  PROVE  HandOffOK(session')
  <1>0. HandOffOK(session) /\ cover \in CoverType /\ session \in SessionType
    BY DEF HandOffInv, HandOffOK
  <1>1. CASE Home
    <2> DEFINE t == IF LaunchInProgress(session) THEN CancelLaunch(session) ELSE ReturnHome(session)
    <2>1. Advances(t)
      BY <1>1 DEF Home
    <2>2. HandOffOK(t)
      BY <1>0, CancelLaunchOK, ReturnHomeOK
    <2> HIDE DEF t
    <2> QED
      BY <1>0, <2>1, <2>2, AdvancedOK DEF Advances
  <1>2. CASE Tell
    <2> DEFINE t == [session EXCEPT !.rest = @ + 1]
    <2>1. t \in SessionType /\ SameTold(session, t) /\ t.failures = session.failures
      BY <1>0 DEF SessionType, SameTold
    <2>2. session' = SendActive(t)
      BY <1>2 DEF Tell
    <2> HIDE DEF t
    <2> QED
      BY <1>0, <2>1, <2>2, SendSame
  <1>3. CASE Advance
    BY <1>0, <1>3, AdvancedOK DEF Advance, Advances
  <1>4. CASE SwapLate
    <2>1. session' = [session EXCEPT !.late = TRUE]
      BY <1>4 DEF SwapLate
    <2>2. session' \in SessionType /\ SameTold(session, session')
          /\ session'.failures = session.failures
      BY <1>0, <2>1 DEF SessionType, SameTold
    <2> QED
      BY <1>0, <2>2, SameKeeps
  <1>5. CASE LaunchLate
    <2>1. session' = [session EXCEPT !.expired = TRUE]
      BY <1>5 DEF LaunchLate
    <2>2. session' \in SessionType /\ SameTold(session, session')
          /\ session'.failures = session.failures
      BY <1>0, <2>1 DEF SessionType, SameTold
    <2> QED
      BY <1>0, <2>2, SameKeeps
  <1>6. ASSUME NEW c \in CoverType, ChangeCover(c) PROVE HandOffOK(session')
    <2>1. session' = [session EXCEPT !.covers = @ + 1]
      BY <1>6 DEF ChangeCover
    <2>2. session' \in SessionType /\ SameTold(session, session')
          /\ session'.failures = session.failures
      BY <1>0, <2>1 DEF SessionType, SameTold
    <2> QED
      BY <1>0, <2>2, SameKeeps
  <1> QED
    BY <1>1, <1>2, <1>3, <1>4, <1>5, <1>6

\* The launcher's record changes, but not what the launcher was told.
LEMMA LauncherAs ==
  ASSUME NEW s, HandOffOK(s), NEW l \in LauncherType, s.launcher.up, l.up,
         NEW t, t = [s EXCEPT !.launcher = l]
  PROVE  HandOffOK(t)
  <1>1. s \in SessionType /\ LauncherOK(s) /\ Told(s)
    BY DEF HandOffOK
  <1>2. /\ t \in SessionType /\ t.launcher = l /\ t.client = s.client /\ t.last = s.last
        /\ t.sent = s.sent /\ t.named = s.named /\ t.wait = s.wait /\ t.draws = s.draws
        /\ t.gaveUp = s.gaveUp /\ t.failures = s.failures
    BY <1>1 DEF SessionType
  <1>3. LauncherOK(t)
    BY <1>1, <1>2 DEF LauncherOK
  <1>4. Told(t)
    BY <1>1, <1>2 DEF Told, NewestLast, AnswersTrue, OnSurface
  <1> QED
    BY <1>2, <1>3, <1>4 DEF HandOffOK

\* The launcher connects, has its first frame or ends.
LEMMA LauncherActions ==
  ASSUME HandOffInv, LauncherHello \/ LauncherFramed \/ LauncherDies
  PROVE  HandOffOK(session')
  <1>0. /\ HandOffOK(session) /\ cover \in CoverType /\ session \in SessionType
        /\ session.launcher \in LauncherType
        /\ (session.launcher.fd => session.launcher.up)
    BY DEF HandOffInv, HandOffOK, SessionType, LauncherOK
  <1>1. CASE LauncherHello
    <2> DEFINE l == [session.launcher EXCEPT !.fd = TRUE]
               t == [session EXCEPT !.launcher = l]
    <2>1. session' = SendActive([session EXCEPT !.launcher.fd = TRUE]) /\ session.launcher.up
      BY <1>1 DEF LauncherHello
    <2>2. l \in LauncherType /\ l.up
      BY <1>0, <2>1 DEF LauncherType
    <2>3. t = [session EXCEPT !.launcher.fd = TRUE]
      BY <1>0 DEF SessionType
    <2> HIDE DEF l
    <2>4. HandOffOK(t)
      BY <1>0, <2>1, <2>2, LauncherAs
    <2> HIDE DEF t
    <2> QED
      BY <1>0, <2>1, <2>3, <2>4, SendOK
  <1>2. CASE LauncherFramed
    <2> DEFINE l == [session.launcher EXCEPT !.ready = TRUE]
               t == [session EXCEPT !.launcher = l]
    <2>1. session' = SendActive([session EXCEPT !.launcher.ready = TRUE]) /\ session.launcher.up
      BY <1>0, <1>2 DEF LauncherFramed
    <2>2. l \in LauncherType /\ l.up
      BY <1>0, <2>1 DEF LauncherType
    <2>3. t = [session EXCEPT !.launcher.ready = TRUE]
      BY <1>0 DEF SessionType
    <2> HIDE DEF l
    <2>4. HandOffOK(t)
      BY <1>0, <2>1, <2>2, LauncherAs
    <2> HIDE DEF t
    <2> QED
      BY <1>0, <2>1, <2>3, <2>4, SendOK
  <1>3. CASE LauncherDies
    <2> DEFINE s == Ended(session.launcher)
               l == [session.launcher EXCEPT !.dead = TRUE, !.fd = FALSE]
    <2>1. /\ session' = [s EXCEPT !.launcher.dead = TRUE, !.launcher.fd = FALSE]
          /\ session.launcher.up
      BY <1>3 DEF LauncherDies, Ends
    <2>2. /\ s \in SessionType /\ SameTold(session, s) /\ s.failures = session.failures
          /\ s.launcher = session.launcher
      <3>1. session.crashes + 1 \in Nat
        BY <1>0 DEF SessionType
      <3> QED
        BY <1>0, <3>1 DEF Ended, SessionType, SameTold
    <2> HIDE DEF s
    <2>3. l \in LauncherType /\ l.up
      BY <1>0, <2>1 DEF LauncherType
    <2>4. session' = [s EXCEPT !.launcher = l]
      BY <2>1, <2>2 DEF SessionType
    <2> HIDE DEF l
    <2>5. HandOffOK(s)
      BY <1>0, <2>2, SameKeeps
    <2> QED
      BY <2>1, <2>2, <2>3, <2>4, <2>5, LauncherAs
  <1> QED
    BY <1>1, <1>2, <1>3

\* A queue without its first element.
LEMMA WithoutFirst ==
  ASSUME NEW q \in Seq(FrameType), q # <<>>
  PROVE  /\ Head(q) \in FrameType /\ Head(q) = q[1] /\ 1 \in DOMAIN q /\ Len(q) \in Nat \ {0}
         /\ Tail(q) \in Seq(FrameType) /\ Len(Tail(q)) = Len(q) - 1
         /\ \A i \in DOMAIN Tail(q) : i \in Nat /\ i + 1 \in DOMAIN q /\ Tail(q)[i] = q[i + 1]
         /\ Len(q) = 1 => Tail(q) = <<>>
  <1>1. /\ Head(q) \in FrameType /\ Tail(q) \in Seq(FrameType) /\ Len(Tail(q)) = Len(q) - 1
        /\ \A i \in 1 .. Len(Tail(q)) : Tail(q)[i] = q[i + 1]
    BY HeadTailProperties
  <1>2. Len(q) \in Nat \ {0}
    BY EmptySeq
  <1>3. DOMAIN q = 1 .. Len(q) /\ DOMAIN Tail(q) = 1 .. Len(q) - 1
    BY <1>1, LenProperties
  <1>4. ASSUME Len(q) = 1 PROVE Tail(q) = <<>>
    <2>1. Len(Tail(q)) = 0
      BY <1>1, <1>4
    <2> QED
      BY <1>1, <2>1, EmptySeq
  <1>5. Head(q) = q[1]
    BY <1>2
  <1> QED
    BY <1>1, <1>2, <1>3, <1>4, <1>5

\* A queue that never holds two frames and is not empty holds one.
LEMMA OneFrame ==
  ASSUME NEW q \in Seq(FrameType), q # <<>>, Len(q) <= 1
  PROVE  Len(q) = 1 /\ DOMAIN q = {1} /\ Tail(q) = <<>>
  <1>1. Len(q) \in Nat \ {0} /\ DOMAIN q = 1 .. Len(q)
    BY WithoutFirst, LenProperties
  <1>2. Len(q) = 1
    BY <1>1
  <1>3. DOMAIN q = {1}
    BY <1>1, <1>2
  <1> QED
    BY <1>2, <1>3, WithoutFirst

\* The launcher draws and commits, and its answers are read.
LEMMA ClientActions ==
  ASSUME HandOffInv, Client \/ ActiveAck
  PROVE  HandOffOK(session')
  <1> DEFINE c == session.client
             frames == {c.inbox, c.canvas, c.sync, c.acks}
  <1>0. /\ session \in SessionType /\ LauncherOK(session) /\ Told(session) /\ c \in ClientType
        /\ frames \subseteq Seq(FrameType) /\ c.view \in MaybeApp
    BY DEF HandOffInv, HandOffOK, SessionType, ClientType
  <1>1. \/ c.inbox # <<>> \/ c.canvas # <<>> \/ c.sync # <<>> \/ c.acks # <<>>
    BY DEF Client, Draw, CommitFrame, FrameAckDone, ActiveAck
  <1>2. session.launcher.up /\ session.sent /\ NewestLast(session) /\ AnswersTrue(session)
    BY <1>0, <1>1 DEF LauncherOK, NoClient, Told
  <1>21. 0 <= 1 /\ 1 <= 1
    OBVIOUS
  <1>22. Len(c.canvas) <= 1 /\ Len(c.acks) <= 1
    BY <1>2 DEF AnswersTrue
  <1>23. \A i \in DOMAIN c.acks : c.acks[i].current => OnSurface(session)
    BY <1>2 DEF AnswersTrue
  <1>3. ASSUME NEW d \in ClientType, Len(d.inbox) <= InboxMax,
               session' = [session EXCEPT !.client = d]
        PROVE  /\ session' \in SessionType /\ LauncherOK(session') /\ session'.client = d
               /\ UNCHANGED <<session.last, session.named, session.wait, session.draws,
                              session.gaveUp>>
    <2>1. /\ session' \in SessionType /\ session'.client = d
          /\ UNCHANGED <<session.last, session.named, session.wait, session.draws,
                         session.gaveUp, session.launcher, session.sent, session.failures>>
      BY <1>0, <1>3 DEF SessionType
    <2> QED
      BY <1>0, <1>2, <1>3, <2>1 DEF LauncherOK
  <1>4. CASE Draw
    <2> DEFINE frame == Head(c.inbox)
               d == [c EXCEPT !.inbox = Tail(c.inbox), !.canvas = <<frame>>, !.sync = <<>>]
    <2>1. c.inbox # <<>>
      BY <1>4 DEF Draw
    <2>2. session' = [session EXCEPT !.client = d]
      BY <1>0, <1>4 DEF Draw, SessionType, ClientType
    <2>3. /\ frame \in FrameType /\ frame = c.inbox[1] /\ 1 \in DOMAIN c.inbox
          /\ Len(c.inbox) \in Nat \ {0}
          /\ Tail(c.inbox) \in Seq(FrameType) /\ Len(Tail(c.inbox)) = Len(c.inbox) - 1
          /\ \A i \in DOMAIN Tail(c.inbox) : i \in Nat /\ i + 1 \in DOMAIN c.inbox
                                             /\ Tail(c.inbox)[i] = c.inbox[i + 1]
          /\ Len(c.inbox) = 1 => Tail(c.inbox) = <<>>
      BY <1>0, <2>1, WithoutFirst
    <2> HIDE DEF frame
    <2>4. <<frame>> \in Seq(FrameType) /\ <<>> \in Seq(FrameType) /\ Len(<<frame>>) = 1
          /\ <<frame>>[1] = frame /\ DOMAIN <<frame>> = {1} /\ DOMAIN <<>> = {}
          /\ Len(<<>>) = 0
      BY <2>3
    <2>5. /\ d \in ClientType /\ d.inbox = Tail(c.inbox) /\ d.canvas = <<frame>> /\ d.sync = <<>>
          /\ d.acks = c.acks /\ d.view = c.view
      BY <1>0, <2>3, <2>4 DEF ClientType
    <2> HIDE DEF d
    <2>6. Len(d.inbox) <= InboxMax
      BY <1>0, <2>3, <2>5, HandOffAssumption DEF LauncherOK, HandOffAssumption
    <2>7. /\ session' \in SessionType /\ LauncherOK(session') /\ session'.client = d
          /\ UNCHANGED <<session.last, session.named, session.wait, session.draws, session.gaveUp>>
      BY <1>3, <2>2, <2>5, <2>6
    <2>8. NewestLast(session')
      <3>1. \A i \in DOMAIN d.inbox : d.inbox[i].current =>
               i = Len(d.inbox) /\ d.inbox[i].app = session.last.app
        BY <1>2, <2>3, <2>5 DEF NewestLast
      <3>2. frame.current => d.inbox = <<>> /\ frame.app = session.last.app
        BY <1>2, <2>3, <2>5 DEF NewestLast
      <3>3. \A i \in DOMAIN d.canvas : d.canvas[i] = frame
        BY <2>4, <2>5
      <3> QED
        BY <1>2, <2>7, <3>1, <3>2, <3>3 DEF NewestLast
    <2>9. AnswersTrue(session')
      <3>1. ~OnSurface(session)
        BY <2>1 DEF OnSurface
      <3>2. /\ Len(d.canvas) <= 1 /\ Len(d.sync) <= 1 /\ Len(d.acks) <= 1
            /\ \A i \in DOMAIN d.sync : ~d.sync[i].current
        BY <1>2, <2>4, <2>5 DEF AnswersTrue
      <3>3. \A i \in DOMAIN d.acks : ~d.acks[i].current
        BY <1>2, <2>5, <3>1 DEF AnswersTrue
      <3> QED
        BY <1>2, <2>7, <3>1, <3>2, <3>3 DEF AnswersTrue
    <2> QED
      BY <2>7, <2>8, <2>9 DEF HandOffOK, Told
  <1>5. CASE CommitFrame
    <2> DEFINE d == [c EXCEPT !.view = c.canvas[1].app, !.sync = c.canvas, !.canvas = <<>>]
    <2>1. c.canvas # <<>>
      BY <1>5 DEF CommitFrame
    <2>2. session' = [session EXCEPT !.client = d]
      BY <1>0, <1>5 DEF CommitFrame, SessionType, ClientType
    <2>3. c.canvas[1] \in FrameType /\ 1 \in DOMAIN c.canvas
      BY <1>0, <2>1, WithoutFirst
    <2>4. Len(c.canvas) = 1 /\ DOMAIN c.canvas = {1}
      BY <1>0, <1>22, <2>1, OneFrame
    <2>5. c.canvas[1].app \in MaybeApp /\ <<>> \in Seq(FrameType) /\ Len(<<>>) = 0
          /\ DOMAIN <<>> = {}
      BY <2>3 DEF FrameType, MaybeApp
    <2>6. /\ d \in ClientType /\ d.inbox = c.inbox /\ d.canvas = <<>> /\ d.sync = c.canvas
          /\ d.acks = c.acks /\ d.view = c.canvas[1].app
      BY <1>0, <2>5 DEF ClientType
    <2> HIDE DEF d
    <2>7. /\ session' \in SessionType /\ LauncherOK(session') /\ session'.client = d
          /\ UNCHANGED <<session.last, session.named, session.wait, session.draws, session.gaveUp>>
      BY <1>0, <1>3, <2>2, <2>6 DEF LauncherOK
    <2>8. NewestLast(session')
      BY <1>2, <2>5, <2>6, <2>7 DEF NewestLast
    <2>9. AnswersTrue(session')
      <3>1. ~OnSurface(session)
        BY <2>1 DEF OnSurface
      <3>2. /\ Len(d.canvas) <= 1 /\ Len(d.sync) <= 1 /\ Len(d.acks) <= 1
            /\ \A i \in DOMAIN d.acks : ~d.acks[i].current
        <4>1. Len(d.canvas) <= 1 /\ Len(d.sync) <= 1
          BY <1>21, <2>4, <2>5, <2>6, Zenon
        <4>2. Len(d.acks) <= 1
          BY <1>2, <2>6 DEF AnswersTrue
        <4> QED
          BY <1>23, <2>6, <3>1, <4>1, <4>2
      <3>3. c.canvas[1].current => c.inbox = <<>> /\ c.canvas[1].app = session.last.app
        BY <1>2, <2>3 DEF NewestLast
      <3>4. \A i \in DOMAIN d.sync : d.sync[i].current => OnSurface(session')
        BY <2>4, <2>6, <2>7, <3>3 DEF OnSurface
      <3> QED
        BY <1>2, <2>7, <3>1, <3>2, <3>4 DEF AnswersTrue
    <2> QED
      BY <2>7, <2>8, <2>9 DEF HandOffOK, Told
  <1>6. CASE FrameAckDone
    <2> DEFINE d == [c EXCEPT !.acks = c.sync, !.sync = <<>>]
    <2>1. session' = [session EXCEPT !.client = d]
      BY <1>0, <1>6 DEF FrameAckDone, SessionType, ClientType
    <2>2. <<>> \in Seq(FrameType) /\ Len(<<>>) = 0 /\ DOMAIN <<>> = {}
      OBVIOUS
    <2>3. /\ d \in ClientType /\ d.inbox = c.inbox /\ d.canvas = c.canvas /\ d.sync = <<>>
          /\ d.acks = c.sync /\ d.view = c.view
      BY <1>0, <2>2 DEF ClientType
    <2> HIDE DEF d
    <2>4. /\ session' \in SessionType /\ LauncherOK(session') /\ session'.client = d
          /\ UNCHANGED <<session.last, session.named, session.wait, session.draws, session.gaveUp>>
      BY <1>0, <1>3, <2>1, <2>3 DEF LauncherOK
    <2>5. NewestLast(session')
      BY <1>2, <2>3, <2>4 DEF NewestLast
    <2>6. OnSurface(session) => OnSurface(session')
      BY <2>3, <2>4 DEF OnSurface
    <2>7. AnswersTrue(session')
      BY <1>2, <2>2, <2>3, <2>4, <2>6 DEF AnswersTrue
    <2> QED
      BY <2>4, <2>5, <2>7 DEF HandOffOK, Told
  <1>7. CASE ActiveAck
    <2> DEFINE ack == Head(c.acks)
               d == [c EXCEPT !.acks = Tail(c.acks)]
               r == [session EXCEPT !.client = d]
               t == [r EXCEPT !.wait = FALSE, !.draws = r.named]
    <2>1. c.acks # <<>>
      BY <1>7 DEF ActiveAck
    <2>2. r = [session EXCEPT !.client.acks = Tail(@)]
      BY <1>0 DEF SessionType, ClientType
    <2>3. session' = IF ack.current /\ r.wait THEN t ELSE r
      BY <1>7, <2>2 DEF ActiveAck, Acked
    <2>4. /\ ack = c.acks[1] /\ 1 \in DOMAIN c.acks /\ Tail(c.acks) \in Seq(FrameType)
          /\ Tail(c.acks) = <<>>
      BY <1>0, <1>22, <2>1, WithoutFirst, OneFrame
    <2> HIDE DEF ack
    <2>5. /\ d \in ClientType /\ d.inbox = c.inbox /\ d.canvas = c.canvas /\ d.sync = c.sync
          /\ d.acks = <<>> /\ d.view = c.view
      BY <1>0, <2>4 DEF ClientType
    <2> HIDE DEF d
    <2>6. /\ r \in SessionType /\ r.client = d /\ r.last = session.last /\ r.sent = session.sent
          /\ r.named = session.named /\ r.wait = session.wait /\ r.draws = session.draws
          /\ r.gaveUp = session.gaveUp /\ r.launcher = session.launcher
          /\ r.failures = session.failures
      BY <1>0, <2>5 DEF SessionType
    <2> HIDE DEF r
    <2>7. /\ t \in SessionType /\ t.client = d /\ t.last = r.last /\ t.sent = r.sent
          /\ t.named = r.named /\ ~t.wait /\ t.draws = r.named
          /\ t.gaveUp = r.gaveUp /\ t.launcher = r.launcher /\ t.failures = r.failures
      BY <2>6 DEF SessionType
    <2> HIDE DEF t
    <2>8. OnSurface(session) => OnSurface(r) /\ OnSurface(t)
      BY <2>5, <2>6, <2>7 DEF OnSurface
    <2>9. Len(<<>>) = 0 /\ DOMAIN <<>> = {}
      OBVIOUS
    <2>10. HandOffOK(r)
      <3>1. LauncherOK(r)
        BY <1>0, <1>2, <2>5, <2>6 DEF LauncherOK
      <3>2. NewestLast(r)
        BY <1>2, <2>5, <2>6 DEF NewestLast
      <3>3. AnswersTrue(r)
        BY <1>2, <2>5, <2>6, <2>8, <2>9 DEF AnswersTrue
      <3> QED
        BY <2>6, <3>1, <3>2, <3>3 DEF HandOffOK, Told
    <2>11. ASSUME ack.current PROVE HandOffOK(t)
      <3>1. OnSurface(session)
        BY <1>2, <2>4, <2>11 DEF AnswersTrue
      <3>2. LauncherOK(t)
        BY <1>0, <1>2, <2>5, <2>6, <2>7 DEF LauncherOK
      <3>3. NewestLast(t)
        BY <1>2, <2>5, <2>6, <2>7 DEF NewestLast
      <3>4. AnswersTrue(t)
        BY <1>2, <2>5, <2>6, <2>7, <2>8, <2>9, <3>1 DEF AnswersTrue
      <3> QED
        BY <2>7, <3>2, <3>3, <3>4 DEF HandOffOK, Told
    <2> QED
      BY <2>3, <2>10, <2>11
  <1> QED
    BY <1>4, <1>5, <1>6, <1>7 DEF Client

\* The session starts without a launcher.
LEMMA HandOffInit == Init => HandOffInv
  <1> SUFFICES ASSUME Init PROVE HandOffInv
    OBVIOUS
  <1>1. [a \in Apps |-> NoProcess(a)] \in [Apps -> ProcessType]
    BY Processes
  <1>2. NoLauncher \in LauncherType /\ ~NoLauncher.up /\ ~NoLauncher.dead /\ ~NoLauncher.fd
    BY DEF NoLauncher, LauncherType
  <1>3. NoClient \in ClientType /\ NoClient.inbox = <<>>
    BY EmptySeq DEF NoClient, ClientType, MaybeApp
  <1>4. [app |-> NoApp, card |-> FALSE, cover |-> "none", rest |-> 0] \in MessageType
    BY DEF MessageType, MaybeApp, CoverType
  <1>5. MaxFailures \in Nat \ {0} /\ InboxMax \in Nat /\ 0 \in 0 .. MaxFailures
    BY HandOffAssumption DEF HandOffAssumption
  <1>6. /\ session \in SessionType /\ session.launcher = NoLauncher /\ session.client = NoClient
        /\ ~session.sent
    BY <1>1, <1>2, <1>3, <1>4, <1>5 DEF Init, SessionType, MaybeApp
  <1>7. LauncherOK(session)
    BY <1>2, <1>3, <1>5, <1>6 DEF LauncherOK
  <1>8. cover \in CoverType
    BY DEF Init, CoverType
  <1> QED
    BY <1>6, <1>7, <1>8 DEF HandOffInv, HandOffOK, Told

\* Every action keeps the invariant.
LEMMA HandOffNext ==
  ASSUME HandOffInv, [Next]_vars
  PROVE  HandOffInv'
  <1>1. cover' \in CoverType
    <2>1. ASSUME NEW a \in Apps,
                 \/ Launch(a) \/ Exit(a) \/ Ready(a) \/ ActivationAck(a) \/ Die(a)
                 \/ ModeLate(a) \/ \E enabled \in BOOLEAN : Busy(a, enabled)
                 \/ \E mode \in Modes : Mode(a, mode) \/ Commit(a, mode)
          PROVE  UNCHANGED cover
      BY <2>1 DEF Launch, Exit, Ready, ActivationAck, Die, ModeLate, Mode, Busy, Commit, Idle
    <2>2. ASSUME \/ Home \/ LauncherHello \/ LauncherFramed \/ ActiveAck \/ Tell
                 \/ LauncherDies \/ Advance \/ SwapLate \/ LaunchLate \/ Client
          PROVE  UNCHANGED cover
      BY <2>2 DEF Home, LauncherHello, LauncherFramed, ActiveAck, Tell, LauncherDies, Advance,
         SwapLate, LaunchLate, Client, Draw, CommitFrame, FrameAckDone, Idle
    <2>3. \/ UNCHANGED cover \/ \E c \in CoverType : ChangeCover(c)
      BY <2>1, <2>2 DEF Next, vars, CoverType
    <2> QED
      BY <2>3 DEF HandOffInv, ChangeCover
  <1>2. HandOffOK(session')
    <2>1. CASE UNCHANGED vars
      BY <2>1 DEF vars, HandOffInv
    <2>2. CASE Next
      BY <2>2, AppActions, CommitAction, ManagerActions, LauncherActions, ClientActions
         DEF Next, CoverType
    <2> QED
      BY <2>1, <2>2
  <1> QED
    BY <1>1, <1>2 DEF HandOffInv

\* ACTIVE_ACK means what hand_off() takes it for, for every size of the launcher's
\* socket and whatever happens to the launcher.
THEOREM AnswersMeanDrawn == Spec => []AnswerMeansDrawn
  <1>1. Init => HandOffInv
    BY HandOffInit
  <1>2. HandOffInv /\ [Next]_vars => HandOffInv'
    BY HandOffNext
  <1>3. HandOffInv => AnswerMeansDrawn
    <2> SUFFICES ASSUME HandOffInv PROVE AnswerMeansDrawn
      OBVIOUS
    <2>1. /\ session \in SessionType /\ LauncherOK(session) /\ Told(session)
          /\ cover \in CoverType
      BY DEF HandOffInv, HandOffOK
    <2>2. TypeOK
      <3>1. session.client.inbox \in Seq(FrameType)
        BY <2>1 DEF SessionType, ClientType
      <3> QED
        BY <2>1, <3>1 DEF TypeOK, SessionType, ProcessType, MaybeApp, CoverType, LauncherOK
    <2>3. ASSUME Connected(session), session.sent, ~session.wait, ~session.gaveUp
          PROVE  /\ session.client.view = session.last.app
                 /\ session.draws = (session.last.app # NoApp)
      <3>1. session.launcher.up
        BY <2>3 DEF Connected, IsRunning
      <3> QED
        BY <2>1, <2>3, <3>1 DEF Told, NewestLast, AnswersTrue, OnSurface
    <2> QED
      BY <2>2, <2>3 DEF AnswerMeansDrawn
  <1> QED
    BY <1>1, <1>2, <1>3, PTL DEF Spec

-----------------------------------------------------------------------------
(* Swaps.  What every step but hand_off() and settle_held_scene() does to the *)
(* screen.                                                                  *)

\* No application appears, none that was leaving has been parked, and no held scene
\* is let go.
Calm(s, t) ==
    /\ s.held \subseteq t.held
    /\ \A a \in Apps : t.task[a].shown => s.task[a].shown
    /\ \A a \in Apps : s.task[a].leaving /\ t.task[a].drawn => t.task[a].leaving

\* An ACTIVE that was refused in this step still finds the launcher's socket full.
Stuck(s) == s.launcher.fd /\ s.refused => Len(s.client.inbox) = InboxMax

\* Nor is a timer expired or an answer given up, and the launcher's surface stays.
Eased(s, t) ==
    /\ Calm(s, t)
    /\ t.late => s.late
    /\ t.gaveUp => s.gaveUp
    /\ t.launcher.fd => s.launcher.fd /\ t.client.view = s.client.view
    /\ Stuck(s) => Stuck(t)

\* Nor does an application draw.
Steady(s, t) == Eased(s, t) /\ \A a \in Apps : t.task[a].drawn => s.task[a].drawn

\* One step after another.
LEMMA SteadyTrans ==
  ASSUME NEW s, NEW t, NEW u, Steady(t, u)
  PROVE  (Eased(s, t) => Eased(s, u)) /\ (Steady(s, t) => Steady(s, u))
  BY DEF Steady, Eased, Calm

\* A step that leaves the screen's part of the session alone.
LEMMA SteadySame ==
  ASSUME NEW s, NEW t, SameTold(s, t), t.task = s.task, t.held = s.held, t.late = s.late
  PROVE  Steady(s, t)
  BY DEF Steady, Eased, Calm, SameTold, Stuck

\* The application that ACTIVE has to name.
NamedApp(s) == IF AppAnnounced(s) THEN s.app ELSE NoApp

\* The launcher was told of the application in front, unless its socket refused it.
Named(s) ==
    s.launcher.fd => /\ s.sent
                     /\ s.last.app = NamedApp(s) \/ s.refused

\* A step that does not change what has to be named.
LEMMA NamedSame ==
  ASSUME NEW s, NEW t, Named(s), SameTold(s, t), NamedApp(t) = NamedApp(s)
  PROVE  Named(t)
  BY DEF Named, SameTold

\* send_active() touches nothing but ACTIVE, and tells what there is to name.
LEMMA SendTells ==
  ASSUME NEW s, HandOffOK(s), cover \in CoverType, NEW t, t = SendActive(s)
  PROVE  /\ Named(t) /\ Steady(s, t)
         /\ t.task = s.task /\ t.app = s.app /\ t.held = s.held /\ t.late = s.late
         /\ t.launcher = s.launcher /\ t.client.view = s.client.view
         /\ t.starting = s.starting /\ t.acked = s.acked /\ t.failures = s.failures
         /\ s.launcher.fd /\ Len(s.client.inbox) = InboxMax /\ s.last.cover # cover => t.refused
         /\ t.pending = s.pending /\ t.retained = s.retained
  <1>1. s \in SessionType /\ LauncherOK(s)
    BY DEF HandOffOK
  <1> DEFINE c == [inbox |-> Append(Outdated(s.client.inbox),
                                    [app |-> Message(s).app, current |-> TRUE]),
                   canvas |-> Outdated(s.client.canvas), sync |-> Outdated(s.client.sync),
                   view |-> s.client.view, acks |-> Outdated(s.client.acks)]
             u == [s EXCEPT !.last = Message(s), !.sent = TRUE, !.named = AppAnnounced(s),
                            !.wait = TRUE, !.gaveUp = FALSE, !.refused = FALSE, !.client = c]
             f == [s EXCEPT !.refused = FALSE]
             g == [s EXCEPT !.refused = TRUE]
  <1>2. Sent(s) = u
    BY DEF Sent
  <1>3. c.view = s.client.view
    OBVIOUS
  <1> HIDE DEF c
  <1>4. /\ u.task = s.task /\ u.app = s.app /\ u.held = s.held /\ u.late = s.late
        /\ u.launcher = s.launcher /\ u.client = c /\ u.starting = s.starting
        /\ u.acked = s.acked /\ u.failures = s.failures /\ u.last = Message(s) /\ u.sent
        /\ ~u.gaveUp /\ u.pending = s.pending /\ u.retained = s.retained /\ ~u.refused
    BY <1>1 DEF SessionType
  <1>5. ASSUME NEW b \in BOOLEAN, NEW v, v = [s EXCEPT !.refused = b]
        PROVE  /\ v.task = s.task /\ v.app = s.app /\ v.held = s.held /\ v.late = s.late
               /\ v.launcher = s.launcher /\ v.client = s.client /\ v.starting = s.starting
               /\ v.acked = s.acked /\ v.failures = s.failures /\ v.last = s.last
               /\ v.sent = s.sent /\ v.gaveUp = s.gaveUp /\ v.pending = s.pending
               /\ v.retained = s.retained /\ v.refused = b
    BY <1>1, <1>5 DEF SessionType
  <1>6. \/ t = s /\ ~s.launcher.fd
        \/ t = f /\ s.launcher.fd /\ s.sent /\ Message(s) = s.last
        \/ t = g /\ s.launcher.fd /\ Len(s.client.inbox) = InboxMax
        \/ t = u /\ s.launcher.fd /\ Len(s.client.inbox) # InboxMax
    BY <1>2 DEF SendActive
  <1>7. NamedApp(s) = Message(s).app /\ Message(s).cover = cover
    BY DEF NamedApp, Message
  <1>8. CASE t = s /\ ~s.launcher.fd
    <2>1. Steady(s, t)
      BY <1>8, SteadySame DEF SameTold
    <2> QED
      BY <1>8, <2>1 DEF Named
  <1>9. CASE t = f /\ s.launcher.fd /\ s.sent /\ Message(s) = s.last
    <2>1. /\ f.task = s.task /\ f.app = s.app /\ f.held = s.held /\ f.late = s.late
          /\ f.launcher = s.launcher /\ f.client = s.client /\ f.starting = s.starting
          /\ f.acked = s.acked /\ f.failures = s.failures /\ f.last = s.last
          /\ f.sent = s.sent /\ f.gaveUp = s.gaveUp /\ f.pending = s.pending
          /\ f.retained = s.retained /\ ~f.refused
      BY <1>5
    <2> HIDE DEF f
    <2>2. NamedApp(f) = NamedApp(s)
      BY <2>1 DEF NamedApp, AppAnnounced, AppInForeground, App
    <2>3. Named(t) /\ Steady(s, t)
      BY <1>7, <1>9, <2>1, <2>2 DEF Named, Steady, Eased, Calm, Stuck
    <2> QED
      BY <1>7, <1>9, <2>1, <2>3
  <1>10. CASE t = g /\ s.launcher.fd /\ Len(s.client.inbox) = InboxMax
    <2>1. /\ g.task = s.task /\ g.app = s.app /\ g.held = s.held /\ g.late = s.late
          /\ g.launcher = s.launcher /\ g.client = s.client /\ g.starting = s.starting
          /\ g.acked = s.acked /\ g.failures = s.failures /\ g.last = s.last
          /\ g.sent = s.sent /\ g.gaveUp = s.gaveUp /\ g.pending = s.pending
          /\ g.retained = s.retained /\ g.refused
      BY <1>5
    <2> HIDE DEF g
    <2>2. s.sent
      <3>1. InboxMax # 0 /\ Len(NoClient.inbox) = 0
        BY HandOffAssumption, EmptySeq DEF HandOffAssumption, NoClient
      <3> QED
        BY <1>1, <1>10, <3>1 DEF LauncherOK
    <2>3. Named(t) /\ Steady(s, t)
      BY <1>10, <2>1, <2>2 DEF Named, Steady, Eased, Calm, Stuck
    <2> QED
      BY <1>10, <2>1, <2>3
  <1>11. CASE t = u /\ s.launcher.fd /\ Len(s.client.inbox) # InboxMax
    <2> HIDE DEF u
    <2>1. NamedApp(u) = NamedApp(s)
      BY <1>4 DEF NamedApp, AppAnnounced, AppInForeground, App
    <2>2. Named(t)
      BY <1>4, <1>7, <1>11, <2>1 DEF Named
    <2>3. Steady(s, t)
      BY <1>3, <1>4, <1>11 DEF Steady, Eased, Calm, Stuck
    <2> QED
      BY <1>3, <1>4, <1>11, <2>2, <2>3
  <1> HIDE DEF f, g, u
  <1> QED
    BY <1>6, <1>8, <1>9, <1>10, <1>11

\* What has to be named depends on the application in front and on the launch.
LEMMA NamedAppSame ==
  ASSUME NEW s, NEW t, t.app = s.app, t.starting = s.starting, t.acked = s.acked,
         App(t).up = App(s).up, App(t).closing = App(s).closing,
         App(t).leaving = App(s).leaving, App(t).drawn = App(s).drawn,
         App(t).ready = App(s).ready
  PROVE  NamedApp(t) = NamedApp(s)
  BY DEF NamedApp, AppAnnounced, AppInForeground, IsRunning

\* The same application, unchanged, in front of the same launch.
LEMMA FrontSame ==
  ASSUME NEW s, NEW t, t.app = s.app, t.starting = s.starting, t.acked = s.acked,
         t.task = s.task
  PROVE  NamedApp(t) = NamedApp(s) /\ App(t) = App(s)
  BY DEF NamedApp, AppAnnounced, AppInForeground, App

\* finish_launch(), hold_scene() and a launcher that is asked to close.
LEMMA PartsSteady ==
  ASSUME NEW s \in SessionType, NEW scene \in {"LAUNCH", "HOME"}
  PROVE  /\ Steady(s, FinishLaunch(s)) /\ Steady(s, HoldScene(s, scene))
         /\ Steady(s, CloseLauncher(s))
         /\ NamedApp(HoldScene(s, scene)) = NamedApp(s)
         /\ NamedApp(CloseLauncher(s)) = NamedApp(s)
  <1>1. FinishLaunch(s).late = s.late
    BY DEF FinishLaunch, SessionType
  <1>2. Steady(s, FinishLaunch(s))
    BY <1>1, FinishLaunchSame, SteadySame
  <1>3. /\ s.held \subseteq HoldScene(s, scene).held /\ HoldScene(s, scene).late = s.late
        /\ HoldScene(s, scene).starting = s.starting /\ HoldScene(s, scene).acked = s.acked
    <2> DEFINE t == [s EXCEPT !.held = s.held \cup {scene}]
    <2>1. t.held = s.held \cup {scene} /\ t.late = s.late
      BY DEF SessionType
    <2>2. t.starting = s.starting /\ t.acked = s.acked
      BY DEF SessionType
    <2>3. HoldScene(s, scene) \in {s, t}
      BY DEF HoldScene
    <2> HIDE DEF t
    <2> QED
      BY <2>1, <2>2, <2>3
  <1>4. Steady(s, HoldScene(s, scene))
    <2> DEFINE h == HoldScene(s, scene)
    <2>1. SameTold(s, h) /\ h.task = s.task
      BY ScenesSame
    <2>2. s.held \subseteq h.held /\ h.late = s.late
      BY <1>3
    <2> HIDE DEF h
    <2>3. Calm(s, h)
      BY <2>1, <2>2 DEF Calm
    <2>4. Steady(s, h)
      BY <2>1, <2>2, <2>3 DEF Steady, Eased, SameTold, Stuck
    <2> QED
      BY <2>4 DEF h
  <1>5. NamedApp(HoldScene(s, scene)) = NamedApp(s)
    BY <1>3, ScenesSame, FrontSame
  <1> DEFINE c == CloseLauncher(s)
  <1>6. /\ c.held = s.held /\ c.late = s.late /\ c.starting = s.starting /\ c.acked = s.acked
        /\ c.task = s.task /\ c.app = s.app
    BY DEF CloseLauncher, SessionType
  <1>7. NoApp \in MaybeApp
    BY DEF MaybeApp
  <1>8. SameTold(s, c)
    BY <1>7, CloseSame
  <1> HIDE DEF c
  <1>9. Steady(s, c) /\ NamedApp(c) = NamedApp(s)
    BY <1>6, <1>8, SteadySame, FrontSame
  <1> QED
    BY <1>2, <1>4, <1>5, <1>9 DEF c

\* One process of the table is changed, and neither shown nor drawn by that.
LEMMA TaskSteady ==
  ASSUME NEW s \in SessionType, NEW a \in Apps, NEW process \in ProcessType,
         process.shown => s.task[a].shown, process.drawn => s.task[a].drawn,
         s.task[a].leaving => process.leaving \/ ~process.drawn,
         NEW t, t = [s EXCEPT !.task[a] = process]
  PROVE  /\ Steady(s, t) /\ t.app = s.app /\ t.starting = s.starting /\ t.acked = s.acked
         /\ t.held = s.held /\ t.late = s.late /\ t.pending = s.pending
         /\ \A b \in Apps : t.task[b] = IF b = a THEN process ELSE s.task[b]
  <1>1. /\ t.app = s.app /\ t.starting = s.starting /\ t.acked = s.acked
        /\ t.held = s.held /\ t.late = s.late /\ t.pending = s.pending
        /\ t.task = [s.task EXCEPT ![a] = process]
    BY DEF SessionType
  <1>2. \A b \in Apps : t.task[b] = IF b = a THEN process ELSE s.task[b]
    BY <1>1 DEF SessionType
  <1>3. SameTold(s, t)
    BY TaskAs
  <1>4. Calm(s, t)
    BY <1>1, <1>2 DEF Calm
  <1>5. \A b \in Apps : t.task[b].drawn => s.task[b].drawn
    BY <1>2
  <1> QED
    BY <1>1, <1>2, <1>3, <1>4, <1>5 DEF Steady, Eased, SameTold, Stuck

\* request_close() of an application.
LEMMA CloseSteady ==
  ASSUME NEW s \in SessionType, NEW a \in MaybeApp, NEW t, t = RequestClose(s, a)
  PROVE  /\ Steady(s, t)
         /\ a # s.app \/ App(s).leaving => NamedApp(t) = NamedApp(s)
         /\ t.held = s.held /\ t.app = s.app
         /\ \A b \in Apps : /\ t.task[b].shown = s.task[b].shown
                            /\ t.task[b].leaving = s.task[b].leaving
                            /\ t.task[b].mode = s.task[b].mode
  <1>1. CASE a # NoApp /\ IsRunning(s.task[a])
    <2> DEFINE process == [s.task[a] EXCEPT !.closing = TRUE]
    <2>1. a \in Apps /\ s.task[a] \in ProcessType
      BY <1>1 DEF MaybeApp, SessionType
    <2>2. /\ process \in ProcessType /\ process.shown = s.task[a].shown
          /\ process.drawn = s.task[a].drawn /\ process.leaving = s.task[a].leaving
          /\ process.mode = s.task[a].mode
      BY <2>1 DEF ProcessType
    <2>3. t = [s EXCEPT !.task[a] = process]
      BY <1>1 DEF RequestClose, SessionType
    <2> HIDE DEF process
    <2>4. /\ Steady(s, t) /\ t.app = s.app /\ t.starting = s.starting /\ t.acked = s.acked
          /\ t.held = s.held
          /\ \A b \in Apps : t.task[b] = IF b = a THEN process ELSE s.task[b]
      BY <2>1, <2>2, <2>3, TaskSteady
    <2>5. ASSUME a # s.app PROVE NamedApp(t) = NamedApp(s)
      <3>1. App(t) = App(s)
        BY <2>4, <2>5 DEF App, SessionType, MaybeApp
      <3> QED
        BY <2>4, <3>1, NamedAppSame
    <2>6. ASSUME a = s.app, App(s).leaving PROVE NamedApp(t) = NamedApp(s)
      <3>1. App(t).leaving
        BY <1>1, <2>1, <2>2, <2>4, <2>6 DEF App
      <3> QED
        BY <2>6, <3>1 DEF NamedApp, AppAnnounced, AppInForeground
    <2> QED
      BY <2>1, <2>2, <2>4, <2>5, <2>6
  <1>2. CASE ~(a # NoApp /\ IsRunning(s.task[a]))
    <2>1. t = s
      BY <1>2 DEF RequestClose
    <2> QED
      BY <2>1, SteadySame DEF SameTold
  <1> QED
    BY <1>1, <1>2

\* park_app() as one change of the table.
LEMMA ParkIs ==
  ASSUME NEW s \in SessionType, s.app \in Apps
  PROVE  ParkApp(s) = [s EXCEPT !.task = [s.task EXCEPT ![s.app] =
                          [s.task[s.app] EXCEPT !.shown = FALSE, !.leaving = FALSE,
                                                !.park = FALSE]], !.app = NoApp]
  BY DEF ParkApp

\* park_app() of an application that was not leaving.
LEMMA ParkSteady ==
  ASSUME NEW s \in SessionType, s.app \in Apps, ~s.task[s.app].leaving
  PROVE  Steady(s, ParkApp(s))
  <1> DEFINE parked == [s.task[s.app] EXCEPT !.shown = FALSE, !.leaving = FALSE, !.park = FALSE]
             t == [s EXCEPT !.task = [s.task EXCEPT ![s.app] = parked], !.app = NoApp]
  <1>1. s.task[s.app] \in ProcessType
    BY DEF SessionType
  <1>2. ~parked.shown /\ parked.drawn = s.task[s.app].drawn
    BY <1>1 DEF ProcessType
  <1>3. ParkApp(s) = t
    BY ParkIs
  <1> HIDE DEF parked
  <1>4. /\ t.held = s.held /\ t.late = s.late
        /\ \A b \in Apps : t.task[b] = IF b = s.app THEN parked ELSE s.task[b]
    BY DEF SessionType
  <1> HIDE DEF t
  <1>5. SameTold(s, t)
    BY <1>3, ParkSame
  <1> QED
    BY <1>2, <1>3, <1>4, <1>5 DEF Steady, Eased, Calm, SameTold, Stuck

\* leave_app() starts a swap; it does not end one.
LEMMA LeaveSteady ==
  ASSUME NEW s \in SessionType, NEW retain \in BOOLEAN
  PROVE  Steady(s, LeaveApp(s, retain))
  <1> DEFINE held == IF IsRunning(App(s)) /\ App(s).shown /\ "LAUNCH" \notin s.held
                     THEN HoldScene(s, "HOME") ELSE s
             finished == IF s.pending = NoApp THEN FinishLaunch(held) ELSE held
             marked == [finished EXCEPT !.task[s.app].park = retain]
             leaves == [marked EXCEPT !.task[s.app].leaving = TRUE, !.late = FALSE]
  <1>1. LeaveApp(s, retain) = IF ~IsRunning(App(s)) \/ App(s).leaving THEN held
                              ELSE IF ~App(s).shown \/ ~Uncovered
                              THEN IF retain THEN ParkApp(marked) ELSE RequestClose(marked, s.app)
                              ELSE leaves
    BY DEF LeaveApp
  <1>2. Steady(s, s)
    BY SteadySame DEF SameTold
  <1>3. Steady(s, held) /\ held \in SessionType /\ held.task = s.task
    BY <1>2, PartsSteady, ScenesSame
  <1> HIDE DEF held
  <1>4. Steady(s, finished) /\ finished \in SessionType /\ finished.task = s.task
    <2>1. Steady(held, FinishLaunch(held))
      BY <1>3, PartsSteady
    <2> QED
      BY <1>3, <2>1, FinishLaunchSame, SteadyTrans
  <1> HIDE DEF finished
  <1>5. CASE ~IsRunning(App(s)) \/ App(s).leaving
    BY <1>1, <1>3, <1>5
  <1>6. CASE IsRunning(App(s)) /\ ~App(s).leaving
    <2> DEFINE process == [s.task[s.app] EXCEPT !.park = retain]
               gone == [process EXCEPT !.leaving = TRUE]
    <2>1. s.app \in Apps /\ s.task[s.app] \in ProcessType /\ ~s.task[s.app].leaving
      BY <1>6, Front DEF IsRunning, SessionType
    <2>2. /\ process \in ProcessType /\ process.shown = s.task[s.app].shown
          /\ process.drawn = s.task[s.app].drawn /\ process.leaving = s.task[s.app].leaving
      BY <2>1 DEF ProcessType
    <2>3. marked = [finished EXCEPT !.task[s.app] = process]
      BY <1>4 DEF SessionType
    <2>4. gone \in ProcessType /\ gone.shown = process.shown /\ gone.drawn = process.drawn
      BY <2>2 DEF ProcessType
    <2> HIDE DEF process, marked, gone
    <2>5. /\ Steady(finished, marked) /\ marked.app = finished.app
          /\ marked.task[s.app] = process
      BY <1>4, <2>1, <2>2, <2>3, TaskSteady
    <2>6. marked \in SessionType
      BY <1>4, <2>1, <2>2, <2>3, TaskAs
    <2>7. marked.app = s.app
      <3>1. held.app = s.app /\ finished.app = held.app
        BY <1>3, ScenesSame, FinishLaunchSame DEF held, finished
      <3> QED
        BY <2>5, <3>1
    <2>8. leaves = [[marked EXCEPT !.task[s.app] = gone] EXCEPT !.late = FALSE]
      <3>1. [marked.task[s.app] EXCEPT !.leaving = TRUE] = gone
        BY <2>5 DEF gone
      <3>2. [marked.task EXCEPT ![s.app].leaving = TRUE] = [marked.task EXCEPT ![s.app] = gone]
        BY <2>1, <2>6, <3>1 DEF SessionType
      <3> QED
        BY <2>1, <2>6, <3>2 DEF SessionType
    <2>9. Steady(s, marked)
      BY <1>4, <2>5, SteadyTrans
    <2>10. Steady(marked, ParkApp(marked))
      BY <2>1, <2>2, <2>5, <2>6, <2>7, ParkSteady
    <2>11. Steady(marked, RequestClose(marked, s.app))
      BY <2>1, <2>6, CloseSteady DEF MaybeApp
    <2>12. Steady(marked, leaves)
      <3> DEFINE u == [marked EXCEPT !.task[s.app] = gone]
                 v == [u EXCEPT !.late = FALSE]
      <3>1. Steady(marked, u) /\ u \in SessionType
        BY <2>1, <2>2, <2>4, <2>5, <2>6, TaskSteady, TaskAs
      <3> HIDE DEF u
      <3>2. SameTold(u, v) /\ v.task = u.task /\ v.held = u.held /\ ~v.late
        BY <3>1 DEF SessionType, SameTold
      <3> HIDE DEF v
      <3>3. Steady(u, v)
        BY <3>2 DEF Steady, Eased, Calm, SameTold, Stuck
      <3> QED
        BY <2>8, <3>1, <3>3, SteadyTrans DEF u, v
    <2> HIDE DEF leaves
    <2> QED
      BY <1>1, <1>6, <2>9, <2>10, <2>11, <2>12, SteadyTrans
  <1> QED
    BY <1>5, <1>6

\* Each of these ends with send_active() or changes nothing that it names.
LEMMA BeginLaunchSteady ==
  ASSUME NEW s, HandOffOK(s), cover \in CoverType, NEW a \in Apps
  PROVE  Steady(s, BeginLaunch(s, a)) /\ Named(BeginLaunch(s, a))
  <1> DEFINE set == [s EXCEPT !.pending = a, !.starting = TRUE, !.acked = FALSE, !.busy = "no",
                              !.retained = s.task[a].up, !.launches = @ + 1]
             held == HoldScene(set, "LAUNCH")
             begun == SendActive(held)
             left == LeaveApp(begun, TRUE)
             last == IF a \in Fullscreen THEN CloseLauncher(left) ELSE left
  <1>1. s \in SessionType
    BY DEF HandOffOK
  <1>2. s.task[a].up \in BOOLEAN /\ s.launches + 1 \in Nat
    BY <1>1 DEF SessionType, ProcessType
  <1>3. /\ set \in SessionType /\ SameTold(s, set) /\ set.failures = s.failures
        /\ set.task = s.task /\ set.held = s.held /\ set.late = s.late
    BY <1>1, <1>2 DEF SessionType, SameTold, MaybeApp
  <1>4. BeginLaunch(s, a) = SendActive(last)
    BY DEF BeginLaunch
  <1> HIDE DEF set
  <1>5. Steady(s, set) /\ HandOffOK(set)
    BY <1>3, SteadySame, SameKeeps
  <1>6. Steady(set, held) /\ HandOffOK(held)
    BY <1>3, <1>5, PartsSteady, ScenesSame, SameKeeps
  <1> HIDE DEF held
  <1>7. Steady(held, begun) /\ HandOffOK(begun)
    BY <1>6, SendTells, SendOK
  <1> HIDE DEF begun
  <1>8. begun \in SessionType
    BY <1>7 DEF HandOffOK
  <1>9. Steady(begun, left) /\ HandOffOK(left)
    BY <1>7, <1>8, LeaveSteady, LeaveSame, SameKeeps
  <1> HIDE DEF left
  <1>10. left \in SessionType
    BY <1>9 DEF HandOffOK
  <1>11. Steady(left, last) /\ HandOffOK(last)
    <2>1. Steady(left, left)
      BY SteadySame DEF SameTold
    <2>2. Steady(left, CloseLauncher(left)) /\ HandOffOK(CloseLauncher(left))
      BY <1>9, <1>10, PartsSteady, CloseSame, SameKeeps DEF MaybeApp
    <2> QED
      BY <1>9, <2>1, <2>2
  <1> HIDE DEF last
  <1>12. Steady(last, SendActive(last)) /\ Named(SendActive(last))
    BY <1>11, SendTells
  <1>13. Steady(s, begun)
    BY <1>5, <1>6, <1>7, SteadyTrans
  <1> QED
    BY <1>4, <1>9, <1>11, <1>12, <1>13, SteadyTrans

\* fplinux_session_cancel_launch().
LEMMA CancelLaunchSteady ==
  ASSUME NEW s, HandOffOK(s), Named(s), cover \in CoverType
  PROVE  Steady(s, CancelLaunch(s)) /\ Named(CancelLaunch(s))
  <1> DEFINE owns == s.app # NoApp /\ s.pending = NoApp
             cleared == [s EXCEPT !.pending = NoApp]
             left == IF ~owns THEN cleared
                     ELSE IF s.retained THEN LeaveApp(cleared, TRUE)
                     ELSE RequestClose(cleared, s.app)
             done == FinishLaunch(left)
  <1>1. s \in SessionType /\ s.app \in MaybeApp
    BY DEF HandOffOK, SessionType
  <1>2. /\ cleared \in SessionType /\ SameTold(s, cleared) /\ cleared.failures = s.failures
        /\ cleared.task = s.task /\ cleared.held = s.held /\ cleared.late = s.late
    BY <1>1 DEF SessionType, SameTold, MaybeApp
  <1>3. CancelLaunch(s) = IF ~LaunchInProgress(s) THEN s ELSE SendActive(done)
    BY DEF CancelLaunch
  <1> HIDE DEF cleared
  <1>4. Steady(s, cleared) /\ HandOffOK(cleared)
    BY <1>2, SteadySame, SameKeeps
  <1>5. Steady(cleared, LeaveApp(cleared, TRUE)) /\ HandOffOK(LeaveApp(cleared, TRUE))
    BY <1>2, <1>4, LeaveSteady, LeaveSame, SameKeeps
  <1>6. /\ Steady(cleared, RequestClose(cleared, s.app))
        /\ HandOffOK(RequestClose(cleared, s.app))
    <2>1. Steady(cleared, RequestClose(cleared, s.app))
      BY <1>1, <1>2, CloseSteady
    <2>2. HandOffOK(RequestClose(cleared, s.app))
      BY <1>1, <1>2, <1>4, CloseSame, SameKeeps
    <2> QED
      BY <2>1, <2>2
  <1>7. Steady(s, left) /\ HandOffOK(left)
    BY <1>4, <1>5, <1>6, SteadyTrans
  <1> HIDE DEF left
  <1>8. left \in SessionType
    BY <1>7 DEF HandOffOK
  <1>9. Steady(s, done) /\ HandOffOK(done)
    <2>1. Steady(left, done) /\ HandOffOK(done)
      BY <1>7, <1>8, PartsSteady, FinishLaunchSame, SameKeeps
    <2> QED
      BY <1>7, <2>1, SteadyTrans
  <1> HIDE DEF done
  <1>10. Steady(s, SendActive(done)) /\ Named(SendActive(done))
    BY <1>9, SendTells, SteadyTrans
  <1>11. Steady(s, s)
    BY SteadySame DEF SameTold
  <1> QED
    BY <1>3, <1>10, <1>11

\* return_home().
LEMMA ReturnHomeSteady ==
  ASSUME NEW s, HandOffOK(s), cover \in CoverType
  PROVE  Steady(s, ReturnHome(s)) /\ Named(ReturnHome(s))
  <1> DEFINE cleared == [s EXCEPT !.pending = NoApp]
             calm == FinishLaunch(cleared)
             held == IF AppInForeground(s) /\ App(s).shown THEN HoldScene(calm, "HOME") ELSE calm
             left == LeaveApp(held, TRUE)
  <1>1. s \in SessionType
    BY DEF HandOffOK
  <1>2. /\ cleared \in SessionType /\ SameTold(s, cleared) /\ cleared.failures = s.failures
        /\ cleared.task = s.task /\ cleared.held = s.held /\ cleared.late = s.late
    BY <1>1 DEF SessionType, SameTold, MaybeApp
  <1>3. ReturnHome(s) = SendActive(left)
    BY DEF ReturnHome
  <1> HIDE DEF cleared
  <1>4. Steady(s, cleared) /\ HandOffOK(cleared)
    BY <1>2, SteadySame, SameKeeps
  <1>5. Steady(s, calm) /\ calm \in SessionType /\ HandOffOK(calm)
    <2>1. Steady(cleared, calm) /\ calm \in SessionType /\ HandOffOK(calm)
      BY <1>2, <1>4, PartsSteady, FinishLaunchSame, SameKeeps
    <2> QED
      BY <1>4, <2>1, SteadyTrans
  <1> HIDE DEF calm
  <1>6. Steady(s, held) /\ held \in SessionType /\ HandOffOK(held)
    <2>1. Steady(calm, HoldScene(calm, "HOME")) /\ HandOffOK(HoldScene(calm, "HOME"))
          /\ HoldScene(calm, "HOME") \in SessionType
      BY <1>5, PartsSteady, ScenesSame, SameKeeps
    <2> QED
      BY <1>5, <2>1, SteadyTrans
  <1> HIDE DEF held
  <1>7. Steady(held, left) /\ HandOffOK(left)
    BY <1>6, LeaveSteady, LeaveSame, SameKeeps
  <1> HIDE DEF left
  <1>8. Steady(left, SendActive(left)) /\ Named(SendActive(left))
    BY <1>7, SendTells
  <1> QED
    BY <1>3, <1>6, <1>7, <1>8, SteadyTrans

\* finish_user_close().
LEMMA UserCloseSteady ==
  ASSUME NEW s, HandOffOK(s), Named(s), cover \in CoverType, NEW a \in Apps
  PROVE  Steady(s, FinishUserClose(s, a)) /\ Named(FinishUserClose(s, a))
  <1> DEFINE process == [s.task[a] EXCEPT !.park = FALSE]
             final == [s EXCEPT !.task[a] = process]
             held == IF s.task[a].shown THEN HoldScene(final, "HOME") ELSE final
             left == IF s.task[a].leaving THEN RequestClose(held, a) ELSE LeaveApp(held, FALSE)
  <1>1. s \in SessionType /\ s.task[a] \in ProcessType /\ a \in MaybeApp
    BY DEF HandOffOK, SessionType, MaybeApp
  <1>2. /\ process \in ProcessType /\ process.shown = s.task[a].shown
        /\ process.drawn = s.task[a].drawn /\ process.leaving = s.task[a].leaving
    BY <1>1 DEF ProcessType
  <1>3. FinishUserClose(s, a) = IF a # s.app THEN RequestClose(s, a) ELSE SendActive(left)
    <2>1. [s EXCEPT !.task[a].park = FALSE] = final
      BY <1>1 DEF SessionType
    <2> QED
      BY <2>1 DEF FinishUserClose
  <1>4. ASSUME a # s.app PROVE Steady(s, RequestClose(s, a)) /\ Named(RequestClose(s, a))
    <2>1. /\ Steady(s, RequestClose(s, a)) /\ NamedApp(RequestClose(s, a)) = NamedApp(s)
          /\ SameTold(s, RequestClose(s, a))
      BY <1>1, <1>4, CloseSteady, CloseSame
    <2> QED
      BY <2>1, NamedSame
  <1> HIDE DEF process
  <1>5. Steady(s, final) /\ HandOffOK(final) /\ final \in SessionType
    <2>1. Steady(s, final)
      BY <1>1, <1>2, TaskSteady
    <2>2. final \in SessionType /\ SameTold(s, final) /\ final.failures = s.failures
      BY <1>1, <1>2, TaskAs
    <2> HIDE DEF final
    <2> QED
      BY <2>1, <2>2, SameKeeps
  <1> HIDE DEF final
  <1>6. Steady(s, held) /\ HandOffOK(held) /\ held \in SessionType
    <2>1. Steady(final, HoldScene(final, "HOME")) /\ HandOffOK(HoldScene(final, "HOME"))
          /\ HoldScene(final, "HOME") \in SessionType
      BY <1>5, PartsSteady, ScenesSame, SameKeeps
    <2> QED
      BY <1>5, <2>1, SteadyTrans
  <1> HIDE DEF held
  <1>7. Steady(held, left) /\ HandOffOK(left)
    <2>1. Steady(held, RequestClose(held, a)) /\ HandOffOK(RequestClose(held, a))
      BY <1>1, <1>6, CloseSteady, CloseSame, SameKeeps
    <2>2. Steady(held, LeaveApp(held, FALSE)) /\ HandOffOK(LeaveApp(held, FALSE))
      BY <1>6, LeaveSteady, LeaveSame, SameKeeps
    <2> QED
      BY <2>1, <2>2
  <1> HIDE DEF left
  <1>8. Steady(s, SendActive(left)) /\ Named(SendActive(left))
    BY <1>6, <1>7, SendTells, SteadyTrans
  <1> QED
    BY <1>3, <1>4, <1>8

\* reap_process() of the launcher and of applications.
LEMMA ReapedSteady ==
  ASSUME NEW s, HandOffOK(s), Named(s), cover \in CoverType
  PROVE  Steady(s, Reaped(s)) /\ Named(Reaped(s))
  <1>1. Steady(s, ReapedLauncher(s)) /\ Named(ReapedLauncher(s))
    <2>1. CASE ~s.launcher.dead
      BY <2>1, SteadySame DEF ReapedLauncher, SameTold
    <2>2. CASE s.launcher.dead
      <3> DEFINE n == IF s.launcher.closing THEN s.failures ELSE s.failures + 1
                 t == [s EXCEPT !.launcher = NoLauncher, !.client = NoClient, !.failures = n]
      <3>1. s \in SessionType
        BY DEF HandOffOK
      <3>2. ReapedLauncher(s) = t
        BY <2>2, <3>1 DEF ReapedLauncher, SessionType
      <3>3. ~NoLauncher.fd
        BY DEF NoLauncher
      <3> HIDE DEF n
      <3>4. /\ t.launcher = NoLauncher /\ t.task = s.task /\ t.held = s.held /\ t.late = s.late
            /\ t.gaveUp = s.gaveUp
        BY <3>1 DEF SessionType
      <3> HIDE DEF t
      <3> QED
        BY <3>2, <3>3, <3>4 DEF Steady, Eased, Calm, Named, Stuck
    <2> QED
      BY <2>1, <2>2
  <1>2. ASSUME NEW r, HandOffOK(r), Named(r), NEW apps \in SUBSET Apps
        PROVE  Steady(r, ReapedApps(r, apps)) /\ Named(ReapedApps(r, apps))
    <2> DEFINE dead == {a \in apps : r.task[a].dead}
               ended == IF r.app \in dead /\ r.pending = NoApp THEN FinishLaunch(r) ELSE r
               tasks == [a \in Apps |-> IF a \in dead THEN NoProcess(a) ELSE r.task[a]]
               front == IF r.app \in dead THEN NoApp ELSE r.app
               t == [ended EXCEPT !.task = tasks, !.app = front]
    <2>1. r \in SessionType
      BY <1>2 DEF HandOffOK
    <2>2. ReapedApps(r, apps) = IF dead = {} THEN r ELSE SendActive(t)
      BY DEF ReapedApps
    <2>3. tasks \in [Apps -> ProcessType] /\ front \in MaybeApp
      BY <2>1, Processes DEF SessionType, MaybeApp
    <2>4. \A a \in Apps : tasks[a] = r.task[a] \/ (~tasks[a].shown /\ ~tasks[a].drawn)
      <3>1. \A a \in Apps : ~NoProcess(a).shown /\ ~NoProcess(a).drawn
        BY DEF NoProcess, Fresh
      <3> QED
        BY <3>1
    <2> HIDE DEF tasks, front
    <2>5. Steady(r, r)
      BY SteadySame DEF SameTold
    <2>6. /\ ended \in SessionType /\ SameTold(r, ended) /\ ended.failures = r.failures
          /\ ended.task = r.task /\ Steady(r, ended)
      BY <2>1, <2>5, FinishLaunchSame, PartsSteady DEF SameTold
    <2> HIDE DEF ended
    <2>7. /\ t \in SessionType /\ SameTold(ended, t) /\ t.failures = ended.failures
          /\ t.task = tasks /\ t.held = ended.held /\ t.late = ended.late
      BY <2>3, <2>6 DEF SessionType, SameTold
    <2> HIDE DEF t
    <2>8. Steady(ended, t)
      BY <2>4, <2>6, <2>7 DEF Steady, Eased, Calm, SameTold, Stuck
    <2>9. HandOffOK(t)
      <3>1. HandOffOK(ended)
        BY <1>2, <2>6, SameKeeps
      <3> QED
        BY <2>7, <3>1, SameKeeps
    <2>10. Steady(r, SendActive(t)) /\ Named(SendActive(t))
      BY <2>6, <2>8, <2>9, SendTells, SteadyTrans
    <2> QED
      BY <1>2, <2>2, <2>5, <2>10
  <1> DEFINE r == ReapedLauncher(s)
             q == ReapedApps(r, Apps \ {s.app})
  <1>3. Reaped(s) = ReapedApps(q, Apps)
    BY DEF Reaped
  <1>4. HandOffOK(r) /\ Steady(s, r) /\ Named(r)
    BY <1>1, ReapedLauncherOK
  <1> HIDE DEF r
  <1>5. HandOffOK(q) /\ Steady(r, q) /\ Named(q)
    BY <1>2, <1>4, ReapedAppsOK
  <1> HIDE DEF q
  <1>6. Steady(q, ReapedApps(q, Apps)) /\ Named(ReapedApps(q, Apps))
    BY <1>2, <1>5
  <1> QED
    BY <1>3, <1>4, <1>5, <1>6, SteadyTrans

\* The pending application comes in front, unseen.
LEMMA StartPendingSteady ==
  ASSUME NEW s, HandOffOK(s), Named(s), cover \in CoverType, NEW starts \in Starts
  PROVE  Steady(s, StartPending(s, starts)) /\ Named(StartPending(s, starts))
  <1> DEFINE a == s.pending
             cleared == [s EXCEPT !.pending = NoApp]
             failed == FinishLaunch(cleared)
             kept == [s EXCEPT !.task[a].shown = FALSE, !.late = FALSE]
             new == [s EXCEPT !.task[a] = Fresh(a), !.retained = FALSE]
             begun == IF s.task[a].up THEN kept ELSE new
             t == [begun EXCEPT !.app = a, !.pending = NoApp]
  <1>1. s \in SessionType
    BY DEF HandOffOK
  <1>2. \/ StartPending(s, starts) \in {s, CloseLauncher(s)}
        \/ ~App(s).up /\ StartPending(s, starts) \in {failed, SendActive(failed)}
        \/ a # NoApp /\ StartPending(s, starts) = SendActive(t)
    BY DEF StartPending
  <1>6. ASSUME ~App(s).up
        PROVE  /\ Steady(s, failed) /\ Named(failed)
               /\ Steady(s, SendActive(failed)) /\ Named(SendActive(failed))
    <2>1. /\ cleared \in SessionType /\ SameTold(s, cleared) /\ cleared.failures = s.failures
          /\ cleared.task = s.task /\ cleared.held = s.held /\ cleared.late = s.late
          /\ cleared.app = s.app
      BY <1>1 DEF SessionType, SameTold, MaybeApp
    <2> HIDE DEF cleared
    <2>2. /\ failed \in SessionType /\ HandOffOK(failed) /\ Steady(cleared, failed)
          /\ SameTold(cleared, failed) /\ failed.task = s.task /\ failed.app = s.app
      BY <2>1, FinishLaunchSame, PartsSteady, SameKeeps
    <2> HIDE DEF failed
    <2>3. Steady(s, failed)
      BY <2>1, <2>2, SteadySame, SteadyTrans
    <2>4. NamedApp(s) = NoApp /\ NamedApp(failed) = NoApp
      BY <1>6, <2>2 DEF NamedApp, AppAnnounced, AppInForeground, IsRunning, App
    <2>5. SameTold(s, failed)
      BY <2>1, <2>2 DEF SameTold
    <2>6. Steady(failed, SendActive(failed)) /\ Named(SendActive(failed))
      BY <2>2, SendTells
    <2> QED
      BY <2>3, <2>4, <2>5, <2>6, NamedSame, SteadyTrans
  <1>3. Steady(s, s)
    BY SteadySame DEF SameTold
  <1>4. Steady(s, CloseLauncher(s)) /\ Named(CloseLauncher(s))
    <2>1. SameTold(s, CloseLauncher(s))
      BY <1>1, CloseSame DEF MaybeApp
    <2>2. Steady(s, CloseLauncher(s)) /\ NamedApp(CloseLauncher(s)) = NamedApp(s)
      BY <1>1, PartsSteady
    <2> QED
      BY <2>1, <2>2, NamedSame
  <1>5. ASSUME a # NoApp PROVE Steady(s, SendActive(t)) /\ Named(SendActive(t))
    <2>1. a \in Apps /\ s.task[a] \in ProcessType
      BY <1>1, <1>5 DEF SessionType, MaybeApp
    <2> DEFINE hidden == [s.task[a] EXCEPT !.shown = FALSE]
               tasks == IF s.task[a].up THEN [s.task EXCEPT ![a] = hidden]
                        ELSE [s.task EXCEPT ![a] = Fresh(a)]
    <2>2. hidden \in ProcessType /\ ~hidden.shown /\ hidden.drawn = s.task[a].drawn
          /\ hidden.leaving = s.task[a].leaving
      BY <2>1 DEF ProcessType
    <2>3. Fresh(a) \in ProcessType /\ ~Fresh(a).shown /\ ~Fresh(a).drawn
      BY Processes DEF Fresh
    <2>4. /\ kept \in SessionType /\ SameTold(s, kept) /\ kept.failures = s.failures
          /\ kept.task = [s.task EXCEPT ![a] = hidden] /\ kept.held = s.held /\ ~kept.late
      <3>1. [s.task EXCEPT ![a] = hidden] \in [Apps -> ProcessType]
        BY <1>1, <2>1, <2>2 DEF SessionType
      <3> QED
        BY <1>1, <3>1 DEF SessionType, SameTold
    <2>5. /\ new \in SessionType /\ SameTold(s, new) /\ new.failures = s.failures
          /\ new.task = [s.task EXCEPT ![a] = Fresh(a)] /\ new.held = s.held
          /\ new.late = s.late
      <3>1. [s.task EXCEPT ![a] = Fresh(a)] \in [Apps -> ProcessType]
        BY <1>1, <2>1, <2>3 DEF SessionType
      <3> QED
        BY <1>1, <3>1 DEF SessionType, SameTold
    <2>6. \A b \in Apps :
             \/ tasks[b] = s.task[b]
             \/ ~tasks[b].shown /\ ~tasks[b].drawn
             \/ ~tasks[b].shown /\ tasks[b].drawn = s.task[b].drawn
                /\ tasks[b].leaving = s.task[b].leaving
      <3> HIDE DEF hidden
      <3> QED
        BY <1>1, <2>1, <2>2, <2>3 DEF SessionType
    <2> HIDE DEF kept, new, hidden
    <2>7. /\ begun \in SessionType /\ SameTold(s, begun) /\ begun.failures = s.failures
          /\ begun.task = tasks /\ begun.held = s.held /\ (begun.late => s.late)
      BY <2>4, <2>5
    <2> HIDE DEF begun, tasks
    <2>8. /\ t \in SessionType /\ SameTold(begun, t) /\ t.failures = begun.failures
          /\ t.task = begun.task /\ t.held = begun.held /\ t.late = begun.late
      BY <2>1, <2>7 DEF SessionType, SameTold, MaybeApp
    <2> HIDE DEF t
    <2>9. HandOffOK(t)
      <3>1. HandOffOK(begun)
        BY <2>7, SameKeeps
      <3> QED
        BY <2>8, <3>1, SameKeeps
    <2>10. Steady(s, begun)
      BY <2>6, <2>7 DEF Steady, Eased, Calm, SameTold, Stuck
    <2>11. Steady(begun, t)
      BY <2>8, SteadySame
    <2> QED
      BY <2>9, <2>10, <2>11, SendTells, SteadyTrans
  <1> HIDE DEF t, failed
  <1> QED
    BY <1>2, <1>3, <1>4, <1>5, <1>6

\* A new launcher has shown nothing and was told nothing.
LEMMA StartLauncherSteady ==
  ASSUME NEW s, HandOffOK(s), Named(s), NEW starts \in Starts
  PROVE  Steady(s, StartLauncher(s, starts)) /\ Named(StartLauncher(s, starts))
  <1> DEFINE new == [NoLauncher EXCEPT !.up = TRUE]
             t == [s EXCEPT !.launcher = new, !.named = FALSE, !.wait = FALSE, !.draws = FALSE,
                            !.sent = FALSE, !.gaveUp = FALSE, !.refused = FALSE]
             f == [s EXCEPT !.failures = @ + 1]
  <1>1. s \in SessionType
    BY DEF HandOffOK
  <1>2. StartLauncher(s, starts) \in {s, t, f}
    BY DEF StartLauncher
  <1>3. Steady(s, t) /\ Named(t)
    <2>1. ~new.fd
      BY DEF NoLauncher
    <2> HIDE DEF new
    <2>2. /\ t.launcher = new /\ t.task = s.task /\ t.held = s.held /\ t.late = s.late
          /\ ~t.gaveUp
      BY <1>1 DEF SessionType
    <2> HIDE DEF t
    <2> QED
      BY <2>1, <2>2 DEF Steady, Eased, Calm, Named, Stuck
  <1>4. Steady(s, f) /\ Named(f)
    <2>1. /\ SameTold(s, f) /\ f.task = s.task /\ f.held = s.held /\ f.late = s.late
          /\ f.app = s.app /\ f.starting = s.starting /\ f.acked = s.acked
      BY <1>1 DEF SessionType, SameTold
    <2> HIDE DEF f
    <2> QED
      BY <2>1, SteadySame, FrontSame, NamedSame
  <1>5. Steady(s, s)
    BY SteadySame DEF SameTold
  <1> HIDE DEF t, f
  <1> QED
    BY <1>2, <1>3, <1>4, <1>5

\* What advance() does before hand_off().
Managed(s, starts) ==
    LauncherWorks(CloseLauncherAlone(StartLauncher(StartPending(LaunchTimeout(Reaped(s)), starts), starts)))

\* Until hand_off() nothing appears or goes.
LEMMA ManagedSteady ==
  ASSUME NEW s, HandOffOK(s), Named(s), cover \in CoverType, NEW starts \in Starts
  PROVE  /\ HandOffOK(Managed(s, starts)) /\ Named(Managed(s, starts))
         /\ Steady(s, Managed(s, starts))
  <1> DEFINE s1 == Reaped(s)
             s2 == LaunchTimeout(s1)
             s3 == StartPending(s2, starts)
             s4 == StartLauncher(s3, starts)
             s5 == CloseLauncherAlone(s4)
             s6 == LauncherWorks(s5)
  <1>0. Managed(s, starts) = s6
    BY DEF Managed
  <1>1. HandOffOK(s1) /\ Named(s1) /\ Steady(s, s1)
    BY ReapedOK, ReapedSteady
  <1> HIDE DEF s1
  <1>2. HandOffOK(s2) /\ Named(s2) /\ Steady(s1, s2)
    <2>1. Steady(s1, s1)
      BY SteadySame DEF SameTold
    <2> QED
      BY <1>1, <2>1, CancelLaunchOK, CancelLaunchSteady DEF LaunchTimeout
  <1> HIDE DEF s2
  <1>3. HandOffOK(s3) /\ Named(s3) /\ Steady(s2, s3)
    BY <1>2, StartPendingOK, StartPendingSteady
  <1> HIDE DEF s3
  <1>4. HandOffOK(s4) /\ Named(s4) /\ Steady(s3, s4) /\ s4 \in SessionType
    BY <1>3, StartLauncherOK, StartLauncherSteady DEF HandOffOK
  <1> HIDE DEF s4
  <1>5. HandOffOK(s5) /\ Named(s5) /\ Steady(s4, s5) /\ s5 \in SessionType
    <2>1. Steady(s4, s4)
      BY SteadySame DEF SameTold
    <2>2. /\ CloseLauncher(s4) \in SessionType /\ SameTold(s4, CloseLauncher(s4))
          /\ CloseLauncher(s4).failures = s4.failures
      BY <1>4, CloseSame DEF MaybeApp
    <2>3. Steady(s4, CloseLauncher(s4)) /\ NamedApp(CloseLauncher(s4)) = NamedApp(s4)
      BY <1>4, PartsSteady
    <2>4. HandOffOK(CloseLauncher(s4)) /\ Named(CloseLauncher(s4))
      BY <1>4, <2>2, <2>3, SameKeeps, NamedSame
    <2> QED
      BY <1>4, <2>1, <2>2, <2>3, <2>4 DEF CloseLauncherAlone
  <1> HIDE DEF s5
  <1>6. HandOffOK(s6) /\ Named(s6) /\ Steady(s5, s6)
    <2> DEFINE t == [s5 EXCEPT !.failures = 0]
    <2>1. /\ t \in SessionType /\ SameTold(s5, t) /\ t.failures = 0
          /\ t.task = s5.task /\ t.held = s5.held /\ t.late = s5.late
          /\ t.app = s5.app /\ t.starting = s5.starting /\ t.acked = s5.acked
      BY <1>5, HandOffAssumption DEF SessionType, SameTold, HandOffAssumption
    <2>2. s6 \in {s5, t}
      BY DEF LauncherWorks
    <2> HIDE DEF t
    <2>3. HandOffOK(t) /\ Steady(s5, t) /\ Named(t)
      BY <1>5, <2>1, SameKeeps, SteadySame, FrontSame, NamedSame
    <2>4. Steady(s5, s5)
      BY SteadySame DEF SameTold
    <2> QED
      BY <1>5, <2>2, <2>3, <2>4
  <1> HIDE DEF s6
  <1>7. Steady(s, s3)
    BY <1>1, <1>2, <1>3, SteadyTrans
  <1>8. Steady(s, s6)
    BY <1>4, <1>5, <1>6, <1>7, SteadyTrans
  <1> QED
    BY <1>0, <1>6, <1>8

\* Steps of hand_off(), switch_mode() and settle_held_scene(): ACTIVE, what it
\* names, the launcher and the rest of the applications stay as they are.
Kept(s, t) ==
    /\ t.launcher = s.launcher /\ t.client = s.client /\ t.last = s.last /\ t.sent = s.sent
    /\ t.named = s.named /\ NamedApp(t) = NamedApp(s) /\ t.failures = s.failures
    /\ t.refused = s.refused
    /\ \A b \in Apps : t.task[b].drawn = s.task[b].drawn /\ t.task[b].mode = s.task[b].mode

\* No answer is given up.
Waited(s, t) == t.wait = s.wait /\ t.draws = s.draws /\ t.gaveUp = s.gaveUp

\* A swap of the application in front that has what it waits for.
Swaps(s) == SwapDue(s) /\ (SwapWaits(s) => s.late)

\* What was named does not change with these steps.
LEMMA KeptNamed ==
  ASSUME NEW s, NEW t, Named(s), Kept(s, t)
  PROVE  Named(t)
  BY DEF Named, Kept

\* hand_off() shows or parks the application in front, and nothing else; it gives
\* an answer up only when its time is over.
LEMMA HandOffEffect ==
  ASSUME NEW s, HandOffOK(s), NEW t, t = HandOff(s)
  PROVE  /\ Kept(s, t) /\ t.held = s.held
         /\ ~s.late => Waited(s, t)
         /\ \A b \in Apps : ~s.task[b].shown /\ t.task[b].shown
                               => b = s.app /\ Swaps(s) /\ ~App(s).leaving
         /\ \A b \in Apps : s.task[b].leaving /\ ~t.task[b].leaving
                               => b = s.app /\ Swaps(s) /\ App(s).leaving
  <1> DEFINE given == IF SwapWaits(s) THEN GiveUp(s) ELSE s
             shows == [given EXCEPT !.task[s.app].shown = TRUE]
  <1>1. s \in SessionType
    BY DEF HandOffOK
  <1>2. t = IF ~SwapDue(s) \/ (SwapWaits(s) /\ ~s.late) THEN s
            ELSE IF ~App(s).leaving THEN shows
            ELSE IF App(s).park THEN ParkApp(given) ELSE RequestClose(given, s.app)
    BY DEF HandOff
  <1>3. /\ given \in SessionType /\ given.task = s.task /\ given.app = s.app
        /\ given.launcher = s.launcher /\ given.client = s.client /\ given.last = s.last
        /\ given.sent = s.sent /\ given.named = s.named /\ given.failures = s.failures
        /\ given.held = s.held /\ given.starting = s.starting /\ given.acked = s.acked
        /\ given.refused = s.refused
        /\ ~SwapWaits(s) => given = s
    <2>1. /\ GiveUp(s).task = s.task /\ GiveUp(s).app = s.app /\ GiveUp(s) \in SessionType
          /\ GiveUp(s).launcher = s.launcher /\ GiveUp(s).client = s.client
          /\ GiveUp(s).last = s.last /\ GiveUp(s).sent = s.sent /\ GiveUp(s).named = s.named
          /\ GiveUp(s).failures = s.failures /\ GiveUp(s).held = s.held
          /\ GiveUp(s).starting = s.starting /\ GiveUp(s).acked = s.acked
          /\ GiveUp(s).refused = s.refused
      BY <1>1 DEF GiveUp, SessionType
    <2> QED
      BY <1>1, <2>1
  <1> HIDE DEF given
  <1>4. CASE ~SwapDue(s) \/ (SwapWaits(s) /\ ~s.late)
    BY <1>2, <1>4 DEF Kept, Waited
  <1>5. CASE ~(~SwapDue(s) \/ (SwapWaits(s) /\ ~s.late))
    <2>1. Swaps(s) /\ s.app \in Apps /\ App(s) = s.task[s.app] /\ s.task[s.app] \in ProcessType
      BY <1>1, <1>5, Front DEF Swaps, SwapDue, IsRunning, SessionType
    <2>2. ~s.late => given = s
      BY <1>3, <1>5
    <2>3. CASE ~App(s).leaving
      <3> DEFINE process == [s.task[s.app] EXCEPT !.shown = TRUE]
      <3>1. /\ process \in ProcessType /\ process.drawn = s.task[s.app].drawn
            /\ process.mode = s.task[s.app].mode /\ process.leaving = s.task[s.app].leaving
            /\ process.up = s.task[s.app].up /\ process.closing = s.task[s.app].closing
            /\ process.ready = s.task[s.app].ready
        BY <2>1 DEF ProcessType
      <3>2. shows = [given EXCEPT !.task = [s.task EXCEPT ![s.app] = process]]
        BY <1>3 DEF SessionType
      <3> HIDE DEF process
      <3>3. t = shows
        BY <1>2, <1>5, <2>3
      <3>4. /\ t.launcher = s.launcher /\ t.client = s.client /\ t.last = s.last
            /\ t.sent = s.sent /\ t.named = s.named /\ t.failures = s.failures
            /\ t.held = s.held /\ t.starting = s.starting /\ t.acked = s.acked
            /\ t.refused = s.refused /\ t.app = s.app /\ t.wait = given.wait /\ t.draws = given.draws
            /\ t.gaveUp = given.gaveUp
            /\ t.task = [s.task EXCEPT ![s.app] = process]
        BY <1>3, <3>2, <3>3 DEF SessionType
      <3>5. \A b \in Apps : t.task[b] = IF b = s.app THEN process ELSE s.task[b]
        BY <1>1, <2>1, <3>4 DEF SessionType
      <3>6. App(t) = process
        BY <2>1, <3>4, <3>5, HandOffAssumption DEF App, HandOffAssumption
      <3>7. NamedApp(t) = NamedApp(s)
        BY <2>1, <3>1, <3>4, <3>6, NamedAppSame
      <3>8. Kept(s, t)
        BY <3>1, <3>4, <3>5, <3>7 DEF Kept
      <3> QED
        BY <2>1, <2>2, <2>3, <3>1, <3>4, <3>5, <3>8 DEF Waited
    <2>4. CASE App(s).leaving /\ App(s).park
      <3> DEFINE parked == [s.task[s.app] EXCEPT !.shown = FALSE, !.leaving = FALSE, !.park = FALSE]
      <3>1. ~parked.shown /\ parked.drawn = s.task[s.app].drawn /\ parked.mode = s.task[s.app].mode
        BY <2>1 DEF ProcessType
      <3>2. t = [given EXCEPT !.task = [s.task EXCEPT ![s.app] = parked], !.app = NoApp]
        <4>1. t = ParkApp(given)
          BY <1>2, <1>5, <2>4
        <4>2. given.app \in Apps
          BY <1>3, <2>1
        <4> QED
          BY <1>3, <4>1, <4>2, ParkIs
      <3> HIDE DEF parked
      <3>3. /\ t.launcher = s.launcher /\ t.client = s.client /\ t.last = s.last
            /\ t.sent = s.sent /\ t.named = s.named /\ t.failures = s.failures
            /\ t.held = s.held /\ t.refused = s.refused /\ t.app = NoApp /\ t.wait = given.wait
            /\ t.draws = given.draws /\ t.gaveUp = given.gaveUp
            /\ t.task = [s.task EXCEPT ![s.app] = parked]
        BY <1>3, <3>2 DEF SessionType
      <3>4. \A b \in Apps : t.task[b] = IF b = s.app THEN parked ELSE s.task[b]
        BY <1>1, <2>1, <3>3 DEF SessionType
      <3>5. NamedApp(t) = NoApp /\ NamedApp(s) = NoApp
        BY <2>4, <3>3 DEF NamedApp, AppAnnounced, AppInForeground
      <3>6. Kept(s, t)
        BY <3>1, <3>3, <3>4, <3>5 DEF Kept
      <3> QED
        BY <2>1, <2>2, <2>4, <3>1, <3>3, <3>4, <3>6 DEF Waited
    <2>5. CASE App(s).leaving /\ ~App(s).park
      <3>1. t = RequestClose(given, s.app) /\ s.app \in MaybeApp /\ App(given) = App(s)
        BY <1>2, <1>3, <1>5, <2>1, <2>5 DEF MaybeApp, App
      <3>2. /\ SameTold(given, t) /\ t.held = given.held /\ NamedApp(t) = NamedApp(given)
            /\ t.failures = given.failures
            /\ \A b \in Apps : /\ t.task[b].shown = s.task[b].shown
                               /\ t.task[b].leaving = s.task[b].leaving
                               /\ t.task[b].mode = s.task[b].mode
        <4>1. /\ SameTold(given, t) /\ t.failures = given.failures
          BY <1>3, <3>1, CloseSame
        <4>2. /\ t.held = given.held /\ NamedApp(t) = NamedApp(given)
              /\ \A b \in Apps : /\ t.task[b].shown = given.task[b].shown
                                 /\ t.task[b].leaving = given.task[b].leaving
                                 /\ t.task[b].mode = given.task[b].mode
          BY <1>3, <2>5, <3>1, CloseSteady
        <4> QED
          BY <1>3, <4>1, <4>2
      <3>3. NamedApp(given) = NamedApp(s)
        BY <1>3, FrontSame
      <3> DEFINE process == [s.task[s.app] EXCEPT !.closing = TRUE]
      <3>4. process.drawn = s.task[s.app].drawn
        BY <2>1 DEF ProcessType
      <3>5. t = [given EXCEPT !.task = [s.task EXCEPT ![s.app] = process]] \/ t = given
        BY <1>3, <3>1 DEF RequestClose, SessionType
      <3> HIDE DEF process
      <3>6. t.launcher = s.launcher /\ t.task \in {s.task, [s.task EXCEPT ![s.app] = process]}
        BY <1>3, <3>5 DEF SessionType
      <3>7. \A b \in Apps : t.task[b].drawn = s.task[b].drawn
        BY <1>1, <2>1, <3>4, <3>6 DEF SessionType
      <3>8. Kept(s, t)
        BY <1>3, <3>2, <3>3, <3>6, <3>7 DEF Kept, SameTold
      <3> QED
        BY <1>3, <2>2, <3>2, <3>8 DEF Waited, SameTold
    <2> QED
      BY <2>3, <2>4, <2>5
  <1> QED
    BY <1>4, <1>5

\* switch_mode() configures the application in front; it gives an answer up only
\* for one that is shown.
LEMMA SwitchModeEffect ==
  ASSUME NEW s, HandOffOK(s), NEW t, t = SwitchMode(s)
  PROVE  /\ Kept(s, t) /\ t.held = s.held /\ App(t).shown = App(s).shown
         /\ ~App(s).shown => Waited(s, t)
         /\ \A b \in Apps : /\ t.task[b].shown = s.task[b].shown
                            /\ t.task[b].leaving = s.task[b].leaving
  <1> DEFINE given == IF ModeWaits(s) THEN GiveUp(s) ELSE s
             process == [s.task[s.app] EXCEPT !.configured = App(s).requested]
             u == [given EXCEPT !.task = [s.task EXCEPT ![s.app] = process]]
  <1>1. s \in SessionType
    BY DEF HandOffOK
  <1>2. /\ given \in SessionType /\ given.task = s.task /\ given.app = s.app
        /\ given.launcher = s.launcher /\ given.client = s.client /\ given.last = s.last
        /\ given.sent = s.sent /\ given.named = s.named /\ given.failures = s.failures
        /\ given.held = s.held /\ given.starting = s.starting /\ given.acked = s.acked
        /\ given.refused = s.refused
        /\ ~App(s).shown => given = s
    <2>1. /\ GiveUp(s).task = s.task /\ GiveUp(s).app = s.app /\ GiveUp(s) \in SessionType
          /\ GiveUp(s).launcher = s.launcher /\ GiveUp(s).client = s.client
          /\ GiveUp(s).last = s.last /\ GiveUp(s).sent = s.sent /\ GiveUp(s).named = s.named
          /\ GiveUp(s).failures = s.failures /\ GiveUp(s).held = s.held
          /\ GiveUp(s).starting = s.starting /\ GiveUp(s).acked = s.acked
          /\ GiveUp(s).refused = s.refused
      BY <1>1 DEF GiveUp, SessionType
    <2>2. ModeWaits(s) => App(s).shown
      BY DEF ModeWaits
    <2> QED
      BY <1>1, <2>1, <2>2
  <1>3. t = s \/ (AppInForeground(s) /\ t = u)
    <2>1. [given EXCEPT !.task[s.app].configured = App(s).requested] = u
      BY <1>2 DEF SessionType
    <2> HIDE DEF u
    <2> QED
      BY <2>1 DEF SwitchMode
  <1> HIDE DEF given
  <1>4. CASE t = s
    BY <1>4 DEF Kept, Waited
  <1>5. CASE AppInForeground(s) /\ t = u
    <2>1. s.app \in Apps /\ App(s) = s.task[s.app] /\ s.task[s.app] \in ProcessType
      BY <1>1, <1>5, Front DEF AppInForeground, IsRunning, SessionType
    <2>2. /\ process.drawn = s.task[s.app].drawn /\ process.mode = s.task[s.app].mode
          /\ process.leaving = s.task[s.app].leaving /\ process.up = s.task[s.app].up
          /\ process.closing = s.task[s.app].closing /\ process.ready = s.task[s.app].ready
          /\ process.shown = s.task[s.app].shown
      BY <2>1 DEF ProcessType
    <2> HIDE DEF process
    <2>3. /\ t.launcher = s.launcher /\ t.client = s.client /\ t.last = s.last
          /\ t.sent = s.sent /\ t.named = s.named /\ t.failures = s.failures
          /\ t.held = s.held /\ t.starting = s.starting /\ t.acked = s.acked
          /\ t.refused = s.refused /\ t.app = s.app /\ t.wait = given.wait /\ t.draws = given.draws
          /\ t.gaveUp = given.gaveUp
          /\ t.task = [s.task EXCEPT ![s.app] = process]
      BY <1>2, <1>5 DEF SessionType
    <2>4. \A b \in Apps : t.task[b] = IF b = s.app THEN process ELSE s.task[b]
      BY <1>1, <2>1, <2>3 DEF SessionType
    <2>5. App(t) = process
      BY <2>1, <2>3, <2>4, HandOffAssumption DEF App, HandOffAssumption
    <2>6. NamedApp(t) = NamedApp(s)
      BY <2>1, <2>2, <2>3, <2>5, NamedAppSame
    <2>7. Kept(s, t)
      BY <2>2, <2>3, <2>4, <2>6 DEF Kept
    <2> QED
      BY <1>2, <2>1, <2>2, <2>3, <2>4, <2>5, <2>7 DEF Waited
  <1> QED
    BY <1>3, <1>4, <1>5

\* settle_held_scene() lets a held scene go over a launcher that draws no bars, or
\* over the application it was held for.
LEMMA SettleEffect ==
  ASSUME NEW s \in SessionType, NEW t, t = SettleHeldScene(s), Uncovered
  PROVE  /\ Kept(s, t) /\ Waited(s, t) /\ t.task = s.task /\ t.app = s.app
         /\ \/ t.held = s.held
            \/ App(s).shown
            \/ s.failures >= MaxFailures
            \/ LauncherReady(s) /\ ~s.wait /\ ~s.draws
  <1>1. t = s \/ t = ReleaseScene(s, {"LAUNCH", "HOME"})
    BY DEF SettleHeldScene
  <1>2. /\ t.launcher = s.launcher /\ t.client = s.client /\ t.last = s.last
        /\ t.sent = s.sent /\ t.named = s.named /\ t.failures = s.failures
        /\ t.starting = s.starting /\ t.acked = s.acked /\ t.app = s.app
        /\ t.refused = s.refused /\ t.task = s.task /\ t.wait = s.wait /\ t.draws = s.draws /\ t.gaveUp = s.gaveUp
    BY <1>1 DEF ReleaseScene, SessionType
  <1>3. NamedApp(t) = NamedApp(s)
    BY <1>2, FrontSame
  <1>4. \/ t = s
        \/ App(s).shown
        \/ s.failures >= MaxFailures
        \/ LauncherReady(s) /\ ~s.wait /\ ~s.draws
    BY DEF SettleHeldScene
  <1> QED
    BY <1>2, <1>3, <1>4 DEF Kept, Waited

\* What CleanSwap says of a step.
Clean(s, t) ==
    /\ \A a \in Apps : ~s.task[a].shown /\ t.task[a].shown /\ t.task[a].mode = "integrated"
                          => s.client.view = a
    /\ \A a \in Apps : s.task[a].leaving /\ t.task[a].drawn /\ ~t.task[a].leaving
                          => s.client.view = NoApp
    /\ s.held # {} /\ t.held = {} /\ ~App(t).shown /\ t.failures < MaxFailures
          => s.client.view = NoApp

\* An answer that was not given up is true: the launcher's surface tells whether it
\* draws bars, and for whom.
LEMMA SettledView ==
  ASSUME NEW s, HandOffOK(s), s.launcher.up, s.sent, ~s.wait, ~s.gaveUp
  PROVE  s.client.view = s.last.app /\ s.draws = (s.last.app # NoApp)
  BY DEF HandOffOK, Told, AnswersTrue, OnSurface, NewestLast

\* hand_off() and what follows it in advance().
LEMMA SwapClean ==
  ASSUME NEW s, HandOffOK(s), Named(s), cover \in CoverType, Uncovered, ~s.late, ~s.gaveUp,
         Stuck(s), NEW u, u = SettleHeldScene(SwitchMode(HandOff(s))),
         NEW t, t = IF u.last.cover # cover THEN SendActive(u) ELSE u,
         Connected(t), ~t.refused
  PROVE  Clean(s, t) /\ s.launcher.fd
  <1> DEFINE p == HandOff(s)
             q == SwitchMode(p)
  <1>1. HandOffOK(p) /\ Kept(s, p) /\ Waited(s, p) /\ p.held = s.held
    BY HandOffKeeps, HandOffEffect
  <1>2. \A b \in Apps : /\ ~s.task[b].shown /\ p.task[b].shown
                              => b = s.app /\ Swaps(s) /\ ~App(s).leaving
                        /\ s.task[b].leaving /\ ~p.task[b].leaving
                              => b = s.app /\ Swaps(s) /\ App(s).leaving
    BY HandOffEffect
  <1> HIDE DEF p
  <1>3. /\ HandOffOK(q) /\ q \in SessionType /\ Kept(p, q) /\ q.held = p.held
        /\ App(q).shown = App(p).shown
        /\ ~App(p).shown => Waited(p, q)
    BY <1>1, SwitchModeOK, SwitchModeEffect DEF HandOffOK
  <1>4. \A b \in Apps : q.task[b].shown = p.task[b].shown /\ q.task[b].leaving = p.task[b].leaving
    BY <1>1, SwitchModeEffect
  <1>5. u = SettleHeldScene(q)
    BY DEF p, q
  <1> HIDE DEF q
  <1>6. /\ HandOffOK(u) /\ Kept(q, u) /\ u.task = q.task /\ u.app = q.app
        /\ \/ u.held = q.held
           \/ App(q).shown
           \/ q.failures >= MaxFailures
           \/ LauncherReady(q) /\ ~q.wait /\ ~q.draws
    BY <1>3, <1>5, SettleEffect, SettleSame, SameKeeps
  <1>7. /\ t.task = u.task /\ t.app = u.app /\ t.held = u.held /\ t.launcher = u.launcher
        /\ t.failures = u.failures /\ t.client.view = u.client.view
        /\ u.last.cover # cover /\ u.launcher.fd => Len(u.client.inbox) # InboxMax
        /\ u.last.cover = cover => ~u.refused
    BY <1>6, SendTells
  <1>8. Connected(s) /\ s.launcher.fd /\ s.launcher.up
    BY <1>1, <1>3, <1>6, <1>7 DEF Kept, Connected, IsRunning
  <1>9. s.sent /\ s.last.app = NamedApp(s)
    <2>1. ~s.refused
      BY <1>1, <1>3, <1>6, <1>7, <1>8 DEF Kept, Stuck
    <2> QED
      BY <1>8, <2>1 DEF Named
  <1>10. ASSUME NEW a \in Apps, ~s.task[a].shown, t.task[a].shown,
                t.task[a].mode = "integrated"
         PROVE  s.client.view = a
    <2>1. a = s.app /\ Swaps(s) /\ ~App(s).leaving
      BY <1>2, <1>4, <1>6, <1>7, <1>10
    <2>2. ~SwapWaits(s) /\ SwapDue(s)
      BY <2>1 DEF Swaps
    <2>3. App(s) = s.task[a]
      BY <2>1, HandOffAssumption DEF App, HandOffAssumption
    <2>4. App(s).mode = "integrated"
      BY <1>1, <1>3, <1>6, <1>7, <1>10, <2>3 DEF Kept
    <2>5. ~s.wait /\ s.draws
      BY <1>8, <2>1, <2>2, <2>4 DEF SwapWaits, ShowingWaits, Settled
    <2>6. NamedApp(s) = a
      BY <2>1, <2>2 DEF NamedApp, AppAnnounced, AppInForeground, SwapDue
    <2> QED
      BY <1>8, <1>9, <2>5, <2>6, SettledView
  <1>11. ASSUME NEW a \in Apps, s.task[a].leaving, ~t.task[a].leaving
         PROVE  s.client.view = NoApp
    <2>1. a = s.app /\ Swaps(s) /\ App(s).leaving
      BY <1>2, <1>4, <1>6, <1>7, <1>11
    <2>2. ~s.wait /\ ~s.draws
      BY <1>8, <2>1 DEF Swaps, SwapWaits, LeavingWaits, Settled
    <2> QED
      BY <1>8, <1>9, <2>2, SettledView
  <1>12. ASSUME s.held # {}, t.held = {}, ~App(t).shown, t.failures < MaxFailures
         PROVE  s.client.view = NoApp
    <2>1. App(t) = App(q) /\ t.failures = q.failures
      BY <1>6, <1>7 DEF App, Kept
    <2>2. ~(q.failures >= MaxFailures)
      <3>1. q.failures \in Nat /\ MaxFailures \in Nat /\ q.failures < MaxFailures
        BY <1>3, <1>12, <2>1, HandOffAssumption DEF SessionType, HandOffAssumption
      <3> QED
        BY <3>1
    <2>3. LauncherReady(q) /\ ~q.wait /\ ~q.draws
      BY <1>1, <1>3, <1>6, <1>7, <1>12, <2>1, <2>2
    <2>4. Waited(s, q)
      BY <1>1, <1>3, <1>12, <2>1 DEF Waited
    <2> QED
      BY <1>8, <1>9, <2>3, <2>4, SettledView DEF Waited
  <1> QED
    BY <1>8, <1>10, <1>11, <1>12 DEF Clean

\* advance() keeps what was named.
LEMMA AdvancedNamed ==
  ASSUME NEW s, HandOffOK(s), Named(s), cover \in CoverType, NEW starts \in Starts
  PROVE  Named(Advanced(s, starts))
  <1> DEFINE m == Managed(s, starts)
             p == HandOff(m)
             q == SwitchMode(p)
             u == SettleHeldScene(q)
  <1>0. Advanced(s, starts) = IF u.last.cover # cover THEN SendActive(u) ELSE u
    BY DEF Advanced, ManageProcesses, Managed
  <1>1. HandOffOK(m) /\ Named(m)
    BY ManagedSteady
  <1> HIDE DEF m
  <1>2. HandOffOK(p) /\ Named(p)
    BY <1>1, HandOffKeeps, HandOffEffect, KeptNamed
  <1> HIDE DEF p
  <1>3. HandOffOK(q) /\ Named(q) /\ q \in SessionType
    BY <1>2, SwitchModeOK, SwitchModeEffect, KeptNamed DEF HandOffOK
  <1> HIDE DEF q
  <1>4. HandOffOK(u) /\ Named(u)
    <2>1. HandOffOK(u) /\ SameTold(q, u)
      BY <1>3, SettleSame, SameKeeps
    <2>2. /\ u.task = q.task /\ u.app = q.app /\ u.starting = q.starting /\ u.acked = q.acked
      BY <1>3 DEF SettleHeldScene, ReleaseScene, SessionType
    <2> QED
      BY <1>3, <2>1, <2>2, FrontSame, NamedSame
  <1> HIDE DEF u
  <1> QED
    BY <1>0, <1>4, SendTells

\* advance() after a step that is no swap.
LEMMA AdvancedClean ==
  ASSUME NEW o, NEW s, HandOffOK(s), Named(s), Eased(o, s), cover \in CoverType, Uncovered,
         NEW starts \in Starts, ~o.late, ~o.gaveUp, ~o.refused,
         NEW t, t = Advanced(s, starts), Connected(t), ~t.refused
  PROVE  Clean(o, t)
  <1> DEFINE m == Managed(s, starts)
             u == SettleHeldScene(SwitchMode(HandOff(m)))
  <1>0. t = IF u.last.cover # cover THEN SendActive(u) ELSE u
    BY DEF Advanced, ManageProcesses, Managed
  <1>1. HandOffOK(m) /\ Named(m) /\ Steady(s, m)
    BY ManagedSteady
  <1> HIDE DEF m
  <1>2. Eased(o, m)
    BY <1>1, SteadyTrans
  <1>3. ~m.late /\ ~m.gaveUp /\ Stuck(m)
    BY <1>2 DEF Eased, Stuck
  <1>4. Clean(m, t) /\ m.launcher.fd
    BY <1>0, <1>1, <1>3, SwapClean
  <1>5. \A a \in Apps : t.task[a].drawn => m.task[a].drawn
    <2> DEFINE p == HandOff(m)
               q == SwitchMode(p)
    <2>1. HandOffOK(p) /\ \A a \in Apps : p.task[a].drawn = m.task[a].drawn
      BY <1>1, HandOffKeeps, HandOffEffect DEF Kept
    <2> HIDE DEF p
    <2>2. /\ HandOffOK(q) /\ q \in SessionType
          /\ \A a \in Apps : q.task[a].drawn = p.task[a].drawn
      BY <2>1, SwitchModeOK, SwitchModeEffect DEF Kept, HandOffOK
    <2>3. u = SettleHeldScene(q)
      BY DEF p, q
    <2> HIDE DEF q
    <2>4. HandOffOK(u) /\ u.task = q.task
      BY <2>2, <2>3, SettleSame, SettleEffect, SameKeeps
    <2>5. t.task = u.task
      BY <1>0, <2>4, SendTells
    <2> QED
      BY <2>1, <2>2, <2>4, <2>5
  <1> QED
    BY <1>2, <1>4, <1>5 DEF Clean, Eased, Calm

-----------------------------------------------------------------------------
(* Swaps: the actions. *)

\* A step that neither shows nor parks is no swap.
LEMMA CalmClean ==
  ASSUME NEW s, NEW t, Calm(s, t)
  PROVE  Clean(s, t)
  BY DEF Calm, Clean

\* A change of one process that does not concern the screen.
LEMMA TaskQuiet ==
  ASSUME NEW s \in SessionType, Named(s), NEW a \in Apps, NEW process \in ProcessType,
         process.up = s.task[a].up, process.closing = s.task[a].closing,
         process.ready = s.task[a].ready, process.drawn = s.task[a].drawn,
         process.shown = s.task[a].shown, process.leaving = s.task[a].leaving,
         NEW t, SameTold(s, t), t.app = s.app, t.starting = s.starting, t.acked = s.acked,
         t.held = s.held, t.task = [s.task EXCEPT ![a] = process]
  PROVE  Calm(s, t) /\ Named(t)
  <1>1. \A b \in Apps : t.task[b] = IF b = a THEN process ELSE s.task[b]
    BY DEF SessionType
  <1>2. Calm(s, t)
    BY <1>1 DEF Calm
  <1>3. NamedApp(t) = NamedApp(s)
    <2>1. CASE s.app = a
      <3>1. App(t) = process /\ App(s) = s.task[a]
        BY <1>1, <2>1, HandOffAssumption DEF App, HandOffAssumption
      <3> QED
        BY <3>1, NamedAppSame
    <2>2. CASE s.app # a
      <3>1. App(t) = App(s)
        BY <1>1, <2>2 DEF App, SessionType, MaybeApp
      <3> QED
        BY <3>1, NamedAppSame
    <2> QED
      BY <2>1, <2>2
  <1> QED
    BY <1>2, <1>3, NamedSame

\* Messages of applications and of the user, and their timers.
LEMMA AppSwaps ==
  ASSUME HandOffInv, Named(session), NEW a \in Apps,
         \/ Launch(a) \/ Exit(a) \/ Ready(a) \/ ActivationAck(a) \/ Die(a) \/ ModeLate(a)
         \/ \E mode \in Modes : Mode(a, mode)
         \/ \E enabled \in BOOLEAN : Busy(a, enabled)
  PROVE  Calm(session, session') /\ Named(session')
  <1>0. /\ HandOffOK(session) /\ cover \in CoverType /\ session \in SessionType
        /\ session.task[a] \in ProcessType
    BY DEF HandOffInv, HandOffOK, SessionType
  <1>a. ASSUME NEW s, HandOffOK(s), Steady(session, s), session' = SendActive(s)
        PROVE  Calm(session, session') /\ Named(session')
    <2>1. Steady(s, session') /\ Named(session')
      BY <1>0, <1>a, SendTells
    <2>2. Steady(session, session')
      BY <1>a, <2>1, SteadyTrans
    <2> QED
      BY <2>1, <2>2 DEF Steady, Eased
  <1>b. ASSUME NEW s \in SessionType, HandOffOK(s), Steady(session, s)
        PROVE  HandOffOK(FinishActivation(s)) /\ Steady(session, FinishActivation(s))
    <2>1. HandOffOK(FinishActivation(s))
      BY <1>b, SettleSame, SameKeeps
    <2>2. Steady(s, FinishActivation(s))
      BY <1>b, SettleSame, SteadySame
    <2> QED
      BY <1>b, <2>1, <2>2, SteadyTrans
  <1>1. CASE Launch(a)
    BY <1>0, <1>1, BeginLaunchSteady DEF Launch, Steady, Eased
  <1>2. CASE Exit(a)
    BY <1>0, <1>2, UserCloseSteady DEF Exit, Steady, Eased
  <1>3. CASE Ready(a)
    <2> DEFINE process == [session.task[a] EXCEPT !.ready = TRUE]
               marked == [session EXCEPT !.task[a].ready = TRUE,
                                         !.late = @ /\ ~session.task[a].drawn]
    <2>1. /\ process \in ProcessType /\ process.shown = session.task[a].shown
          /\ process.drawn = session.task[a].drawn /\ process.leaving = session.task[a].leaving
          /\ (session.late /\ ~session.task[a].drawn) \in BOOLEAN
      BY <1>0 DEF ProcessType, SessionType
    <2>2. [session.task EXCEPT ![a] = process] \in [Apps -> ProcessType]
      BY <1>0, <2>1 DEF SessionType
    <2>3. /\ marked \in SessionType /\ SameTold(session, marked)
          /\ marked.failures = session.failures
          /\ marked.task = [session.task EXCEPT ![a] = process] /\ marked.held = session.held
          /\ (marked.late => session.late)
      BY <1>0, <2>1, <2>2 DEF SessionType, SameTold
    <2>4. session' = SendActive(IF a = session.app THEN FinishActivation(marked) ELSE marked)
      BY <1>3 DEF Ready
    <2> HIDE DEF marked, process
    <2>5. \A b \in Apps : marked.task[b] = IF b = a THEN process ELSE session.task[b]
      BY <1>0, <2>3 DEF SessionType
    <2>6. HandOffOK(marked) /\ Steady(session, marked)
      <3>1. HandOffOK(marked)
        BY <1>0, <2>3, SameKeeps
      <3>2. Steady(session, marked)
        BY <2>1, <2>3, <2>5 DEF Steady, Eased, Calm, SameTold, Stuck
      <3> QED
        BY <3>1, <3>2
    <2>7. HandOffOK(FinishActivation(marked)) /\ Steady(session, FinishActivation(marked))
      BY <1>b, <2>3, <2>6
    <2> QED
      BY <1>a, <2>4, <2>6, <2>7
  <1>4. CASE ActivationAck(a)
    <2> DEFINE t == [session EXCEPT !.acked = TRUE]
    <2>1. /\ t \in SessionType /\ SameTold(session, t) /\ t.failures = session.failures
          /\ t.task = session.task /\ t.held = session.held /\ t.late = session.late
      BY <1>0 DEF SessionType, SameTold
    <2>2. session' = SendActive(FinishActivation(t))
      BY <1>4 DEF ActivationAck
    <2> HIDE DEF t
    <2>3. HandOffOK(t) /\ Steady(session, t)
      BY <1>0, <2>1, SameKeeps, SteadySame
    <2>4. HandOffOK(FinishActivation(t)) /\ Steady(session, FinishActivation(t))
      BY <1>b, <2>1, <2>3
    <2> QED
      BY <1>a, <2>2, <2>4
  <1>5. CASE Die(a)
    <2> DEFINE process == [session.task[a] EXCEPT !.dead = TRUE]
               t == Ended(session.task[a])
    <2>1. session' = [t EXCEPT !.task[a].dead = TRUE]
      BY <1>5 DEF Die
    <2>2. /\ t \in SessionType /\ SameTold(session, t) /\ t.task = session.task
          /\ t.app = session.app /\ t.starting = session.starting /\ t.acked = session.acked
          /\ t.held = session.held
      <3>1. session.crashes + 1 \in Nat
        BY <1>0 DEF SessionType
      <3> QED
        BY <1>0, <3>1 DEF Ended, SessionType, SameTold
    <2> HIDE DEF t
    <2>3. /\ process \in ProcessType /\ process.up = session.task[a].up
          /\ process.closing = session.task[a].closing /\ process.ready = session.task[a].ready
          /\ process.drawn = session.task[a].drawn /\ process.shown = session.task[a].shown
          /\ process.leaving = session.task[a].leaving
      BY <1>0 DEF ProcessType
    <2>4. /\ SameTold(session, session') /\ session'.app = session.app
          /\ session'.starting = session.starting /\ session'.acked = session.acked
          /\ session'.held = session.held
          /\ session'.task = [session.task EXCEPT ![a] = process]
      BY <2>1, <2>2 DEF SessionType, SameTold
    <2> HIDE DEF process
    <2> QED
      BY <1>0, <2>3, <2>4, TaskQuiet
  <1>6. CASE ModeLate(a)
    <2> DEFINE process == [session.task[a] EXCEPT !.late = TRUE]
    <2>1. session' = [session EXCEPT !.task[a].late = TRUE]
      BY <1>6 DEF ModeLate
    <2>2. /\ process \in ProcessType /\ process.up = session.task[a].up
          /\ process.closing = session.task[a].closing /\ process.ready = session.task[a].ready
          /\ process.drawn = session.task[a].drawn /\ process.shown = session.task[a].shown
          /\ process.leaving = session.task[a].leaving
      BY <1>0 DEF ProcessType
    <2>3. /\ SameTold(session, session') /\ session'.app = session.app
          /\ session'.starting = session.starting /\ session'.acked = session.acked
          /\ session'.held = session.held
          /\ session'.task = [session.task EXCEPT ![a] = process]
      BY <1>0, <2>1 DEF SessionType, SameTold
    <2> HIDE DEF process
    <2> QED
      BY <1>0, <2>2, <2>3, TaskQuiet
  <1>7. ASSUME NEW mode \in Modes, Mode(a, mode) PROVE Calm(session, session') /\ Named(session')
    <2> DEFINE process == [session.task[a] EXCEPT !.requested = mode, !.late = FALSE,
                                                  !.placed = TRUE]
    <2>1. session' = [session EXCEPT !.task[a] = process, !.modes = @ + 1]
      BY <1>7 DEF Mode
    <2>2. /\ process \in ProcessType /\ process.up = session.task[a].up
          /\ process.closing = session.task[a].closing /\ process.ready = session.task[a].ready
          /\ process.drawn = session.task[a].drawn /\ process.shown = session.task[a].shown
          /\ process.leaving = session.task[a].leaving
      BY <1>0, <1>7 DEF ProcessType
    <2>3. session' = [session EXCEPT !.task = [session.task EXCEPT ![a] = process],
                                     !.modes = session.modes + 1]
      BY <1>0, <2>1 DEF SessionType
    <2> HIDE DEF process
    <2>4. /\ SameTold(session, session') /\ session'.app = session.app
          /\ session'.starting = session.starting /\ session'.acked = session.acked
          /\ session'.held = session.held
          /\ session'.task = [session.task EXCEPT ![a] = process]
      BY <1>0, <2>3 DEF SessionType, SameTold
    <2> QED
      BY <1>0, <2>2, <2>4, TaskQuiet
  <1>8. ASSUME NEW enabled \in BOOLEAN, Busy(a, enabled)
        PROVE  Calm(session, session') /\ Named(session')
    <2> DEFINE on == [session EXCEPT !.busy = "yes", !.busies = @ + 1,
                                     !.retained = @ /\ LaunchInProgress(session)]
               off == [session EXCEPT !.busy = "finishing"]
    <2>1. session' = SendActive(IF enabled THEN on ELSE off)
      BY <1>8 DEF Busy
    <2>2. /\ on \in SessionType /\ SameTold(session, on) /\ on.failures = session.failures
          /\ on.task = session.task /\ on.held = session.held /\ on.late = session.late
      <3> DEFINE n == session.busies + 1
                 kept == session.retained /\ LaunchInProgress(session)
      <3>1. n \in Nat /\ kept \in BOOLEAN
        BY <1>0 DEF SessionType
      <3>2. on = [session EXCEPT !.busy = "yes", !.busies = n, !.retained = kept]
        BY <1>0 DEF SessionType
      <3> HIDE DEF n, kept
      <3> QED
        BY <1>0, <3>1, <3>2 DEF SessionType, SameTold
    <2>3. /\ off \in SessionType /\ SameTold(session, off) /\ off.failures = session.failures
          /\ off.task = session.task /\ off.held = session.held /\ off.late = session.late
      BY <1>0 DEF SessionType, SameTold
    <2> HIDE DEF on, off
    <2>4. HandOffOK(on) /\ Steady(session, on) /\ HandOffOK(off) /\ Steady(session, off)
      BY <1>0, <2>2, <2>3, SameKeeps, SteadySame
    <2> QED
      BY <1>a, <2>1, <2>4
  <1> QED
    BY <1>1, <1>2, <1>3, <1>4, <1>5, <1>6, <1>7, <1>8

\* The launcher is told of the application in front, and the step is a clean swap or
\* none, unless a timer decides or an ACTIVE was refused.
Swapped ==
    /\ Named(session')
    /\ Uncovered /\ ~session.late /\ ~session.gaveUp /\ Connected(session')
          /\ ~session.refused /\ ~session'.refused => Clean(session, session')

\* Actions that end in advance().
LEMMA AdvanceSwaps ==
  ASSUME NEW s, HandOffOK(s), Named(s), Eased(session, s), cover \in CoverType, Advances(s)
  PROVE  Swapped
  <1>1. PICK starts \in Starts : session' = Advanced(s, starts)
    BY DEF Advances
  <1>2. Named(session')
    BY <1>1, AdvancedNamed
  <1>3. ASSUME Uncovered, ~session.late, ~session.gaveUp, Connected(session'),
               ~session.refused, ~session'.refused
        PROVE  Clean(session, session')
    BY <1>1, <1>3, AdvancedClean
  <1> QED
    BY <1>2, <1>3 DEF Swapped

\* The first buffer of an application, and one of a new size.
LEMMA CommitSwaps ==
  ASSUME HandOffInv, Named(session), NEW a \in Apps, NEW mode \in Modes, Commit(a, mode)
  PROVE  Swapped
  <1> DEFINE process == session.task[a]
             first == a = session.app /\ ~process.drawn
             places == a = session.app /\ process.placed /\ process.mode # mode
             idles == a = session.app /\ process.ready /\ session.busy = "finishing"
             sized == IF places THEN [session EXCEPT !.task[a].mode = mode] ELSE session
             calm == [sized EXCEPT !.busy = "no"]
             idle == IF ~idles THEN sized
                     ELSE IF session.starting THEN calm ELSE FinishLaunch(sized)
             marked == [idle EXCEPT !.task[a].drawn = TRUE, !.late = FALSE]
             drawn == IF first THEN SendActive(FinishActivation(marked))
                      ELSE IF idles THEN SendActive(idle) ELSE idle
  <1>0. /\ HandOffOK(session) /\ cover \in CoverType /\ session \in SessionType
        /\ process \in ProcessType
    BY DEF HandOffInv, HandOffOK, SessionType
  <1>1. Advances(drawn)
    BY DEF Commit
  <1>2. /\ sized \in SessionType /\ HandOffOK(sized) /\ Named(sized) /\ Eased(session, sized)
        /\ \A b \in Apps : sized.task[b].leaving = session.task[b].leaving
    <2> DEFINE placed == [process EXCEPT !.mode = mode]
               t == [session EXCEPT !.task[a].mode = mode]
    <2>1. /\ placed \in ProcessType /\ placed.up = process.up
          /\ placed.closing = process.closing /\ placed.ready = process.ready
          /\ placed.drawn = process.drawn /\ placed.shown = process.shown
          /\ placed.leaving = process.leaving
      BY <1>0 DEF ProcessType
    <2>2. [session.task EXCEPT ![a] = placed] \in [Apps -> ProcessType]
      BY <1>0, <2>1 DEF SessionType
    <2>3. /\ t \in SessionType /\ SameTold(session, t) /\ t.failures = session.failures
          /\ t.task = [session.task EXCEPT ![a] = placed] /\ t.app = session.app
          /\ t.starting = session.starting /\ t.acked = session.acked /\ t.held = session.held
          /\ t.late = session.late
      BY <1>0, <2>2 DEF SessionType, SameTold
    <2>4. sized \in {session, t}
      BY DEF t
    <2>5. \A b \in Apps : t.task[b].leaving = session.task[b].leaving
      BY <1>0, <2>1, <2>3 DEF SessionType
    <2> HIDE DEF t, placed, sized, process
    <2>6. HandOffOK(t)
      BY <1>0, <2>3, SameKeeps
    <2>7. Calm(session, t) /\ Named(t)
      <3>1. process = session.task[a]
        BY DEF process
      <3> QED
        BY <1>0, <2>1, <2>3, <3>1, TaskQuiet
    <2>8. Eased(session, t)
      BY <2>3, <2>7 DEF Eased, SameTold, Stuck
    <2>9. Eased(session, session)
      BY DEF Eased, Calm
    <2> QED
      BY <1>0, <2>3, <2>4, <2>5, <2>6, <2>7, <2>8, <2>9
  <1> HIDE DEF sized
  <1>8. /\ idle \in SessionType /\ HandOffOK(idle) /\ Eased(session, idle)
        /\ \A b \in Apps : idle.task[b].leaving = session.task[b].leaving
        /\ ~idles => idle = sized
    <2>1. /\ calm \in SessionType /\ SameTold(sized, calm) /\ calm.failures = sized.failures
          /\ calm.task = sized.task /\ calm.held = sized.held /\ calm.late = sized.late
      BY <1>2 DEF SessionType, SameTold
    <2>2. idle \in {sized, calm, FinishLaunch(sized)} /\ (~idles => idle = sized)
      OBVIOUS
    <2> HIDE DEF calm, idle, idles
    <2>3. HandOffOK(calm) /\ Steady(sized, calm)
      BY <1>2, <2>1, SameKeeps, SteadySame
    <2>4. /\ FinishLaunch(sized) \in SessionType /\ HandOffOK(FinishLaunch(sized))
          /\ Steady(sized, FinishLaunch(sized)) /\ FinishLaunch(sized).task = sized.task
      BY <1>2, FinishLaunchSame, PartsSteady, SameKeeps
    <2> QED
      BY <1>2, <2>1, <2>2, <2>3, <2>4, SteadyTrans
  <1> HIDE DEF idle
  <1>3. /\ marked \in SessionType /\ SameTold(idle, marked) /\ marked.failures = idle.failures
        /\ Eased(session, marked)
    <2> DEFINE painted == [idle.task[a] EXCEPT !.drawn = TRUE]
    <2>1. idle.task[a] \in ProcessType
      BY <1>8 DEF SessionType
    <2>2. /\ painted \in ProcessType /\ painted.shown = idle.task[a].shown
          /\ painted.leaving = idle.task[a].leaving
      BY <2>1 DEF ProcessType
    <2>3. [idle.task EXCEPT ![a] = painted] \in [Apps -> ProcessType]
      BY <1>8, <2>2 DEF SessionType
    <2>4. /\ marked \in SessionType /\ SameTold(idle, marked)
          /\ marked.failures = idle.failures /\ marked.held = idle.held /\ ~marked.late
          /\ marked.task = [idle.task EXCEPT ![a] = painted]
      BY <1>8, <2>3 DEF SessionType, SameTold
    <2> HIDE DEF painted, marked
    <2>5. \A b \in Apps : marked.task[b] = IF b = a THEN painted ELSE idle.task[b]
      BY <1>8, <2>4 DEF SessionType
    <2>6. Calm(session, idle)
      BY <1>8 DEF Eased
    <2>7. \A b \in Apps : marked.task[b].shown => session.task[b].shown
      BY <2>2, <2>5, <2>6 DEF Calm
    <2>8. \A b \in Apps : session.task[b].leaving => marked.task[b].leaving
      BY <1>8, <2>2, <2>5
    <2>9. Calm(session, marked)
      BY <2>4, <2>6, <2>7, <2>8 DEF Calm
    <2> QED
      BY <1>8, <2>4, <2>9 DEF Eased, SameTold, Stuck
  <1> HIDE DEF marked
  <1> DEFINE done == FinishActivation(marked)
             told == SendActive(done)
  <1>4. HandOffOK(done) /\ Eased(session, done)
    <2>1. HandOffOK(marked)
      BY <1>8, <1>3, SameKeeps
    <2>2. HandOffOK(done)
      BY <1>3, <2>1, SettleSame, SameKeeps
    <2>3. Steady(marked, done)
      BY <1>3, SettleSame, SteadySame
    <2> QED
      BY <1>3, <2>2, <2>3, SteadyTrans
  <1> HIDE DEF done
  <1>5. HandOffOK(told) /\ Eased(session, told) /\ Named(told)
    <2>1. HandOffOK(told)
      BY <1>0, <1>4, SendOK
    <2>2. Steady(done, told) /\ Named(told)
      BY <1>0, <1>4, SendTells
    <2> QED
      BY <1>4, <2>1, <2>2, SteadyTrans
  <1>6. drawn = told \/ drawn = SendActive(idle) \/ (~idles /\ drawn = idle)
    BY DEF done, told
  <1> HIDE DEF told
  <1>9. HandOffOK(SendActive(idle)) /\ Named(SendActive(idle)) /\ Eased(session, SendActive(idle))
    BY <1>0, <1>8, SendOK, SendTells, SteadyTrans
  <1>7. HandOffOK(drawn) /\ Named(drawn) /\ Eased(session, drawn)
    BY <1>2, <1>5, <1>6, <1>8, <1>9
  <1> HIDE DEF drawn
  <1> QED
    BY <1>0, <1>1, <1>7, AdvanceSwaps

\* A step without a swap.
LEMMA CalmSwaps ==
  ASSUME Calm(session, session'), Named(session')
  PROVE  Swapped
  BY CalmClean DEF Swapped

\* The red key, news, covers and time.
LEMMA ManagerSwaps ==
  ASSUME HandOffInv, Named(session),
         \/ Home \/ Tell \/ Advance \/ SwapLate \/ LaunchLate
         \/ \E c \in CoverType : ChangeCover(c)
  PROVE  Swapped
  <1>0. HandOffOK(session) /\ cover \in CoverType /\ session \in SessionType
    BY DEF HandOffInv, HandOffOK
  <1>1. CASE Home
    <2> DEFINE t == IF LaunchInProgress(session) THEN CancelLaunch(session) ELSE ReturnHome(session)
    <2>1. Advances(t)
      BY <1>1 DEF Home
    <2>2. HandOffOK(t) /\ Named(t) /\ Eased(session, t)
      BY <1>0, CancelLaunchOK, ReturnHomeOK, CancelLaunchSteady, ReturnHomeSteady DEF Steady
    <2> HIDE DEF t
    <2> QED
      BY <1>0, <2>1, <2>2, AdvanceSwaps
  <1>2. CASE Advance
    <2>1. Eased(session, session)
      BY DEF Eased, Calm
    <2> QED
      BY <1>0, <1>2, <2>1, AdvanceSwaps DEF Advance
  <1>3. CASE Tell
    <2> DEFINE t == [session EXCEPT !.rest = @ + 1]
    <2>1. /\ t \in SessionType /\ SameTold(session, t) /\ t.failures = session.failures
          /\ t.task = session.task /\ t.held = session.held /\ t.late = session.late
      BY <1>0 DEF SessionType, SameTold
    <2>2. session' = SendActive(t)
      BY <1>3 DEF Tell
    <2> HIDE DEF t
    <2>3. HandOffOK(t) /\ Steady(session, t)
      BY <1>0, <2>1, SameKeeps, SteadySame
    <2>4. Named(session') /\ Steady(t, session')
      BY <1>0, <2>2, <2>3, SendTells
    <2>5. Steady(session, session')
      BY <2>3, <2>4, SteadyTrans
    <2> QED
      BY <2>4, <2>5, CalmSwaps DEF Steady, Eased
  <1>4. ASSUME SameTold(session, session'), session'.task = session.task,
               session'.app = session.app, session'.starting = session.starting,
               session'.acked = session.acked, session'.held = session.held
        PROVE  Swapped
    <2>1. Named(session')
      BY <1>4, FrontSame, NamedSame
    <2>2. Calm(session, session')
      BY <1>4 DEF Calm
    <2> QED
      BY <2>1, <2>2, CalmSwaps
  <1>5. CASE SwapLate
    <2>1. session' = [session EXCEPT !.late = TRUE]
      BY <1>5 DEF SwapLate
    <2> QED
      BY <1>0, <1>4, <2>1 DEF SessionType, SameTold
  <1>6. CASE LaunchLate
    <2>1. session' = [session EXCEPT !.expired = TRUE]
      BY <1>6 DEF LaunchLate
    <2> QED
      BY <1>0, <1>4, <2>1 DEF SessionType, SameTold
  <1>7. ASSUME NEW c \in CoverType, ChangeCover(c) PROVE Swapped
    <2>1. session' = [session EXCEPT !.covers = @ + 1]
      BY <1>7 DEF ChangeCover
    <2> QED
      BY <1>0, <1>4, <2>1 DEF SessionType, SameTold
  <1> QED
    BY <1>1, <1>2, <1>3, <1>5, <1>6, <1>7

\* The launcher connects, has its first frame or ends.
LEMMA LauncherSwaps ==
  ASSUME HandOffInv, LauncherHello \/ LauncherFramed \/ LauncherDies
  PROVE  Swapped
  <1>0. /\ HandOffOK(session) /\ cover \in CoverType /\ session \in SessionType
        /\ session.launcher \in LauncherType
        /\ (session.launcher.fd => session.launcher.up)
    BY DEF HandOffInv, HandOffOK, SessionType, LauncherOK
  <1>1. ASSUME NEW l \in LauncherType, session.launcher.up, l.up,
               session' = SendActive([session EXCEPT !.launcher = l])
        PROVE  Swapped
    <2> DEFINE t == [session EXCEPT !.launcher = l]
    <2>1. t.task = session.task /\ t.held = session.held
      BY <1>0 DEF SessionType
    <2>2. HandOffOK(t)
      BY <1>0, <1>1, LauncherAs
    <2> HIDE DEF t
    <2>3. Named(session') /\ session'.task = t.task /\ session'.held = t.held
      BY <1>0, <1>1, <2>2, SendTells DEF t
    <2>4. Calm(session, session')
      BY <2>1, <2>3 DEF Calm
    <2> QED
      BY <2>3, <2>4, CalmSwaps
  <1>2. CASE LauncherHello
    <2> DEFINE l == [session.launcher EXCEPT !.fd = TRUE]
    <2>1. session' = SendActive([session EXCEPT !.launcher.fd = TRUE]) /\ session.launcher.up
      BY <1>2 DEF LauncherHello
    <2>2. l \in LauncherType /\ l.up
      BY <1>0, <2>1 DEF LauncherType
    <2>3. [session EXCEPT !.launcher = l] = [session EXCEPT !.launcher.fd = TRUE]
      BY <1>0 DEF SessionType
    <2> HIDE DEF l
    <2> QED
      BY <1>1, <2>1, <2>2, <2>3
  <1>3. CASE LauncherFramed
    <2> DEFINE l == [session.launcher EXCEPT !.ready = TRUE]
    <2>1. session' = SendActive([session EXCEPT !.launcher.ready = TRUE]) /\ session.launcher.up
      BY <1>0, <1>3 DEF LauncherFramed
    <2>2. l \in LauncherType /\ l.up
      BY <1>0, <2>1 DEF LauncherType
    <2>3. [session EXCEPT !.launcher = l] = [session EXCEPT !.launcher.ready = TRUE]
      BY <1>0 DEF SessionType
    <2> HIDE DEF l
    <2> QED
      BY <1>1, <2>1, <2>2, <2>3
  <1>4. CASE LauncherDies
    <2> DEFINE s == Ended(session.launcher)
               l == [session.launcher EXCEPT !.dead = TRUE, !.fd = FALSE]
    <2>1. session' = [s EXCEPT !.launcher.dead = TRUE, !.launcher.fd = FALSE]
      BY <1>4 DEF LauncherDies
    <2>2. /\ s \in SessionType /\ s.launcher = session.launcher
          /\ s.task = session.task /\ s.held = session.held
      <3>1. session.crashes + 1 \in Nat
        BY <1>0 DEF SessionType
      <3> QED
        BY <1>0, <3>1 DEF Ended, SessionType
    <2> HIDE DEF s
    <2>3. ~l.fd
      BY <1>0 DEF LauncherType
    <2>4. session' = [s EXCEPT !.launcher = l]
      BY <2>1, <2>2 DEF SessionType
    <2> HIDE DEF l
    <2>5. /\ session'.task = session.task /\ session'.held = session.held
          /\ session'.launcher = l
      BY <2>2, <2>4 DEF SessionType
    <2>6. Named(session')
      BY <2>3, <2>5 DEF Named
    <2>7. Calm(session, session')
      BY <2>5 DEF Calm
    <2> QED
      BY <2>6, <2>7, CalmSwaps
  <1> QED
    BY <1>2, <1>3, <1>4

\* The launcher draws and commits, and its answers are read.
LEMMA ClientSwaps ==
  ASSUME HandOffInv, Named(session), Client \/ ActiveAck
  PROVE  Swapped
  <1>0. session \in SessionType
    BY DEF HandOffInv, HandOffOK
  <1>2. /\ session'.task = session.task /\ session'.app = session.app
        /\ session'.starting = session.starting /\ session'.acked = session.acked
        /\ session'.held = session.held /\ session'.launcher = session.launcher
        /\ session'.sent = session.sent /\ session'.last = session.last
        /\ session'.refused = session.refused
    <2>1. CASE Client
      BY <1>0, <2>1 DEF Client, Draw, CommitFrame, FrameAckDone, SessionType
    <2>2. CASE ActiveAck
      <3> DEFINE t == [session EXCEPT !.client.acks = Tail(@)]
                 ack == Head(session.client.acks)
      <3>1. session' = Acked(t, ack)
        BY <2>2 DEF ActiveAck
      <3>2. t = [session EXCEPT !.client = [session.client EXCEPT !.acks = Tail(@)]]
        BY <1>0 DEF SessionType
      <3> QED
        BY <1>0, <3>1, <3>2 DEF Acked, SessionType
    <2> QED
      BY <2>1, <2>2
  <1>3. NamedApp(session') = NamedApp(session)
    BY <1>2, FrontSame
  <1>4. Named(session')
    BY <1>2, <1>3 DEF Named
  <1>5. Calm(session, session')
    BY <1>2 DEF Calm
  <1> QED
    BY <1>4, <1>5, CalmSwaps

\* Every step.
LEMMA NextSwaps ==
  ASSUME HandOffInv, Named(session), [Next]_vars
  PROVE  Swapped
  <1>1. CASE UNCHANGED vars
    <2>1. session' = session
      BY <1>1 DEF vars
    <2>2. Calm(session, session')
      BY <2>1 DEF Calm
    <2>3. Named(session')
      BY <2>1
    <2> QED
      BY <2>2, <2>3, CalmSwaps
  <1>2. CASE Next
    <2>1. ASSUME NEW a \in Apps,
                 \/ Launch(a) \/ Exit(a) \/ Ready(a) \/ ActivationAck(a) \/ Die(a)
                 \/ ModeLate(a) \/ \E mode \in Modes : Mode(a, mode)
                 \/ \E enabled \in BOOLEAN : Busy(a, enabled)
          PROVE  Swapped
      BY <2>1, AppSwaps, CalmSwaps
    <2>2. ASSUME NEW a \in Apps, NEW mode \in Modes, Commit(a, mode) PROVE Swapped
      BY <2>2, CommitSwaps
    <2> QED
      BY <1>2, <2>1, <2>2, ManagerSwaps, LauncherSwaps, ClientSwaps DEF Next, CoverType
  <1> QED
    BY <1>1, <1>2

\* "Swaps the foreground application and the launcher in one repaint": for any number
\* of applications and faults and any size of the launcher's socket, an integrated
\* application appears only between bars drawn for it, a retained one goes only when
\* they are gone, and a held frame is let go only over a launcher that draws none,
\* unless a timeout decided or the socket refused the newest ACTIVE.  The invariant
\* says that ACTIVE named the application in front or was refused (Named).
THEOREM SwapsAreClean == Spec => CleanSwap
  <1> DEFINE Informed == Named(session)
             Swap == Uncovered /\ Connected(session') /\ ~session.late
                       /\ ~session.gaveUp /\ ~session'.gaveUp
                       /\ ~session.refused /\ ~session'.refused =>
                 /\ \A a \in Apps :
                       LET before == session.task[a]
                           after == session'.task[a]
                       IN /\ (~before.shown /\ after.shown /\ after.mode = "integrated")
                                => session.client.view = a
                          /\ (before.leaving /\ before.park /\ after.drawn /\ ~after.leaving)
                                => session.client.view = NoApp
                 /\ (session.held # {} /\ session'.held = {} /\ ~App(session').shown
                        /\ session'.failures < MaxFailures)
                       => session.client.view = NoApp
  <1>1. Init => HandOffInv /\ Informed
    <2>1. Init => ~session.launcher.fd
      BY DEF Init, NoLauncher
    <2> QED
      BY <2>1, HandOffInit DEF Named
  <1>2. HandOffInv /\ Informed /\ [Next]_vars => HandOffInv' /\ Informed'
    <2> SUFFICES ASSUME HandOffInv, Informed, [Next]_vars PROVE HandOffInv' /\ Informed'
      OBVIOUS
    <2>1. Named(session')
      BY NextSwaps DEF Swapped
    <2> QED
      BY <2>1, HandOffNext
  <1>3. HandOffInv /\ Informed /\ [Next]_vars => [Swap]_vars
    <2> SUFFICES ASSUME HandOffInv, Informed, [Next]_vars PROVE Swap
      BY DEF vars
    <2>1. Swapped
      BY NextSwaps
    <2> QED
      BY <2>1 DEF Swapped, Clean
  <1>4. CleanSwap <=> [][Swap]_vars
    BY DEF CleanSwap
  <1> HIDE DEF Informed, Swap
  <1> QED
    BY <1>1, <1>2, <1>3, <1>4, PTL DEF Spec
=============================================================================
