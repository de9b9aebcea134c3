--------------------------- MODULE SessionHandOff ---------------------------
(***************************************************************************)
(* The swap between an application and the launcher on the screen           *)
(* (fplinux-session/session-core.c): ACTIVE tells the launcher whose bars   *)
(* to draw, ACTIVE_ACK comes back after the commit of that frame, and       *)
(* hand_off() shows or takes away the application with it, or gives up      *)
(* after FPLINUX_SESSION_HANDOFF_MS.  Meanwhile the compositor keeps the    *)
(* old frame (held scenes).                                                 *)
(*                                                                         *)
(* The manager reads messages one by one and then calls advance(); the     *)
(* compositor's calls end in advance() too.  C functions are operators     *)
(* from a session record to a session record.  An ACTIVE's serial is       *)
(* compared only with the newest one, so that messages and answers carry   *)
(* `current': whether no newer ACTIVE has been sent.  SessionTasks has the *)
(* registry, documents and close preparation; here there is one process    *)
(* per application with a record for each, and the scenes of REDRAW and    *)
(* PREPARE_CLOSE, notices and the ringing clock are left out.  The UI      *)
(* library commits whatever the launcher has drawn: submit_frame() may     *)
(* also wait (hidden, mode hold), which is one more behaviour of a         *)
(* launcher that is slow.                                                  *)
(***************************************************************************)
EXTENDS Naturals, Sequences

CONSTANTS
    Apps,            \* installed applications
    Fullscreen,      \* the ones whose entry declares the fullscreen mode
    NoApp,
    MaxFailures,     \* launcher starts that may fail in a row (3)
    InboxMax,        \* ACTIVE messages that the launcher's socket holds
    Scenarios        \* bounds: see Bounds

\* What users, clients and faults may do in a behaviour: the applications they
\* launch, how often, the changes of the rest of ACTIVE (battery, titles, ...),
\* the MODE and BUSY requests, the processes that end unasked and the changes
\* of the cover (lock, display); whether an application's entry or its fork may
\* fail, and whether the launcher may stop answering.
Bounds == [apps : SUBSET Apps, launches : Nat, tells : Nat, modes : Nat, busies : Nat,
           crashes : Nat, covers : Nat, faults : BOOLEAN, hung : BOOLEAN]

ASSUME HandOffAssumption ==
    /\ Fullscreen \subseteq Apps
    /\ NoApp \notin Apps
    /\ MaxFailures \in Nat \ {0}
    /\ InboxMax \in Nat \ {0}
    /\ Scenarios \subseteq Bounds

VARIABLES
    session,         \* struct fplinux_session, and the launcher at the other
                     \* end of its socket (client)
    cover,           \* "none", "locked" or display "off"
    bound            \* the scenario

vars == <<session, cover, bound>>

-----------------------------------------------------------------------------
(* Processes.                                                              *)

Declared(a) == IF a \in Fullscreen THEN "fullscreen" ELSE "integrated"
Modes == {"fullscreen", "integrated"}

\* start_process() of an application.  `dead': it has ended, which waitpid()
\* tells; `late': HANDOFF_MS after mode_ms.
Fresh(a) ==
    [up |-> TRUE, dead |-> FALSE, closing |-> FALSE, ready |-> FALSE, drawn |-> FALSE,
     shown |-> FALSE, leaving |-> FALSE, park |-> FALSE, placed |-> FALSE,
     requested |-> Declared(a), configured |-> Declared(a), mode |-> Declared(a),
     late |-> FALSE]

NoProcess(a) == [Fresh(a) EXCEPT !.up = FALSE]

\* The manager's record of the launcher; fd: it has said HELLO.
NoLauncher == [up |-> FALSE, dead |-> FALSE, closing |-> FALSE, fd |-> FALSE, ready |-> FALSE]

\* The launcher's own state: messages it has not read, the frame it has drawn,
\* the frame it has committed and asked a sync for, the view on its surface
\* and answers that the manager has not read.
NoClient == [inbox |-> <<>>, canvas |-> <<>>, sync |-> <<>>, view |-> NoApp,
             acks |-> <<>>]

App(s) == IF s.app = NoApp THEN NoProcess(NoApp) ELSE s.task[s.app]

IsRunning(process) == process.up /\ ~process.closing

Connected(s) == IsRunning(s.launcher) /\ s.launcher.fd

AppInForeground(s) == IsRunning(App(s)) /\ ~App(s).leaving

AppAnnounced(s) ==
    /\ AppInForeground(s) /\ App(s).drawn /\ App(s).ready
    /\ ~s.starting \/ s.acked

LaunchInProgress(s) == s.starting \/ s.busy # "no"

LauncherOnTop == cover = "locked"

Uncovered == cover = "none"

-----------------------------------------------------------------------------
(* ACTIVE.                                                                 *)

Outdated(frames) == [i \in DOMAIN frames |-> [frames[i] EXCEPT !.current = FALSE]]

Message(s) == [app |-> IF AppAnnounced(s) THEN s.app ELSE NoApp,
               card |-> LaunchInProgress(s), cover |-> cover, rest |-> s.rest]

\* A new serial: older messages, frames and answers no longer match it.
Sent(s) ==
    [s EXCEPT !.last = Message(s), !.sent = TRUE,
              !.named = AppAnnounced(s), !.wait = TRUE, !.gaveUp = FALSE,
              !.refused = FALSE,
              !.client = [inbox |-> Append(Outdated(s.client.inbox),
                                           [app |-> Message(s).app, current |-> TRUE]),
                          canvas |-> Outdated(s.client.canvas),
                          sync |-> Outdated(s.client.sync),
                          view |-> s.client.view,
                          acks |-> Outdated(s.client.acks)]]

\* A repeat is not sent.  A full socket refuses the message, and nobody sends
\* it again: `refused' records that the launcher does not know the newest one.
SendActive(s) ==
    IF ~s.launcher.fd THEN s
    ELSE IF s.sent /\ Message(s) = s.last THEN [s EXCEPT !.refused = FALSE]
    ELSE IF Len(s.client.inbox) = InboxMax THEN [s EXCEPT !.refused = TRUE]
    ELSE Sent(s)

-----------------------------------------------------------------------------
(* Held scenes.                                                            *)

HoldScene(s, scene) == IF Uncovered THEN [s EXCEPT !.held = @ \cup {scene}] ELSE s

ReleaseScene(s, scenes) == [s EXCEPT !.held = @ \ scenes]

LauncherReady(s) == IsRunning(s.launcher) /\ s.launcher.ready /\ s.sent

SettleHeldScene(s) ==
    LET begun == LaunchInProgress(s) \/ s.pending # NoApp
        showsApp == "LAUNCH" \in s.held /\ AppInForeground(s) /\ App(s).shown
        showsLauncher ==
            /\ (LauncherReady(s) /\ ~s.wait /\ ~s.draws) \/ s.failures >= MaxFailures
            /\ ~IsRunning(App(s)) \/ ~App(s).shown
    IN IF ~Uncovered THEN ReleaseScene(s, {"LAUNCH", "HOME"})
       ELSE IF ~begun /\ (showsApp \/ showsLauncher)
       THEN ReleaseScene(s, {"LAUNCH", "HOME"}) ELSE s

-----------------------------------------------------------------------------
(* Leaving and launching.                                                  *)

FinishLaunch(s) ==
    [s EXCEPT !.starting = FALSE, !.acked = FALSE, !.retained = FALSE,
              !.expired = FALSE, !.busy = "no"]

CloseLauncher(s) ==
    IF IsRunning(s.launcher) THEN [s EXCEPT !.launcher.closing = TRUE] ELSE s

RequestClose(s, a) ==
    IF a # NoApp /\ IsRunning(s.task[a])
    THEN [s EXCEPT !.task[a].closing = TRUE] ELSE s

ParkApp(s) ==
    [s EXCEPT !.task[s.app] = [@ EXCEPT !.shown = FALSE, !.leaving = FALSE, !.park = FALSE],
              !.app = NoApp]

LeaveApp(s, retain) ==
    LET held == IF IsRunning(App(s)) /\ App(s).shown /\ "LAUNCH" \notin s.held
                THEN HoldScene(s, "HOME") ELSE s
        finished == IF s.pending = NoApp THEN FinishLaunch(held) ELSE held
        marked == [finished EXCEPT !.task[s.app].park = retain]
    IN IF ~IsRunning(App(s)) \/ App(s).leaving THEN held
       ELSE IF ~App(s).shown \/ ~Uncovered
       THEN IF retain THEN ParkApp(marked) ELSE RequestClose(marked, s.app)
       ELSE [marked EXCEPT !.task[s.app].leaving = TRUE, !.late = FALSE]

BeginLaunch(s, a) ==
    LET begun == SendActive(HoldScene(
                    [s EXCEPT !.pending = a, !.starting = TRUE, !.acked = FALSE,
                              !.busy = "no", !.retained = s.task[a].up,
                              !.launches = @ + 1], "LAUNCH"))
        left == LeaveApp(begun, TRUE)
    IN SendActive(IF a \in Fullscreen THEN CloseLauncher(left) ELSE left)

CancelLaunch(s) ==
    LET owns == s.app # NoApp /\ s.pending = NoApp
        cleared == [s EXCEPT !.pending = NoApp]
        left == IF ~owns THEN cleared
                ELSE IF s.retained THEN LeaveApp(cleared, TRUE)
                ELSE RequestClose(cleared, s.app)
    IN IF ~LaunchInProgress(s) THEN s ELSE SendActive(FinishLaunch(left))

ReturnHome(s) ==
    LET calm == FinishLaunch([s EXCEPT !.pending = NoApp])
        held == IF AppInForeground(s) /\ App(s).shown
                THEN HoldScene(calm, "HOME") ELSE calm
    IN SendActive(LeaveApp(held, TRUE))

FinishUserClose(s, a) ==
    LET final == [s EXCEPT !.task[a].park = FALSE]
        held == IF s.task[a].shown THEN HoldScene(final, "HOME") ELSE final
    IN IF a # s.app THEN RequestClose(s, a)
       ELSE SendActive(IF s.task[a].leaving THEN RequestClose(held, a)
                       ELSE LeaveApp(held, FALSE))

\* An application that is BUSY keeps the card.
FinishActivation(s) ==
    IF ~(s.starting /\ s.acked /\ App(s).ready /\ App(s).drawn) THEN s
    ELSE IF s.busy = "no" THEN FinishLaunch(s)
    ELSE [s EXCEPT !.starting = FALSE, !.expired = FALSE]

-----------------------------------------------------------------------------
(* advance().                                                              *)

\* reap_process() for those of `apps' that have ended.  Only the application in
\* front is part of ACTIVE, so that the calls for the others send one at most.
ReapedApps(s, apps) ==
    LET dead == {a \in apps : s.task[a].dead}
        ended == IF s.app \in dead /\ s.pending = NoApp THEN FinishLaunch(s) ELSE s
    IN IF dead = {} THEN s
       ELSE SendActive([ended EXCEPT
              !.task = [a \in Apps |-> IF a \in dead THEN NoProcess(a) ELSE s.task[a]],
              !.app = IF s.app \in dead THEN NoApp ELSE s.app])

ReapedLauncher(s) ==
    IF ~s.launcher.dead THEN s
    ELSE [s EXCEPT !.launcher = NoLauncher, !.client = NoClient,
                   !.failures = IF s.launcher.closing THEN @ ELSE @ + 1]

\* The launch timer (FPLINUX_SESSION_STARTUP_MS).
LaunchTimeout(s) == IF s.starting /\ s.expired THEN CancelLaunch(s) ELSE s

\* The launcher's record is the first of the table; the one in front may have
\* any place in it, and comes last here.
Reaped(s) == ReapedApps(ReapedApps(ReapedLauncher(s), Apps \ {s.app}), Apps)

\* The outcomes of start_process() for the launcher and for an application,
\* whose entry may also be unreadable.
Starts == [launcher : BOOLEAN, app : {"starts", "fails", "unreadable"}]

\* The pending application, once the record in front of it is free.
StartPending(s, starts) ==
    LET a == s.pending
        failed == FinishLaunch([s EXCEPT !.pending = NoApp])
        begun == IF s.task[a].up
                 THEN [s EXCEPT !.task[a].shown = FALSE, !.late = FALSE]
                 ELSE [s EXCEPT !.task[a] = Fresh(a), !.retained = FALSE]
    IN IF a = NoApp \/ App(s).up THEN s
       ELSE IF starts.app = "unreadable" THEN failed
       ELSE IF s.task[a].closing THEN s
       ELSE IF a \in Fullscreen /\ s.launcher.up THEN CloseLauncher(s)
       ELSE IF starts.app = "fails" /\ ~s.task[a].up THEN SendActive(failed)
       ELSE SendActive([begun EXCEPT !.app = a, !.pending = NoApp])

AppRunsAlone(s) ==
    /\ s.app \in Fullscreen
    /\ {App(s).requested, App(s).configured, App(s).mode} = {"fullscreen"}

\* A new launcher has drawn nothing and answers nothing that went before.
StartLauncher(s, starts) ==
    IF /\ ~s.launcher.up
       /\ \/ ~App(s).up \/ App(s).closing \/ ~AppRunsAlone(s) \/ App(s).leaving
          \/ cover = "locked"
       /\ s.pending = NoApp \/ App(s).leaving
       /\ s.failures < MaxFailures
    THEN IF starts.launcher
         THEN [s EXCEPT !.launcher = [NoLauncher EXCEPT !.up = TRUE],
                        !.named = FALSE, !.wait = FALSE, !.draws = FALSE,
                        !.sent = FALSE, !.gaveUp = FALSE, !.refused = FALSE]
         ELSE [s EXCEPT !.failures = @ + 1]
    ELSE s

CloseLauncherAlone(s) ==
    IF cover # "locked" /\ AppInForeground(s) /\ AppRunsAlone(s)
    THEN CloseLauncher(s) ELSE s

LauncherWorks(s) ==
    IF IsRunning(s.launcher) /\ s.launcher.ready
    THEN [s EXCEPT !.failures = 0] ELSE s

Settled(s) == Connected(s) /\ ~s.wait

\* After HANDOFF_MS a swap takes for granted what it waited for.
GiveUp(s) == [s EXCEPT !.wait = FALSE, !.draws = s.named, !.gaveUp = TRUE]

\* What the swap of the foreground application waits for.
LeavingWaitsConnected(s) == ~Connected(s) /\ s.failures < MaxFailures

LeavingWaits(s) ==
    /\ ~(Settled(s) /\ ~s.draws)
    /\ Connected(s) \/ s.failures < MaxFailures

ShowingWaits(s) ==
    App(s).mode = "integrated" /\ Connected(s) /\ ~(Settled(s) /\ s.draws)

SwapWaits(s) == Uncovered /\ IF App(s).leaving THEN LeavingWaits(s) ELSE ShowingWaits(s)

SwapDue(s) ==
    /\ IsRunning(App(s)) /\ App(s).drawn /\ App(s).ready
    /\ ~App(s).shown \/ App(s).leaving
    /\ App(s).leaving \/ ~s.starting \/ s.acked

HandOffPatient(s) ==
    IF ~SwapDue(s) \/ SwapWaits(s) THEN s
    ELSE IF ~App(s).leaving THEN [s EXCEPT !.task[s.app].shown = TRUE]
    ELSE IF App(s).park THEN ParkApp(s) ELSE RequestClose(s, s.app)

HandOff(s) ==
    LET given == IF SwapWaits(s) THEN GiveUp(s) ELSE s
    IN IF ~SwapDue(s) \/ (SwapWaits(s) /\ ~s.late) THEN s
       ELSE IF ~App(s).leaving THEN [given EXCEPT !.task[s.app].shown = TRUE]
       ELSE IF App(s).park THEN ParkApp(given) ELSE RequestClose(given, s.app)

ModeWaits(s) ==
    /\ App(s).requested = "integrated" /\ App(s).shown /\ Uncovered
    /\ ~(Settled(s) /\ s.draws)
    /\ Connected(s) \/ s.failures < MaxFailures

SwitchMode(s) ==
    IF \/ ~AppInForeground(s) \/ App(s).requested = App(s).configured
       \/ ModeWaits(s) /\ ~App(s).late
    THEN s
    ELSE [IF ModeWaits(s) THEN GiveUp(s) ELSE s
          EXCEPT !.task[s.app].configured = App(s).requested]

ManageProcesses(s, starts) ==
    SwitchMode(HandOff(LauncherWorks(CloseLauncherAlone(
        StartLauncher(StartPending(LaunchTimeout(Reaped(s)), starts), starts)))))

\* advance(), which repeats an ACTIVE whose cover the launcher was not told.
Advanced(s, starts) ==
    LET settled == SettleHeldScene(ManageProcesses(s, starts))
    IN IF settled.last.cover # cover THEN SendActive(settled) ELSE settled

Advances(s) ==
    \E starts \in Starts :
        /\ starts.app # "starts" => bound.faults
        /\ session' = Advanced(s, starts)

-----------------------------------------------------------------------------
(* The manager's actions.                                                  *)

Idle == UNCHANGED <<cover, bound>>

\* LAUNCH and ACTIVATE come from the launcher's catalogue and task list.
Launch(a) ==
    /\ Connected(session) /\ ~LaunchInProgress(session) /\ cover # "locked"
    /\ a \in bound.apps /\ session.launches < bound.launches
    /\ session' = BeginLaunch(session, a)
    /\ Idle

\* The red key cancels a launch and otherwise leads home; HOME does the latter.
Home ==
    /\ cover # "locked"
    /\ Advances(IF LaunchInProgress(session) THEN CancelLaunch(session) ELSE ReturnHome(session))
    /\ Idle

\* A task that is ready to close (EXIT, CLOSE_TASK, or their timer).
Exit(a) ==
    /\ IsRunning(session.task[a])
    /\ session' = FinishUserClose(session, a)
    /\ Idle

Ready(a) ==
    /\ IsRunning(session.task[a]) /\ ~session.task[a].ready
    /\ LET marked == [session EXCEPT !.task[a].ready = TRUE,
                                     !.late = @ /\ ~session.task[a].drawn]
       IN session' = SendActive(IF a = session.app THEN FinishActivation(marked)
                                ELSE marked)
    /\ Idle

ActivationAck(a) ==
    /\ session.starting /\ session.pending = NoApp /\ ~session.acked
    /\ a = session.app /\ IsRunning(session.task[a])
    /\ session' = SendActive(FinishActivation([session EXCEPT !.acked = TRUE]))
    /\ Idle

\* set_busy(): work of the application in front keeps the card up, and its end
\* counts with the next frame.
Busy(a, enabled) ==
    /\ a = session.app /\ AppInForeground(session)
    /\ IF enabled THEN session.busies < bound.busies ELSE session.busy = "yes"
    /\ session' = SendActive(
          IF enabled
          THEN [session EXCEPT !.busy = "yes", !.busies = @ + 1,
                               !.retained = @ /\ LaunchInProgress(session)]
          ELSE [session EXCEPT !.busy = "finishing"])
    /\ Idle

Mode(a, mode) ==
    /\ IsRunning(session.task[a])
    /\ ~(session.task[a].leaving /\ ~session.task[a].park)
    /\ mode # session.task[a].requested
    /\ session.modes < bound.modes
    /\ session' = [session EXCEPT
          !.task[a] = [@ EXCEPT !.requested = mode, !.late = FALSE, !.placed = TRUE],
          !.modes = @ + 1]
    /\ Idle

\* fplinux_session_surface_committed(): a buffer of a size that the
\* application was configured for places it.
Commit(a, mode) ==
    LET process == session.task[a]
        first == a = session.app /\ ~process.drawn
        places == a = session.app /\ process.placed /\ process.mode # mode
        idles == a = session.app /\ process.ready /\ session.busy = "finishing"
        sized == IF places THEN [session EXCEPT !.task[a].mode = mode] ELSE session
        idle == IF ~idles THEN sized
                ELSE IF session.starting THEN [sized EXCEPT !.busy = "no"]
                ELSE FinishLaunch(sized)
        drawn == IF first
                 THEN SendActive(FinishActivation(
                        [idle EXCEPT !.task[a].drawn = TRUE, !.late = FALSE]))
                 ELSE IF idles THEN SendActive(idle) ELSE idle
    IN /\ IsRunning(process) /\ ~process.leaving
       /\ mode \in {process.mode, process.configured}
       /\ first \/ places \/ idles
       /\ Advances(drawn)
       /\ Idle

LauncherHello ==
    /\ session.launcher.up /\ ~session.launcher.fd
    /\ session' = SendActive([session EXCEPT !.launcher.fd = TRUE])
    /\ Idle

\* `ready' stands for policy.ready and policy.framed: READY and the first
\* rendered frame, whichever comes last.
LauncherFramed ==
    /\ session.launcher.fd /\ ~session.launcher.ready
    /\ session' = SendActive([session EXCEPT !.launcher.ready = TRUE])
    /\ Idle

\* The answer counts only for the ACTIVE that the swap waits for.
AckedAny(s, ack) == [s EXCEPT !.wait = FALSE, !.draws = s.named]

Acked(s, ack) ==
    IF ack.current /\ s.wait THEN [s EXCEPT !.wait = FALSE, !.draws = s.named] ELSE s

ActiveAck ==
    /\ session.client.acks # <<>>
    /\ session' = Acked([session EXCEPT !.client.acks = Tail(@)],
                        Head(session.client.acks))
    /\ Idle

\* Battery, clock, titles, theme: a new ACTIVE that names the same.
Tell ==
    /\ session.rest < bound.tells
    /\ session' = SendActive([session EXCEPT !.rest = @ + 1])
    /\ Idle

ChangeCover(c) ==
    /\ c # cover
    /\ session.covers < bound.covers
    /\ cover' = c
    /\ session' = [session EXCEPT !.covers = @ + 1]
    /\ UNCHANGED bound

Advance ==
    /\ Advances(session)
    /\ Idle

-----------------------------------------------------------------------------
(* Processes end, after CLOSE or by themselves.                            *)

Ends(process) ==
    process.up /\ ~process.dead /\ (process.closing \/ session.crashes < bound.crashes)

Ended(process) ==
    [session EXCEPT !.crashes = IF process.closing THEN @ ELSE @ + 1]

Die(a) ==
    /\ Ends(session.task[a])
    /\ session' = [Ended(session.task[a]) EXCEPT !.task[a].dead = TRUE]
    /\ Idle

LauncherDies ==
    /\ Ends(session.launcher)
    /\ session' = [Ended(session.launcher) EXCEPT !.launcher.dead = TRUE,
                                                  !.launcher.fd = FALSE]
    /\ Idle

-----------------------------------------------------------------------------
(* Time: HANDOFF_MS after handoff_ms and after mode_ms.                    *)

SwapLate ==
    /\ SwapDue(session) /\ ~session.late
    /\ session' = [session EXCEPT !.late = TRUE]
    /\ Idle

ModeLate(a) ==
    /\ session.task[a].up /\ ~session.task[a].late
    /\ session.task[a].requested # session.task[a].configured
    /\ session' = [session EXCEPT !.task[a].late = TRUE]
    /\ Idle

LaunchLate ==
    /\ session.starting /\ ~session.expired
    /\ session' = [session EXCEPT !.expired = TRUE]
    /\ Idle

-----------------------------------------------------------------------------
(* The launcher and the UI library.                                        *)

\* receive_active() draws; the runtime's one slot for ACTIVE's answer takes
\* this one, so that an older one is not sent any more.
Draw ==
    /\ session.client.inbox # <<>>
    /\ session' = [session EXCEPT !.client.inbox = Tail(@),
                                  !.client.canvas = <<Head(session.client.inbox)>>,
                                  !.client.sync = <<>>]
    /\ Idle

CommitFrame ==
    /\ session.client.canvas # <<>>
    /\ session' = [session EXCEPT !.client.view = session.client.canvas[1].app,
                                  !.client.sync = session.client.canvas,
                                  !.client.canvas = <<>>]
    /\ Idle

FrameAckDone ==
    /\ session.client.sync # <<>> /\ session.client.acks = <<>>
    /\ session' = [session EXCEPT !.client.acks = session.client.sync,
                                  !.client.sync = <<>>]
    /\ Idle

-----------------------------------------------------------------------------
Init ==
    /\ session = [app |-> NoApp, task |-> [a \in Apps |-> NoProcess(a)],
                  launcher |-> NoLauncher, client |-> NoClient, failures |-> 0,
                  pending |-> NoApp, starting |-> FALSE, acked |-> FALSE,
                  expired |-> FALSE, retained |-> FALSE, busy |-> "no", late |-> FALSE,
                  held |-> {}, refused |-> FALSE,
                  last |-> [app |-> NoApp, card |-> FALSE, cover |-> "none", rest |-> 0],
                  sent |-> FALSE, named |-> FALSE, wait |-> FALSE, draws |-> FALSE,
                  gaveUp |-> FALSE, rest |-> 0, launches |-> 0, modes |-> 0, busies |-> 0,
                  crashes |-> 0, covers |-> 0]
    /\ cover = "none"
    /\ bound \in Scenarios

Client == Draw \/ CommitFrame \/ FrameAckDone

Next ==
    \/ \E a \in Apps :
          \/ Launch(a) \/ Exit(a) \/ Ready(a) \/ ActivationAck(a) \/ Die(a)
          \/ ModeLate(a)
          \/ \E enabled \in BOOLEAN : Busy(a, enabled)
          \/ \E mode \in Modes : Mode(a, mode) \/ Commit(a, mode)
    \/ Home \/ LauncherHello \/ LauncherFramed \/ ActiveAck \/ Tell
    \/ LauncherDies \/ Advance \/ SwapLate \/ LaunchLate
    \/ \E c \in {"none", "locked", "off"} : ChangeCover(c)
    \/ Client

Spec == Init /\ [][Next]_vars

\* Timers fire, advance() follows (needs_tick), and a closing process is
\* killed in the end.  The launcher answers unless it hangs.  Advance has its
\* enabling condition written out, which spares TLC an ENABLED through
\* manage_processes().
Unsettled == Advanced(session, [launcher |-> TRUE, app |-> "starts"]) # session

Fairness ==
    /\ []<>~Unsettled \/ []<><<Advance>>_vars
    /\ WF_vars(SwapLate) /\ WF_vars(LaunchLate) /\ WF_vars(ActiveAck)
    /\ WF_vars(session.launcher.closing /\ LauncherDies)
    /\ \A a \in Apps : WF_vars(session.task[a].closing /\ Die(a))
    /\ WF_vars(~bound.hung /\ LauncherHello) /\ WF_vars(~bound.hung /\ LauncherFramed)
    /\ WF_vars(~bound.hung /\ Client)

FairSpec == Spec /\ Fairness

-----------------------------------------------------------------------------
(* Properties.                                                             *)

FrameType == [app : Apps \cup {NoApp}, current : BOOLEAN]

TypeOK ==
    /\ session.app \in Apps \cup {NoApp} /\ session.pending \in Apps \cup {NoApp}
    /\ session.task \in [Apps -> [up : BOOLEAN, dead : BOOLEAN, closing : BOOLEAN, ready : BOOLEAN,
            drawn : BOOLEAN, shown : BOOLEAN, leaving : BOOLEAN, park : BOOLEAN,
            placed : BOOLEAN, requested : Modes, configured : Modes, mode : Modes,
            late : BOOLEAN]]
    /\ session.held \subseteq {"LAUNCH", "HOME"}
    /\ session.failures \in 0 .. MaxFailures /\ session.busy \in {"no", "yes", "finishing"}
    /\ session.client.inbox \in Seq(FrameType) /\ Len(session.client.inbox) <= InboxMax
    /\ cover \in {"none", "locked", "off"}

\* ACTIVE_ACK means what the manager takes it for: while no answer is
\* outstanding and none was given up, the launcher's surface shows the frame
\* of the newest ACTIVE.  Answers that were overtaken by a newer ACTIVE, or
\* that an earlier launcher owed, do not count.
AnswerMeansDrawn ==
    /\ TypeOK
    /\ (Connected(session) /\ session.sent /\ ~session.wait /\ ~session.gaveUp) =>
          /\ session.client.view = session.last.app
          /\ session.draws = (session.last.app # NoApp)

\* "Swaps the foreground application and the launcher in one repaint, so that
\* no frame shows neither": without a timeout, and unless the launcher's socket
\* refused the newest ACTIVE, an integrated application appears between bars
\* drawn for it, a retained one goes when they are gone, and the held frame is
\* let go over a launcher that draws no bars.
CleanSwap ==
    [][Uncovered /\ Connected(session') /\ ~session.late
           /\ ~session.gaveUp /\ ~session'.gaveUp
           /\ ~session.refused /\ ~session'.refused =>
         /\ \A a \in Apps :
               LET before == session.task[a]
                   after == session'.task[a]
               IN /\ (~before.shown /\ after.shown /\ after.mode = "integrated")
                        => session.client.view = a
                  /\ (before.leaving /\ before.park /\ after.drawn /\ ~after.leaving)
                        => session.client.view = NoApp
         /\ (session.held # {} /\ session'.held = {} /\ ~App(session').shown
                /\ session'.failures < MaxFailures)
               => session.client.view = NoApp]_vars

\* A leaving application goes, whatever the launcher does.  A held frame stays
\* for ever only under a launcher that hangs, an application that is BUSY (for
\* which the manager has no timer), or after an ACTIVE that the launcher's full
\* socket refused: otherwise launch, Home and close end with a screen that
\* moves again.
SwapEnds ==
    /\ \A a \in Apps : session.task[a].leaving ~> ~session.task[a].leaving
    /\ session.held # {} ~>
          (session.held = {} \/ bound.hung \/ session.busy # "no" \/ session.refused)
=============================================================================
