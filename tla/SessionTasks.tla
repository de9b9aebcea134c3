---------------------------- MODULE SessionTasks ----------------------------
(***************************************************************************)
(* The session manager's registry of applications                          *)
(* (fplinux-session/session-core.c): which process is in the foreground,   *)
(* the launch that is under way, the close decision of each task and the   *)
(* document that one application asked another to open.                    *)
(*                                                                         *)
(* The manager is one thread.  It reads the peers' messages one by one and *)
(* then calls advance() once; the compositor calls it too (a committed     *)
(* buffer, a rendered frame, a key).  Each message and each such call is   *)
(* an action, and Advance is manage_processes().  A batch of messages is a *)
(* sequence of actions before an Advance.                                  *)
(*                                                                         *)
(* The C functions are operators from a session record to a session        *)
(* record, in the order in which the code runs them.  Left out: the text   *)
(* of notices, the audio, brightness and power side effects, the launcher's*)
(* views, and MODE (an application keeps its declared mode).  When the     *)
(* launcher has drawn what a swap waits for is SessionHandOff's subject:   *)
(* here a swap happens at any time after it is asked for.  The first       *)
(* rendered frame (policy.framed) is not an event of its own: it comes with*)
(* an application's first buffer, and with the launcher's READY.           *)
(***************************************************************************)
EXTENDS Naturals, FiniteSets

CONSTANTS
    Apps,            \* installed applications
    Fullscreen,      \* the ones whose entry declares the fullscreen mode
    Handlers,        \* the ones that open the document
    Settings,        \* the one that may change the language or the theme
    TaskMax,         \* FPLINUX_UI_SESSION_TASK_MAX
    MaxFailures,     \* launcher starts that may fail in a row (3)
    Scenarios        \* bounds: see Bounds

\* What users, clients and faults may do in a behaviour: the applications whose
\* icon is chosen, the candidates for a document, the applications that send BUSY
\* around a blocking operation, how many launches, close preparations, OPEN_FILE
\* requests and processes that end or hang up unasked there are, what may go wrong
\* (a start fails; a process is not ready, has not ended or not answered in time),
\* and what may cover an application.
Bounds == [apps : SUBSET Apps, opens : SUBSET Apps, busy : SUBSET Apps, launches : Nat,
           closes : Nat, documents : Nat, crashes : Nat,
           faults : SUBSET {"unreadable", "fails", "startup", "kill", "prepare"},
           covers : SUBSET {"locked", "ringing"}]

ASSUME SessionAssumption ==
    /\ Fullscreen \subseteq Apps
    /\ Handlers \subseteq Apps
    /\ Settings \subseteq Apps
    /\ "none" \notin Apps
    /\ TaskMax \in Nat \ {0}
    /\ MaxFailures \in Nat \ {0}
    /\ Scenarios \subseteq Bounds

VARIABLES
    session,         \* struct fplinux_session
    cover,           \* what covers the application now
    bound            \* the scenario

vars == <<session, cover, bound>>

-----------------------------------------------------------------------------
(* process_at(): the launcher comes before the bounded registry of tasks;       *)
(* idle_app is a record of its own that never has a process.                *)

Launcher == 1
Slots == 2 .. TaskMax + 1
Idle == TaskMax + 2
Nobody == TaskMax + 3          \* NULL
Processes == 1 .. TaskMax + 1
Records == 1 .. TaskMax + 2
NoApp == "none"

\* initialize_process(); `alive` is the process itself, which waitpid() tells.
NoProcess ==
    [up |-> FALSE, alive |-> FALSE, id |-> NoApp, token |-> 0,
     closing |-> FALSE, life |-> "foreground", fd |-> "never",
     ready |-> FALSE, drawn |-> FALSE, shown |-> FALSE,
     leaving |-> FALSE, park |-> FALSE, close |-> 0, waiting |-> FALSE,
     bad |-> FALSE, origin |-> 0]

NoLaunch == [pending |-> NoApp, id |-> NoApp, starting |-> FALSE,
             retained |-> FALSE, acked |-> FALSE, busy |-> "no", act |-> "open"]

NoDocument == [request |-> 0, serial |-> 0, origin |-> 0, handler |-> 0,
               id |-> NoApp, waiting |-> FALSE, restarted |-> FALSE,
               restarting |-> FALSE, detached |-> FALSE]

Least(S) == IF S = {} THEN Nobody ELSE CHOOSE p \in S : \A q \in S : p <= q

TaskForIdRunning(s, id) ==
    Least({p \in Slots : /\ s.task[p].up /\ ~s.task[p].closing
                         /\ s.task[p].id = id})

TaskForId(s, id) == Least({p \in Slots : s.task[p].up /\ s.task[p].id = id})

FreeTask(s) == Least({p \in Slots : ~s.task[p].up})

TaskForToken(s, token) ==
    Least({p \in Slots : token # 0 /\ s.task[p].up /\ s.task[p].token = token})

HasRoom(s, id) == TaskForId(s, id) # Nobody \/ FreeTask(s) # Nobody

App(s) == s.task[s.app]

IsRunning(process) == process.up /\ ~process.closing

AppInForeground(s) == IsRunning(App(s)) /\ ~App(s).leaving

LaunchInProgress(s) == s.launch.starting \/ s.launch.busy # "no"

Ringing == "ringing" \in cover

Locked == "locked" \in cover

\* The launcher runs and has rendered a frame (policy.framed).
LauncherDraws(s) == IsRunning(s.task[Launcher]) /\ s.task[Launcher].ready

\* A ringing clock covers the application once the launcher has drawn it.
LauncherOnTop(s) == Locked \/ (Ringing /\ LauncherDraws(s))

-----------------------------------------------------------------------------
(* Lifecycle and the end of a launch.                                       *)

SetLifecycle(s, p, life) ==
    IF s.task[p].up /\ p # Launcher
    THEN [s EXCEPT !.task[p].life = life] ELSE s

FinishLaunch(s) ==
    [s EXCEPT !.launch = [NoLaunch EXCEPT !.pending = s.launch.pending,
                                          !.act = s.launch.act]]

ClearPending(s) == [s EXCEPT !.launch.pending = NoApp]

RequestClose(s, p) ==
    IF ~IsRunning(s.task[p]) THEN s
    ELSE SetLifecycle(
            [s EXCEPT !.task[p].closing = TRUE, !.task[p].close = 0,
                      !.task[p].waiting = FALSE, !.activate = @ \ {p}],
            p, "closing")

ParkApp(s) ==
    IF ~App(s).up THEN s
    ELSE [SetLifecycle([s EXCEPT !.task[s.app].shown = FALSE,
                                 !.task[s.app].leaving = FALSE,
                                 !.task[s.app].park = FALSE],
                       s.app, "background")
          EXCEPT !.app = Idle]

\* A shown application leaves only when the launcher has drawn its
\* replacement (HandOff); one that is not on the screen leaves at once.
LeaveApp(s, retain) ==
    IF ~IsRunning(App(s)) \/ App(s).leaving THEN s
    ELSE LET finished == IF s.launch.pending = NoApp THEN FinishLaunch(s) ELSE s
             marked == SetLifecycle([finished EXCEPT !.task[s.app].park = retain],
                                    s.app,
                                    IF retain THEN "background" ELSE "closing")
         IN IF ~App(s).shown \/ LauncherOnTop(s)
            THEN IF retain THEN ParkApp(marked) ELSE RequestClose(marked, s.app)
            ELSE [marked EXCEPT !.task[s.app].leaving = TRUE]

FinishActivation(s) ==
    IF ~(s.launch.starting /\ s.launch.acked /\ App(s).ready /\ App(s).drawn)
    THEN s
    ELSE IF s.launch.busy = "no" THEN FinishLaunch(s)
         ELSE [s EXCEPT !.launch.starting = FALSE]

-----------------------------------------------------------------------------
(* Documents.                                                               *)

\* document_result(): the origin hears the status; every status but "wait"
\* ends the request, and a refusal leads back to the origin.
DocumentResult(s, status) ==
    LET document == s.document
        origin == TaskForToken(s, document.origin)
        handler == IF document.handler # 0
                   THEN TaskForToken(s, document.handler) ELSE Idle
        returns == /\ status # "accepted"
                   /\ origin # Nobody
                   /\ \/ s.app = handler /\ origin # s.app
                      \/ /\ s.launch.starting
                         /\ document.serial # 0
                         /\ document.serial = s.generation
    IN IF document.request = 0 \/ status = "wait" THEN s
       ELSE [s EXCEPT !.document = NoDocument,
                      !.returnToken = IF returns THEN document.origin ELSE @]

DocumentLaunchResult(s, status) ==
    IF /\ s.document.request # 0
       /\ s.document.serial # 0
       /\ s.document.serial = s.generation
       /\ s.document.id = s.launch.id
    THEN DocumentResult(s, status) ELSE s

DocumentDelivered(s) ==
    LET handler == TaskForToken(s, s.document.handler)
    IN handler # Nobody /\ s.task[handler].fd # "never"

\* send_activation(): the launch of a handler hands it the document.
SendActivation(s, p) ==
    IF /\ s.document.request # 0
       /\ s.document.serial = s.generation
       /\ s.document.id = s.task[p].id
       /\ p = s.app
       /\ s.launch.starting
    THEN [s EXCEPT !.document.handler = s.task[p].token] ELSE s

CancelLaunch(s) ==
    LET owns == s.launch.pending = NoApp /\ App(s).id = s.launch.id
        cleared == ClearPending(DocumentLaunchResult(s, "cancelled"))
    IN IF ~LaunchInProgress(s) THEN s
       ELSE FinishLaunch(
                IF ~owns THEN cleared
                ELSE IF s.launch.retained THEN LeaveApp(cleared, TRUE)
                ELSE RequestClose(cleared, s.app))

BeginLaunch(s, id, act) ==
    LET existing == TaskForId(s, id)
        begun == [s EXCEPT
                    !.launch = [pending |-> id, id |-> id, starting |-> TRUE,
                                retained |-> existing # Nobody,
                                acked |-> FALSE, busy |-> "no", act |-> act],
                    !.generation = @ + 1]
        left == LeaveApp(begun, TRUE)
    IN IF ~HasRoom(s, id) THEN s
       ELSE IF id \in Fullscreen THEN RequestClose(left, Launcher) ELSE left

\* An explicit OPEN ends what the task owed to a document's origin.
LaunchApp(s, id, act) ==
    LET existing == TaskForId(s, id)
        named == existing # Nobody /\ act = "open"
        cleared == ClearPending(s)
        opened ==
            IF ~named THEN cleared
            ELSE [cleared EXCEPT
                    !.task[existing].origin = 0,
                    !.document.detached =
                        @ \/ s.document.handler = s.task[existing].token]
    IN IF LaunchInProgress(s) THEN s ELSE BeginLaunch(opened, id, act)

OpenDocumentWith(s, id) ==
    IF id \notin Handlers \/ ~HasRoom(s, id) THEN DocumentResult(s, "error")
    ELSE LET begun == BeginLaunch([s EXCEPT !.document.id = id], id, "open")
         IN [begun EXCEPT !.document.serial = begun.generation]

-----------------------------------------------------------------------------
(* Home and the close protocol.                                             *)

ReturnHome(s) ==
    LET answered == IF s.document.id # NoApp /\ ~DocumentDelivered(s)
                    THEN DocumentResult(s, "cancelled") ELSE s
        calm == FinishLaunch(ClearPending(
                    [answered EXCEPT !.returnToken = 0]))
    IN LeaveApp([calm EXCEPT !.activate = {}], TRUE)

FinishUserClose(s, p) ==
    LET settled == [s EXCEPT !.task[p].close = 0, !.task[p].waiting = FALSE,
                             !.activate = @ \ {p}]
        final == [settled EXCEPT !.task[p].park = FALSE]
    IN IF p # s.app THEN RequestClose(settled, p)
       ELSE IF s.task[p].leaving THEN RequestClose(final, p)
       ELSE LeaveApp(final, FALSE)

PrepareUserClose(s, p) ==
    LET asked == IF s.task[p].close # 0 THEN s
                 ELSE [s EXCEPT !.nextClose = @ + 1,
                                !.task[p].close = s.nextClose + 1]
        prepared == [asked EXCEPT !.activate = IF p = s.app THEN @ \ {p} ELSE @ \cup {p}]
    IN IF ~IsRunning(s.task[p]) \/ (s.task[p].close # 0 /\ ~s.task[p].waiting)
       THEN s
       ELSE IF s.task[p].fd # "open" THEN FinishUserClose(prepared, p)
       ELSE prepared

Restarting(s, p) ==
    s.document.restarting /\ s.document.handler = s.task[p].token

CloseReply(s, p, value) ==
    CASE value = "ready" ->
            IF Restarting(s, p) THEN RequestClose(s, p) ELSE FinishUserClose(s, p)
      [] value = "cancel" ->
            [IF Restarting(s, p) THEN DocumentResult(s, "cancelled") ELSE s
             EXCEPT !.task[p].close = 0, !.task[p].waiting = FALSE,
                    !.activate = @ \ {p}]
      [] value = "wait" ->
            [s EXCEPT !.task[p].waiting = TRUE,
                      !.activate = IF p = s.app THEN @ \ {p} ELSE @]

HandlerDocumentResult(s, p, status) ==
    LET owns == /\ s.launch.starting
                /\ s.document.serial = s.generation
                /\ p = s.app
        end(t) == IF owns THEN FinishLaunch(t) ELSE t
    IN CASE status = "restart" ->
              IF s.document.restarted THEN end(DocumentResult(s, "error"))
              ELSE PrepareUserClose(
                      end([s EXCEPT !.document.restarted = TRUE,
                                    !.document.restarting = TRUE,
                                    !.document.waiting = TRUE]), p)
         [] status = "wait" ->
              DocumentResult([s EXCEPT !.document.waiting = TRUE], "wait")
         [] status = "accepted" ->
              LET adopted == [s EXCEPT !.task[p].origin =
                                IF \/ s.document.detached
                                   \/ s.document.origin = s.task[p].token
                                THEN 0 ELSE s.document.origin]
                  shown == IF owns
                           THEN FinishActivation(
                                    [adopted EXCEPT !.launch.acked = TRUE])
                           ELSE adopted
              IN DocumentResult(shown, "accepted")
         [] status \in {"error", "cancelled"} -> DocumentResult(end(s), status)

SetBusyLeaving(s, enabled) ==
    LET fresh == ~LaunchInProgress(s)
        marked == IF ~fresh THEN s
                  ELSE [s EXCEPT !.launch.retained = FALSE,
                                 !.generation = @ + 1]
    IN IF ~IsRunning(App(s)) THEN s
       ELSE IF enabled
       THEN [marked EXCEPT !.launch.id = App(s).id, !.launch.busy = "yes"]
       ELSE [s EXCEPT !.launch.busy = IF @ = "yes" THEN "finishing" ELSE @]

SetBusy(s, enabled) ==
    LET fresh == ~LaunchInProgress(s)
        marked == IF ~fresh THEN s
                  ELSE [s EXCEPT !.launch.retained = FALSE,
                                 !.generation = @ + 1]
    IN IF ~AppInForeground(s) THEN s
       ELSE IF enabled
       THEN [marked EXCEPT !.launch.id = App(s).id, !.launch.busy = "yes"]
       ELSE [s EXCEPT !.launch.busy = IF @ = "yes" THEN "finishing" ELSE @]

-----------------------------------------------------------------------------
(* manage_processes().  The timers that have run out are the set `late` of  *)
(* <<timer, process>>; `start` is what reading the entry and fork() give.   *)

StartProcess(s, p, id) ==
    LET token == IF p = Launcher THEN 0 ELSE s.nextToken + 1
        handles == /\ p # Launcher
                   /\ s.document.request # 0
                   /\ s.document.serial = s.generation
                   /\ s.document.id = id
    IN [s EXCEPT !.task[p] = [NoProcess EXCEPT !.up = TRUE, !.alive = TRUE,
                                               !.id = id, !.token = token],
                 !.nextToken = IF p = Launcher THEN @ ELSE @ + 1,
                 !.document.handler = IF handles THEN token ELSE @]

\* The origin of a document is gone: its launch is given up, unless the
\* handler has the document already.
OriginGoneIgnored(s, token) == s

OriginGone(s, token) ==
    LET owns == s.launch.starting /\ s.document.serial = s.generation
        dropped == [s EXCEPT !.document = NoDocument]
    IN IF s.document.request = 0 \/ s.document.origin # token THEN s
       ELSE IF ~owns THEN dropped
       ELSE IF DocumentDelivered(s) THEN FinishLaunch(dropped)
       ELSE CancelLaunch(dropped)

LaunchReaped(s, p) ==
    IF p = s.app /\ s.launch.pending = NoApp THEN FinishLaunch(s) ELSE s

Handles(s, token) == s.document.request # 0 /\ s.document.handler = token

Restarts(s, token) == Handles(s, token) /\ s.document.restarting

HandlerGone(s, token) ==
    IF Handles(s, token) /\ ~Restarts(s, token) THEN DocumentResult(s, "error") ELSE s

\* An application that was closed leads back to the origin of its document.
ReturnOwed(s, p) ==
    IF /\ ~Restarts(s, s.task[p].token) /\ p = s.app
       /\ s.task[p].closing /\ ~s.task[p].bad /\ s.task[p].origin # 0
    THEN [s EXCEPT !.returnToken = s.task[p].origin] ELSE s

LauncherFailed(s, p) ==
    IF p = Launcher /\ (~s.task[p].closing \/ s.task[p].bad)
    THEN [s EXCEPT !.failures = @ + 1] ELSE s

RestartAwaited(s, token) ==
    IF Restarts(s, token)
    THEN [s EXCEPT !.document.waiting = FALSE, !.document.handler = 0] ELSE s

Forgotten(s, p) ==
    [s EXCEPT !.task[p] = NoProcess, !.activate = @ \ {p}, !.app = IF @ = p THEN Idle ELSE @]

\* reap_process(): what still names the process is settled before its record
\* is cleared.  The launcher's token is 0.
ReapProcess(s, p) ==
    LET token == s.task[p].token
    IN IF ~s.task[p].up \/ s.task[p].alive THEN s
       ELSE Forgotten(RestartAwaited(LaunchReaped(LauncherFailed(ReturnOwed(HandlerGone(
                OriginGone(s, token), token), p), p), p), token), p)

\* The process has not shown a first frame yet.
Starts(s, p) == /\ IsRunning(s.task[p])
                /\ ~s.task[p].ready \/ (p # Launcher /\ ~s.task[p].drawn)

\* The timer that bounds the start of p: the launch's for the application.
StartTimer(s, p) ==
    IF p = s.app /\ s.launch.starting THEN <<"launch", Launcher>> ELSE <<"startup", p>>

KillLate(s, p, late) ==
    IF s.task[p].closing /\ <<"kill", p>> \in late
    THEN [s EXCEPT !.task[p].alive = FALSE] ELSE s

PrepareLate(s, p, late) ==
    IF s.task[p].close # 0 /\ ~s.task[p].waiting /\ <<"prepare", p>> \in late
    THEN FinishUserClose(s, p) ELSE s

StartLate(s, p, late) ==
    IF /\ Starts(s, p) /\ StartTimer(s, p) \in late
       /\ ~(s.document.waiting /\ s.document.handler = s.task[p].token)
       /\ ~(p = s.app /\ s.launch.retained)
    THEN RequestClose([s EXCEPT !.task[p].bad = TRUE], p) ELSE s

Supervised(s, p, late) ==
    IF ~s.task[p].up THEN s ELSE PrepareLate(KillLate(StartLate(s, p, late), p, late), p, late)

ManageOne(s, p, late) == Supervised(ReapProcess(s, p), p, late)

ManageAll(s, late) ==
    LET managed[p \in 0 .. TaskMax + 1] ==
            IF p = 0 THEN s ELSE ManageOne(managed[p - 1], p, late)
    IN managed[TaskMax + 1]

LaunchTimeoutCold(s, late) ==
    IF /\ s.launch.starting /\ ~s.document.waiting /\ ~s.launch.retained
       /\ <<"launch", Launcher>> \in late
    THEN CancelLaunch(DocumentLaunchResult(s, "error")) ELSE s

LaunchTimeout(s, late) ==
    IF s.launch.starting /\ ~s.document.waiting /\ <<"launch", Launcher>> \in late
    THEN CancelLaunch(DocumentLaunchResult(s, "error")) ELSE s

ReturnToOrigin(s) ==
    LET origin == TaskForToken(s, s.returnToken)
        taken == [s EXCEPT !.returnToken = 0]
    IN IF s.returnToken = 0 \/ LaunchInProgress(s) \/ Locked \/ Ringing THEN s
       ELSE IF origin # Nobody /\ IsRunning(s.task[origin])
       THEN LaunchApp(taken, s.task[origin].id, "resume")
       ELSE taken

RestartDocument(s) ==
    IF /\ s.document.restarting /\ s.document.handler = 0
       /\ ~LaunchInProgress(s)
    THEN OpenDocumentWith([s EXCEPT !.document.restarting = FALSE], s.document.id)
    ELSE s

\* A background task that waits for the user's close decision is brought up.
ShowDecision(s) ==
    LET p == Least({q \in s.activate : s.task[q].waiting /\ IsRunning(s.task[q])})
    IN IF LaunchInProgress(s) \/ Locked \/ Ringing \/ p = Nobody THEN s
       ELSE LaunchApp([s EXCEPT !.activate = @ \ {p}],
                      s.task[p].id, "resume")

StartPending(s, start) ==
    LET id == s.launch.pending
        existing == TaskForId(s, id)
        slot == FreeTask(s)
        drop(t) == FinishLaunch(ClearPending(t))
        refuse == drop(DocumentLaunchResult(s, "error"))
    IN IF id = NoApp \/ App(s).up THEN s
       ELSE IF s.launch.act = "resume"
               /\ (existing = Nobody \/ ~IsRunning(s.task[existing]))
       THEN drop(s)
       ELSE IF start = "unreadable" THEN refuse
       ELSE IF existing # Nobody /\ s.task[existing].closing THEN s
       ELSE IF id \in Fullscreen /\ s.task[Launcher].up
       THEN IF Ringing THEN s ELSE RequestClose(s, Launcher)
       ELSE ClearPending(
              IF existing # Nobody
              THEN SendActivation(
                      SetLifecycle([s EXCEPT !.app = existing,
                                             !.task[existing].shown = FALSE],
                                   existing, "foreground"), existing)
              ELSE IF slot = Nobody \/ start = "fails" THEN refuse
              ELSE StartProcess([s EXCEPT !.app = slot,
                                          !.launch.retained = FALSE], slot, id))

RunsAlone(s) == App(s).id \in Fullscreen

StartLauncher(s, start) ==
    IF /\ ~s.task[Launcher].up
       /\ \/ ~App(s).up \/ App(s).closing \/ ~RunsAlone(s) \/ App(s).leaving
          \/ Locked \/ Ringing
       /\ s.launch.pending = NoApp \/ App(s).leaving \/ Ringing
       /\ s.failures < MaxFailures
    THEN IF start = "ok" THEN StartProcess(s, Launcher, NoApp)
         ELSE [s EXCEPT !.failures = @ + 1]
    ELSE s

CloseLauncherAlone(s) ==
    IF ~Locked /\ AppInForeground(s) /\ RunsAlone(s) /\ ~Ringing
    THEN RequestClose(s, Launcher) ELSE s

LauncherWorks(s) == IF LauncherDraws(s) THEN [s EXCEPT !.failures = 0] ELSE s

\* hand_off(): the swap between the application and the launcher.
HandOff(s, late) ==
    IF \/ ~IsRunning(App(s)) \/ ~App(s).drawn \/ ~App(s).ready
       \/ App(s).shown /\ ~App(s).leaving
       \/ ~App(s).leaving /\ s.launch.starting /\ ~s.launch.acked
       \/ ~LauncherOnTop(s) /\ <<"swap", Launcher>> \notin late
    THEN s
    ELSE IF ~App(s).leaving THEN [s EXCEPT !.task[s.app].shown = TRUE]
    ELSE IF App(s).park THEN ParkApp(s) ELSE RequestClose(s, s.app)

ManageProcesses(s, late, start) ==
    HandOff(LauncherWorks(CloseLauncherAlone(StartLauncher(StartPending(
        ShowDecision(RestartDocument(ReturnToOrigin(LaunchTimeout(
            ManageAll(s, late), late)))), start), start))), late)

\* The timers that run, and what a call of advance() may find.
Timers == ({"startup", "kill", "prepare"} \X (Processes))
              \cup ({"launch", "swap"} \X {Launcher})

Armed(s) ==
    LET swaps == /\ App(s).drawn /\ App(s).ready
                 /\ ~App(s).shown \/ App(s).leaving
    IN {t \in Timers :
           LET process == s.task[t[2]]
           IN /\ t[1] \in {"launch", "swap"} \cup bound.faults
              /\ \/ t[1] = "startup" /\ Starts(s, t[2])
                 \/ t[1] = "kill" /\ process.closing /\ process.alive
                 \/ t[1] = "prepare" /\ process.close # 0 /\ ~process.waiting
                 \/ t[1] = "launch" /\ s.launch.starting
                 \/ t[1] = "swap" /\ swaps}

\* Reading the entry or fork() may fail, when this call may start a process.
Outcomes(s) ==
    IF \/ s.launch.pending # NoApp \/ s.returnToken # 0 \/ s.document.restarting
       \/ s.activate # {} \/ ~s.task[Launcher].alive
    THEN {"ok"} \cup (bound.faults \cap {"unreadable", "fails"}) ELSE {"ok"}

\* advance() after the session became s.
Advances(s) ==
    \E late \in SUBSET Armed(s), start \in Outcomes(s) :
        session' = ManageProcesses(s, late, start)

-----------------------------------------------------------------------------
(* Actions: messages, calls from the compositor, time and processes.        *)

Connected(p) == session.task[p].up /\ session.task[p].fd = "open"

Hello(p) ==
    /\ session.task[p].up
    /\ session.task[p].fd = "never"
    /\ session' = SendActivation([session EXCEPT !.task[p].fd = "open"], p)
    /\ UNCHANGED <<cover, bound>>

Ready(p) ==
    /\ Connected(p)
    /\ ~session.task[p].ready
    /\ LET marked == [session EXCEPT !.task[p].ready = TRUE]
       IN session' = IF p = session.app THEN FinishActivation(marked) ELSE marked
    /\ UNCHANGED <<cover, bound>>

\* LAUNCH: an icon of the catalogue.
LaunchMessage(id) ==
    /\ Connected(Launcher)
    /\ ~LaunchInProgress(session) /\ ~Ringing /\ ~Locked
    /\ ~session.task[Launcher].closing
    /\ session.generation < bound.launches
    /\ session' = LaunchApp(session, id, "open")
    /\ UNCHANGED <<cover, bound>>

TaskAvailable(p) ==
    /\ Connected(Launcher)
    /\ IsRunning(session.task[p])
    /\ session.task[p].life # "closing"
    /\ ~Locked /\ ~Ringing /\ ~LaunchInProgress(session)

Activate(p) ==
    /\ TaskAvailable(p)
    /\ session.generation < bound.launches
    /\ session' = LaunchApp(session, session.task[p].id, "resume")
    /\ UNCHANGED <<cover, bound>>

CloseTask(p) ==
    /\ TaskAvailable(p)
    /\ session.nextClose < bound.closes
    /\ session' = PrepareUserClose(session, p)
    /\ UNCHANGED <<cover, bound>>

Exit(p) ==
    /\ Connected(p)
    /\ ~session.task[p].closing
    /\ IF p = Launcher
       THEN /\ session.crashes < bound.crashes
            /\ session' = RequestClose([session EXCEPT !.task[p].bad = TRUE,
                                                      !.crashes = @ + 1], p)
       ELSE /\ session.nextClose < bound.closes
            /\ session' = PrepareUserClose(session, p)
    /\ UNCHANGED <<cover, bound>>

\* A reply carries the serial of the preparation it answers; another serial
\* is ignored.
CloseReplyMessage(p, serial, value) ==
    /\ Connected(p)
    /\ serial # 0 /\ session.task[p].close = serial
    /\ ~session.task[p].closing
    /\ session' = CloseReply(session, p, value)
    /\ UNCHANGED <<cover, bound>>

ActivationAck(p, serial) ==
    /\ Connected(p)
    /\ session.launch.starting /\ session.launch.pending = NoApp
    /\ p = session.app /\ ~session.task[p].closing
    /\ session.task[p].id = session.launch.id
    /\ serial = session.generation
    /\ session' = FinishActivation([session EXCEPT !.launch.acked = TRUE])
    /\ UNCHANGED <<cover, bound>>

HomeMessage(p) ==
    /\ Connected(p)
    /\ ~Ringing
    /\ p \in {session.app, Launcher}
    /\ session' = ReturnHome(session)
    /\ UNCHANGED <<cover, bound>>

\* The red key: it cancels a launch, and otherwise leads home.
HomeKey ==
    /\ ~Ringing /\ ~Locked
    /\ Advances(IF LaunchInProgress(session)
                            THEN CancelLaunch(session) ELSE ReturnHome(session))
    /\ UNCHANGED <<cover, bound>>

CancelMessage ==
    /\ Connected(Launcher)
    /\ ~Locked /\ ~Ringing
    /\ LaunchInProgress(session)
    /\ session' = CancelLaunch(session)
    /\ UNCHANGED <<cover, bound>>

Busy(p, enabled) ==
    /\ Connected(p)
    /\ p = session.app /\ session.task[p].id \in bound.busy
    /\ enabled => LaunchInProgress(session) \/ session.generation < bound.launches
    /\ session' = SetBusy(session, enabled)
    /\ UNCHANGED <<cover, bound>>

\* OPEN_FILE with no, one or several candidates.
OpenFile(p, candidates) ==
    LET asked == [session EXCEPT
                    !.documents = @ + 1,
                    !.document = [NoDocument EXCEPT
                                    !.request = session.documents + 1,
                                    !.origin = session.task[p].token]]
    IN /\ Connected(p)
       /\ p = session.app /\ AppInForeground(session) /\ ~Locked
       /\ session.document.request = 0 /\ ~LaunchInProgress(session)
       /\ session.documents < bound.documents
       /\ session.generation < bound.launches
       /\ session' = IF candidates = {} THEN DocumentResult(asked, "error")
                     ELSE IF Cardinality(candidates) = 1
                     THEN OpenDocumentWith(asked, CHOOSE id \in candidates : TRUE)
                     ELSE [asked EXCEPT !.choosing = asked.document.request]
       /\ UNCHANGED <<cover, bound>>

\* The client library answers the list of candidates once, when the user
\* picks one or closes the list.
DocumentChoice(p, id) ==
    LET chosen == [session EXCEPT !.choosing = 0]
    IN
    /\ Connected(p)
    /\ session.document.request # 0
    /\ session.choosing = session.document.request
    /\ session.task[p].token = session.document.origin
    /\ id # NoApp => session.generation < bound.launches
    /\ session' = IF id = NoApp THEN DocumentResult(chosen, "cancelled")
                  ELSE OpenDocumentWith(chosen, id)
    /\ UNCHANGED <<cover, bound>>

HandlerResult(p, status) ==
    /\ Connected(p)
    /\ session.document.request # 0
    /\ session.document.handler = session.task[p].token
    /\ ~session.task[p].closing
    /\ session' = HandlerDocumentResult(session, p, status)
    /\ UNCHANGED <<cover, bound>>

\* A changed language or theme closes every client but the one that asked.
CloseForRestart(p) ==
    /\ Connected(p)
    /\ p = session.app /\ AppInForeground(session)
    /\ session.task[p].id \in Settings
    /\ ~LauncherOnTop(session)
    /\ LET closed[q \in 0 .. TaskMax + 1] ==
               IF q = 0 THEN session
               ELSE IF q = p THEN closed[q - 1] ELSE RequestClose(closed[q - 1], q)
       IN session' = closed[TaskMax + 1]
    /\ UNCHANGED <<cover, bound>>

Hangup(p) ==
    /\ Connected(p)
    /\ \/ session.task[p].closing \/ ~session.task[p].alive
       \/ session.crashes < bound.crashes
    /\ session' = RequestClose(
                    [session EXCEPT !.task[p].fd = "lost",
                                    !.crashes = IF \/ session.task[p].closing
                                                   \/ ~session.task[p].alive
                                                THEN @ ELSE @ + 1,
                                    !.task[p].bad = @ \/ ~session.task[p].closing],
                    p)
    /\ UNCHANGED <<cover, bound>>

\* fplinux_session_surface_committed()
SurfaceCommitted(p) ==
    LET process == session.task[p]
        busyDone == /\ p = session.app /\ process.ready
                    /\ session.launch.busy = "finishing"
        first == p = session.app /\ ~process.drawn
        idle == IF ~busyDone THEN session
                ELSE IF session.launch.starting
                THEN [session EXCEPT !.launch.busy = "no"]
                ELSE FinishLaunch(session)
        drawn == IF first
                 THEN FinishActivation([idle EXCEPT !.task[p].drawn = TRUE])
                 ELSE idle
    IN /\ IsRunning(process) /\ ~process.leaving
       /\ busyDone \/ first
       /\ Advances(drawn)
       /\ UNCHANGED <<cover, bound>>

\* A process ends, after CLOSE or by itself.
Die(p) ==
    /\ session.task[p].alive
    /\ session.task[p].closing \/ session.crashes < bound.crashes
    /\ session' = [session EXCEPT !.task[p].alive = FALSE,
                                  !.crashes = IF session.task[p].closing
                                              THEN @ ELSE @ + 1]
    /\ UNCHANGED <<cover, bound>>

ChangeCover(c) ==
    /\ c # cover
    /\ cover' = c
    /\ UNCHANGED <<session, bound>>

Advance ==
    /\ Advances(session)
    /\ UNCHANGED <<cover, bound>>

-----------------------------------------------------------------------------
(* The manager starts with no process.                                      *)

Init ==
    /\ session = [task |-> [p \in Records |-> NoProcess], app |-> Idle,
                  activate |-> {}, launch |-> NoLaunch, document |-> NoDocument,
                  generation |-> 0, nextToken |-> 0, nextClose |-> 0,
                  documents |-> 0, choosing |-> 0, returnToken |-> 0, failures |-> 0,
                  crashes |-> 0]
    /\ cover = {}
    /\ bound \in Scenarios

Statuses == {"accepted", "wait", "restart", "error", "cancelled"}

Next ==
    \/ \E p \in Processes :
          \/ Hello(p) \/ Ready(p) \/ Exit(p) \/ Hangup(p)
          \/ HomeMessage(p) \/ Die(p)
    \/ \E p \in Slots :
          \/ Activate(p) \/ CloseTask(p) \/ CloseForRestart(p)
          \/ SurfaceCommitted(p)
          \/ \E enabled \in BOOLEAN : Busy(p, enabled)
          \/ \E serial \in 1 .. session.nextClose,
               value \in {"ready", "cancel", "wait"} :
                CloseReplyMessage(p, serial, value)
          \/ \E serial \in 1 .. session.generation : ActivationAck(p, serial)
          \/ \E candidates \in SUBSET (Handlers \cap bound.opens) : OpenFile(p, candidates)
          \/ \E id \in (Handlers \cap bound.opens) \cup {NoApp} : DocumentChoice(p, id)
          \/ \E status \in Statuses : HandlerResult(p, status)
    \/ \E id \in bound.apps : LaunchMessage(id)
    \/ HomeKey
    \/ CancelMessage
    \/ \E c \in SUBSET bound.covers : ChangeCover(c)
    \/ Advance

Spec == Init /\ [][Next]_vars

-----------------------------------------------------------------------------
(* Properties.                                                              *)

ProcessType ==
    [up : BOOLEAN, alive : BOOLEAN, id : Apps \cup {NoApp}, token : Nat,
     closing : BOOLEAN, life : {"foreground", "background", "closing"},
     fd : {"never", "open", "lost"}, ready : BOOLEAN,
     drawn : BOOLEAN, shown : BOOLEAN, leaving : BOOLEAN, park : BOOLEAN,
     close : Nat, waiting : BOOLEAN, bad : BOOLEAN,
     origin : Nat]

\* The type of the state; idle_app never becomes a process.
TypeOK ==
    /\ session.task \in [Records -> ProcessType]
    /\ session.task[Idle] = NoProcess
    /\ session.app \in Slots \cup {Idle}
    /\ session.activate \subseteq Slots
    /\ session.launch \in
          [pending : Apps \cup {NoApp}, id : Apps \cup {NoApp},
           starting : BOOLEAN, retained : BOOLEAN, acked : BOOLEAN,
           busy : {"no", "yes", "finishing"}, act : {"open", "resume"}]
    /\ session.document \in
          [request : Nat, serial : Nat, origin : Nat, handler : Nat,
           id : Apps \cup {NoApp}, waiting : BOOLEAN, restarted : BOOLEAN,
           restarting : BOOLEAN, detached : BOOLEAN]
    /\ {session.generation, session.nextToken, session.nextClose,
        session.documents, session.choosing, session.returnToken, session.failures,
        session.crashes} \subseteq Nat
    /\ cover \subseteq bound.covers

\* An application runs at most once: a launch resumes the instance that is
\* registered, and none is forked before a closing one is reaped.
OneInstance ==
    \A p, q \in Slots :
        /\ session.task[p].up /\ session.task[q].up
        /\ session.task[p].id = session.task[q].id
        => p = q

\* Only the selected record is in the foreground, shown or leaving: no task
\* keeps the screen or the keys after another one was selected.
OnlyApp ==
    \A p \in Slots \ {session.app} :
        session.task[p].up =>
            /\ ~session.task[p].shown /\ ~session.task[p].leaving
            /\ session.task[p].life # "foreground"

\* The registry as a whole.
RegistryOK == TypeOK /\ OneInstance /\ OnlyApp

\* The launch card belongs to somebody: while an operation is under way its
\* application waits to be started, or is the selected process.  Otherwise no
\* commit, exit or reap could take the card away.
LaunchHasOwner ==
    LaunchInProgress(session) =>
        \/ session.launch.pending # NoApp
        \/ App(session).up /\ App(session).id = session.launch.id

\* A document never names a process that was reaped, so that its answer and
\* its return cannot reach a later instance.
DocumentNamesLive ==
    session.document.request # 0 =>
        /\ TaskForToken(session, session.document.origin) # Nobody
        /\ session.document.handler # 0 =>
              TaskForToken(session, session.document.handler) # Nobody

\* A document under way always has somebody who will end it: the launch that
\* carries it, its handler, or the restart that follows the handler's end.
DocumentAccounted ==
    session.document.request # 0 /\ session.document.serial # 0 =>
        \/ session.launch.starting /\ session.generation = session.document.serial
        \/ session.document.handler # 0
        \/ session.document.restarting

\* What is known of a document under way.
DocumentOK == DocumentNamesLive /\ DocumentAccounted

\* A document that was given to a handler reaches it.  While the launch that
\* carries it goes on, the end of the launcher (a fullscreen handler starts
\* only after it) does not take the document away.
DocumentReachesHandler ==
    [][LET document == session.document
           origin == TaskForToken(session, document.origin)
       IN /\ document.request # 0 /\ document.handler = 0
          /\ session.launch.starting /\ document.serial = session.generation
          /\ session.task[origin].alive
          /\ session.task[Launcher].up /\ ~session'.task[Launcher].up
          /\ session'.launch.starting
          /\ session'.generation = session.generation
          => session'.document.request = document.request]_vars

-----------------------------------------------------------------------------
(* Liveness.  advance() is called again and again: at once for a message or *)
(* a process that ended (its pidfd), and every 100 ms while a timer runs    *)
(* (needs_tick), so that each timer runs out.  Nothing is assumed of the    *)
(* applications, of the launcher or of the user.                            *)

TimerRunsOut(t) ==
    /\ \E late \in SUBSET Armed(session), start \in Outcomes(session) :
          t \in late /\ session' = ManageProcesses(session, late, start)
    /\ UNCHANGED <<cover, bound>>

\* The timer runs and its handler has something to do.
Fires(t) ==
    t \in Armed(session) /\ ManageProcesses(session, {t}, "ok") # session

\* Weak fairness of a timer: WF_vars with the enabling condition written out,
\* which spares TLC the evaluation of ENABLED through manage_processes().
FairTimer(t) == []<>~Fires(t) \/ []<><<TimerRunsOut(t)>>_vars

\* advance() follows every message, and itself 100 ms later as long as it asks for
\* a tick: what it has to do when no timer has run out is done.
NoTimer ==
    /\ \E start \in Outcomes(session) : session' = ManageProcesses(session, {}, start)
    /\ UNCHANGED <<cover, bound>>

FairAdvance ==
    []<>(ManageProcesses(session, {}, "ok") = session) \/ []<><<NoTimer>>_vars

FairSpec == Spec /\ FairAdvance /\ FairTimer(<<"launch", Launcher>>)

\* A launch does not stay on the screen for ever: it is shown, fails, is
\* cancelled or runs into its timer, unless a document waits for a decision.
LaunchEnds ==
    session.launch.starting ~>
        ~session.launch.starting \/ session.document.waiting

\* A document that was given to a handler gets there or is answered, unless its
\* handler restarts while another application is BUSY: manage_processes() starts
\* it again only when nothing is in progress, and no timer bounds BUSY.
DocumentDecided ==
    session.document.request # 0 /\ session.document.serial # 0 ~>
        \/ session.document.request = 0 \/ session.document.handler # 0
        \/ session.document.restarting /\ session.launch.busy # "no"

\* What the user has started comes to an end by the manager's timers, except for
\* what waits for an application's own decision or BUSY: the launch and the
\* delivery of a document to its handler.
OperationEnds == LaunchEnds /\ DocumentDecided
=============================================================================
