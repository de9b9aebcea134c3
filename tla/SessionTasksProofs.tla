------------------------- MODULE SessionTasksProofs -------------------------
(***************************************************************************)
(* The session manager's registry, for every number of applications and of  *)
(* tasks: an application runs at most once, only the selected one has the   *)
(* screen, a launch under way has an owner, and a document under way names  *)
(* live processes and somebody who will end it.                             *)
(*                                                                         *)
(* The C functions are operators on a session record, so most lemmas say    *)
(* that one of them keeps the invariant of a session s.                     *)
(***************************************************************************)
EXTENDS SessionTasks, WellFoundedInduction, TLAPS

LaunchType ==
    [pending : Apps \cup {NoApp}, id : Apps \cup {NoApp}, starting : BOOLEAN,
     retained : BOOLEAN, acked : BOOLEAN, busy : {"no", "yes", "finishing"},
     act : {"open", "resume"}]

DocumentType ==
    [request : Nat, serial : Nat, origin : Nat, handler : Nat, id : Apps \cup {NoApp},
     waiting : BOOLEAN, restarted : BOOLEAN, restarting : BOOLEAN, detached : BOOLEAN]

SessionType ==
    [task : [Records -> ProcessType], app : Slots \cup {Idle}, activate : SUBSET Slots,
     launch : LaunchType, document : DocumentType, generation : Nat, nextToken : Nat,
     nextClose : Nat, documents : Nat, choosing : Nat, returnToken : Nat, failures : Nat,
     crashes : Nat]

\* What was shown, or has left, has said HELLO before.
Greeted(process) == process.ready \/ process.shown \/ process.leaving => process.fd # "never"

\* The processes: an application has one, only the selected one has the screen,
\* and tokens tell them apart.
Registry(s) ==
    /\ s \in SessionType /\ s.task[Idle] = NoProcess
    /\ \A p, q \in Slots :
          s.task[p].up /\ s.task[q].up =>
              /\ s.task[p].id = s.task[q].id => p = q
              /\ s.task[p].token = s.task[q].token => p = q
    /\ \A p \in Slots \ {s.app} :
          s.task[p].up =>
              ~s.task[p].shown /\ ~s.task[p].leaving /\ s.task[p].life # "foreground"
    /\ \A p \in Slots :
          /\ s.task[p].up =>
                /\ s.task[p].id \in Apps
                /\ s.task[p].token # 0 /\ s.task[p].token <= s.nextToken
          /\ Greeted(s.task[p])

\* The launch: the application that is pending is the launch's, and after it was
\* started the launch is the selected application's, which has not left.
Launching(s) ==
    /\ s.launch.starting => s.generation # 0
    /\ s.launch.starting /\ s.launch.pending # NoApp => s.launch.id = s.launch.pending
    /\ s.launch.acked \/ s.launch.busy # "no" => s.launch.pending = NoApp
    /\ LaunchInProgress(s) /\ s.launch.pending = NoApp =>
          App(s).up /\ ~App(s).leaving /\ App(s).id = s.launch.id

\* The application before a pending one is on its way out.
Parked(s) == s.launch.pending # NoApp => ~AppInForeground(s)

Live(s, token) == \E p \in Slots : token # 0 /\ s.task[p].up /\ s.task[p].token = token

\* The launch under way is the document's.
Carried(s) ==
    s.document.request # 0 /\ s.launch.starting /\ s.document.serial = s.generation

\* What a document names, and what its launch has told it: the handler is the
\* selected application once that was started, and before only a process that is
\* closing may have taken the document for its own.
DocumentNames(s) ==
    /\ s.document.request = 0 =>
          s.document.serial = 0 /\ s.document.handler = 0 /\ ~s.document.restarting
    /\ s.document.request # 0 => Live(s, s.document.origin)
    /\ s.document.handler # 0 => Live(s, s.document.handler)
    /\ s.document.serial <= s.generation
    /\ s.document.handler # 0 \/ s.document.restarting => s.document.serial # 0
    /\ s.document.serial # 0 <=> s.document.id # NoApp
    /\ s.document.request <= s.documents /\ s.choosing <= s.documents
    /\ s.document.request # 0 /\ s.choosing = s.document.request => s.document.serial = 0
    /\ Carried(s) =>
          /\ s.document.id = s.launch.id /\ s.launch.act = "open" /\ ~s.document.restarting
          /\ s.launch.pending = NoApp =>
                s.document.handler # 0 /\ s.document.handler = App(s).token
          /\ s.launch.pending # NoApp =>
                \A p \in Slots :
                    s.task[p].up /\ s.task[p].token = s.document.handler => s.task[p].closing

\* Without a launch that carries it a document is its handler's or restarts.
Settled(s) ==
    s.document.request # 0 /\ s.document.serial # 0 =>
        s.document.handler # 0 \/ s.document.restarting

Accounted(s) == Carried(s) \/ Settled(s)

\* The inductive invariant, of a session.
SessionInv(s) ==
    Registry(s) /\ Launching(s) /\ Parked(s) /\ DocumentNames(s) /\ Accounted(s)

-----------------------------------------------------------------------------
(* Steps that leave most of a session alone.                               *)

\* A process whose identity and place stay: it may begin to close, and only the
\* selected one may be shown or come to the foreground.
KeptTask(s, p, r) ==
    LET process == s.task[p]
    IN /\ r.up = process.up /\ r.id = process.id /\ r.token = process.token
       /\ r.leaving = process.leaving
       /\ process.closing => r.closing
       /\ r.life = "foreground" => process.life = "foreground" \/ p = s.app
       /\ r.shown => process.shown \/ p = s.app
       /\ Greeted(process) => Greeted(r)

\* Apart from the processes nothing changes that the invariant speaks of.
Beside(s, t) ==
    /\ t \in SessionType
    /\ t.app = s.app /\ t.launch = s.launch /\ t.document = s.document
    /\ t.generation = s.generation /\ t.nextToken = s.nextToken
    /\ t.documents = s.documents /\ t.choosing = s.choosing

Kept(s, t) ==
    /\ Beside(s, t) /\ t.task[Idle] = s.task[Idle]
    /\ \A p \in Slots : KeptTask(s, p, t.task[p])

SameDocument(d, e) ==
    /\ e.request = d.request /\ e.serial = d.serial /\ e.origin = d.origin
    /\ e.handler = d.handler /\ e.id = d.id /\ e.restarting = d.restarting

\* What a document knows stays: the processes, and the launch unless it ends
\* after it was started.
Still(s, t) ==
    /\ SameDocument(s.document, t.document)
    /\ t.generation >= s.generation /\ t.documents = s.documents
    /\ t.choosing = s.choosing \/ t.choosing = 0
    /\ \A p \in Slots :
          /\ t.task[p].up = s.task[p].up /\ t.task[p].token = s.task[p].token
          /\ s.task[p].closing => t.task[p].closing
    /\ t.launch.starting =>
          /\ s.launch.starting /\ t.generation = s.generation
          /\ t.launch.pending = s.launch.pending /\ t.launch.id = s.launch.id
          /\ t.launch.act = s.launch.act
          /\ t.launch.pending = NoApp => App(t).token = App(s).token
    /\ s.launch.starting /\ ~t.launch.starting => s.launch.pending = NoApp

\* The sets of records.
LEMMA RecordSets ==
  /\ Launcher \in Processes /\ Launcher \notin Slots /\ Idle \notin Processes
  /\ Idle \in Records /\ Slots \subseteq Processes /\ Processes \subseteq Records
  /\ Idle \notin Slots /\ Nobody \notin Records
  /\ \A p \in Processes : p # Launcher => p \in Slots
  /\ \A p \in Records : p # Idle => p \in Processes
  BY SessionAssumption DEF SessionAssumption, Launcher, Slots, Idle, Nobody, Processes, Records

\* Such a step keeps what is known of the processes.
LEMMA KeptRegistry ==
  ASSUME NEW s, NEW t, Registry(s), Kept(s, t)
  PROVE  Registry(t)
  <1>1. \A p \in Slots : KeptTask(s, p, t.task[p])
    BY DEF Kept, Beside
  <1>2. t \in SessionType /\ t.task[Idle] = NoProcess /\ t.app = s.app
        /\ t.nextToken = s.nextToken
    BY DEF Kept, Beside, Registry
  <1>3. \A p, q \in Slots :
          t.task[p].up /\ t.task[q].up =>
              /\ t.task[p].id = t.task[q].id => p = q
              /\ t.task[p].token = t.task[q].token => p = q
    BY <1>1 DEF Registry, KeptTask
  <1>4. \A p \in Slots \ {t.app} :
          t.task[p].up =>
              ~t.task[p].shown /\ ~t.task[p].leaving /\ t.task[p].life # "foreground"
    BY <1>1, <1>2 DEF Registry, KeptTask
  <1>5. \A p \in Slots :
          /\ t.task[p].up =>
                /\ t.task[p].id \in Apps
                /\ t.task[p].token # 0 /\ t.task[p].token <= t.nextToken
          /\ Greeted(t.task[p])
    BY <1>1, <1>2 DEF Registry, KeptTask
  <1> QED
    BY <1>2, <1>3, <1>4, <1>5 DEF Registry

\* The selected record, and what a step keeps of it.
LEMMA KeptApp ==
  ASSUME NEW s, NEW t, Registry(s), Kept(s, t)
  PROVE  /\ App(t).up = App(s).up /\ App(t).id = App(s).id /\ App(t).token = App(s).token
         /\ App(t).leaving = App(s).leaving
         /\ App(s).closing => App(t).closing
  <1>1. t.app = s.app /\ (s.app = Idle \/ s.app \in Slots)
    BY DEF Kept, Beside, Registry, SessionType
  <1>2. CASE s.app = Idle
    BY <1>1, <1>2 DEF Kept, Beside, App
  <1>3. CASE s.app \in Slots
    BY <1>1, <1>3 DEF Kept, Beside, App, KeptTask
  <1> QED
    BY <1>1, <1>2, <1>3

\* It keeps the launch and all that a document knows, too.
LEMMA KeptLaunch ==
  ASSUME NEW s, NEW t, Registry(s), Kept(s, t)
  PROVE  /\ Launching(s) => Launching(t)
         /\ Parked(s) => Parked(t)
         /\ Still(s, t)
  <1>1. /\ App(t).up = App(s).up /\ App(t).id = App(s).id /\ App(t).token = App(s).token
        /\ App(t).leaving = App(s).leaving
        /\ App(s).closing => App(t).closing
    BY KeptApp
  <1>2. /\ t.launch = s.launch /\ t.document = s.document /\ t.generation = s.generation
        /\ t.documents = s.documents /\ t.choosing = s.choosing
    BY DEF Kept, Beside
  <1>3. s.generation \in Nat
    BY DEF Registry, SessionType
  <1>4. \A p \in Slots : KeptTask(s, p, t.task[p])
    BY DEF Kept, Beside
  <1>5. Launching(s) => Launching(t)
    BY <1>1, <1>2 DEF Launching, LaunchInProgress
  <1>6. Parked(s) => Parked(t)
    BY <1>1, <1>2 DEF Parked, AppInForeground, IsRunning
  <1>7. Still(s, t)
    BY <1>1, <1>2, <1>3, <1>4 DEF Still, SameDocument, KeptTask
  <1> QED
    BY <1>5, <1>6, <1>7

\* A document does not notice a step that leaves what it knows.
LEMMA StillDocuments ==
  ASSUME NEW s, NEW t, Registry(s), Still(s, t), t \in SessionType
  PROVE  /\ DocumentNames(s) => DocumentNames(t)
         /\ DocumentNames(s) /\ Accounted(s) => Accounted(t)
         /\ Settled(s) => Settled(t)
  <1>1. /\ s.generation \in Nat /\ t.generation \in Nat /\ s.document.serial \in Nat
        /\ s.documents \in Nat /\ s.document.request \in Nat /\ s.choosing \in Nat
    BY DEF Registry, SessionType, DocumentType
  <1>2. \A token : Live(s, token) <=> Live(t, token)
    BY DEF Still, Live
  <1>3. ASSUME DocumentNames(s) PROVE DocumentNames(t)
    <2>1. Carried(t) => Carried(s)
      BY DEF Still, SameDocument, Carried
    <2>2. /\ t.document.request = 0 =>
                t.document.serial = 0 /\ t.document.handler = 0 /\ ~t.document.restarting
          /\ t.document.request # 0 => Live(t, t.document.origin)
          /\ t.document.handler # 0 => Live(t, t.document.handler)
          /\ t.document.handler # 0 \/ t.document.restarting => t.document.serial # 0
          /\ t.document.serial # 0 <=> t.document.id # NoApp
      BY <1>2, <1>3 DEF Still, SameDocument, DocumentNames
    <2>3. /\ t.document.serial <= t.generation
          /\ t.document.request <= t.documents /\ t.choosing <= t.documents
          /\ t.document.request # 0 /\ t.choosing = t.document.request => t.document.serial = 0
      BY <1>1, <1>3 DEF Still, SameDocument, DocumentNames
    <2>4. Carried(t) =>
            /\ t.document.id = t.launch.id /\ t.launch.act = "open" /\ ~t.document.restarting
            /\ t.launch.pending = NoApp =>
                  t.document.handler # 0 /\ t.document.handler = App(t).token
            /\ t.launch.pending # NoApp =>
                  \A p \in Slots :
                      t.task[p].up /\ t.task[p].token = t.document.handler => t.task[p].closing
      <3> SUFFICES ASSUME Carried(t)
                   PROVE  /\ t.document.id = t.launch.id /\ t.launch.act = "open"
                          /\ ~t.document.restarting
                          /\ t.launch.pending = NoApp =>
                                t.document.handler # 0 /\ t.document.handler = App(t).token
                          /\ t.launch.pending # NoApp =>
                                \A p \in Slots :
                                    t.task[p].up /\ t.task[p].token = t.document.handler
                                        => t.task[p].closing
        OBVIOUS
      <3>1. Carried(s) /\ t.launch.starting
        BY <2>1 DEF Carried
      <3> QED
        BY <1>3, <3>1 DEF Still, SameDocument, DocumentNames
    <2> QED
      BY <2>2, <2>3, <2>4 DEF DocumentNames
  <1>4. ASSUME DocumentNames(s), Accounted(s) PROVE Accounted(t)
    <2>1. CASE Carried(s) /\ t.launch.starting
      BY <2>1 DEF Still, SameDocument, Accounted, Carried
    <2>2. CASE Carried(s) /\ ~t.launch.starting
      BY <1>4, <2>2 DEF Still, SameDocument, Accounted, Carried, Settled, DocumentNames
    <2>3. CASE Settled(s)
      BY <2>3 DEF Still, SameDocument, Accounted, Settled
    <2> QED
      BY <1>4, <2>1, <2>2, <2>3 DEF Accounted
  <1>5. Settled(s) => Settled(t)
    BY DEF Still, SameDocument, Settled
  <1> QED
    BY <1>3, <1>4, <1>5

\* So a step that changes nothing of this keeps the invariant.
LEMMA KeptInv ==
  ASSUME NEW s, NEW t, SessionInv(s), Kept(s, t)
  PROVE  SessionInv(t)
  <1>1. Registry(s) /\ Launching(s) /\ Parked(s) /\ DocumentNames(s) /\ Accounted(s)
    BY DEF SessionInv
  <1>2. Registry(t) /\ Launching(t) /\ Parked(t) /\ Still(s, t)
    BY <1>1, KeptRegistry, KeptLaunch
  <1>3. t \in SessionType
    BY DEF Kept, Beside
  <1> QED
    BY <1>1, <1>2, <1>3, StillDocuments DEF SessionInv

\* No process but p changes.
OnlyTask(s, t, p) == \A q \in Records : q # p => t.task[q] = s.task[q]

\* One process changes.
LEMMA EditKept ==
  ASSUME NEW s, NEW t, NEW p, p # Idle, Beside(s, t), OnlyTask(s, t, p),
         p \in Slots => KeptTask(s, p, t.task[p])
  PROVE  Kept(s, t)
  <1>1. t.task[Idle] = s.task[Idle]
    BY RecordSets DEF OnlyTask
  <1>2. \A q \in Slots : KeptTask(s, q, t.task[q])
    <2> TAKE q \in Slots
    <2>1. q \in Records
      BY RecordSets
    <2>2. CASE q = p
      BY <2>2
    <2>3. CASE q # p
      BY <2>1, <2>3 DEF KeptTask, OnlyTask
    <2> QED
      BY <2>2, <2>3
  <1> QED
    BY <1>1, <1>2 DEF Kept

\* Counters and marks outside the processes are such a step.
LEMMA SameKept ==
  ASSUME NEW s, NEW t, Beside(s, t), t.task = s.task
  PROVE  Kept(s, t)
  BY DEF Kept, KeptTask

\* Changing nothing is such a step.
LEMMA KeptSelf ==
  ASSUME NEW s \in SessionType
  PROVE  Kept(s, s)
  BY DEF Kept, KeptTask, Beside

\* Two such steps in a row are one.
LEMMA KeptKept ==
  ASSUME NEW s, NEW t, NEW u, Kept(s, t), Kept(t, u)
  PROVE  Kept(s, u)
  <1>1. Beside(s, u) /\ u.task[Idle] = s.task[Idle] /\ t.app = s.app
    BY DEF Kept, Beside
  <1>2. \A p \in Slots : KeptTask(s, p, u.task[p])
    BY <1>1 DEF Kept, KeptTask
  <1> QED
    BY <1>1, <1>2 DEF Kept

\* Only the selected record comes to the foreground.
LEMMA SetLifecycleKept ==
  ASSUME NEW s, Registry(s), NEW p \in Records,
         NEW life \in {"foreground", "background", "closing"},
         life = "foreground" => p = s.app
  PROVE  /\ Kept(s, SetLifecycle(s, p, life))
         /\ SetLifecycle(s, p, life).task[p].closing = s.task[p].closing
  <1> DEFINE t == SetLifecycle(s, p, life)
             r == [s.task[p] EXCEPT !.life = life]
  <1>1. s \in SessionType /\ s.task[Idle] = NoProcess /\ s.task[p] \in ProcessType
    BY DEF Registry, SessionType
  <1>2. CASE s.task[p].up /\ p # Launcher
    <2>1. p # Idle
      BY <1>1, <1>2 DEF NoProcess
    <2>2. r \in ProcessType
      BY <1>1 DEF ProcessType
    <2>3. KeptTask(s, p, r)
      BY <1>1 DEF KeptTask, ProcessType, Greeted
    <2>4. t = [s EXCEPT !.task = [s.task EXCEPT ![p] = r]]
      BY <1>1, <1>2 DEF SetLifecycle, SessionType, ProcessType
    <2>5. t.task = [s.task EXCEPT ![p] = r]
      BY <1>1, <2>4 DEF SessionType
    <2>a. Beside(s, t)
      BY <1>1, <2>2, <2>4 DEF SessionType, Beside
    <2>6. r.closing = s.task[p].closing
      BY <1>1 DEF ProcessType
    <2> HIDE DEF t, r
    <2>7. t.task[p] = r /\ \A q \in Records : q # p => t.task[q] = s.task[q]
      BY <1>1, <2>5 DEF SessionType
    <2>8. KeptTask(s, p, t.task[p])
      BY <2>3, <2>7
    <2>9. OnlyTask(s, t, p)
      BY <2>7 DEF OnlyTask
    <2>10. Kept(s, t)
      BY <2>1, <2>a, <2>8, <2>9, EditKept
    <2> QED
      BY <2>6, <2>7, <2>10 DEF t
  <1>3. CASE ~(s.task[p].up /\ p # Launcher)
    <2>1. t = s
      BY <1>3 DEF SetLifecycle
    <2> QED
      BY <1>1, <2>1, KeptSelf
  <1> QED
    BY <1>2, <1>3

\* request_close()
LEMMA RequestCloseKept ==
  ASSUME NEW s, Registry(s), NEW p \in Records
  PROVE  Kept(s, RequestClose(s, p)) /\ ~IsRunning(RequestClose(s, p).task[p])
  <1> DEFINE r == [s.task[p] EXCEPT !.closing = TRUE, !.close = 0, !.waiting = FALSE]
             t == [s EXCEPT !.task[p].closing = TRUE, !.task[p].close = 0,
                            !.task[p].waiting = FALSE, !.activate = @ \ {p}]
  <1>1. s \in SessionType /\ s.task[Idle] = NoProcess /\ s.task[p] \in ProcessType
    BY DEF Registry, SessionType
  <1>2. CASE IsRunning(s.task[p])
    <2>1. p # Idle
      BY <1>1, <1>2 DEF NoProcess, IsRunning
    <2>2. r \in ProcessType
      BY <1>1 DEF ProcessType
    <2>3. KeptTask(s, p, r)
      BY <1>1 DEF KeptTask, ProcessType, Greeted
    <2>4. t.task = [s.task EXCEPT ![p] = r]
      BY <1>1 DEF SessionType, ProcessType
    <2>5. t = [s EXCEPT !.task = t.task, !.activate = s.activate \ {p}]
      BY <1>1, <2>4 DEF SessionType
    <2>6. Beside(s, t)
      BY <1>1, <2>2, <2>4, <2>5 DEF SessionType, Beside
    <2>7. r.closing
      BY <1>1 DEF ProcessType
    <2> HIDE DEF t, r
    <2>8. t.task[p] = r /\ \A q \in Records : q # p => t.task[q] = s.task[q]
      BY <1>1, <2>4 DEF SessionType
    <2>a. Kept(s, t)
      <3>1. OnlyTask(s, t, p)
        BY <2>8 DEF OnlyTask
      <3>2. KeptTask(s, p, t.task[p])
        BY <2>3, <2>8
      <3> QED
        BY <2>1, <2>6, <3>1, <3>2, EditKept
    <2>9. Registry(t)
      BY <2>a, KeptRegistry
    <2>10. /\ Kept(t, SetLifecycle(t, p, "closing"))
           /\ SetLifecycle(t, p, "closing").task[p].closing = t.task[p].closing
      BY <2>9, SetLifecycleKept
    <2>11. RequestClose(s, p) = SetLifecycle(t, p, "closing")
      BY <1>2 DEF RequestClose, t
    <2> QED
      BY <2>7, <2>8, <2>a, <2>10, <2>11, KeptKept DEF IsRunning
  <1>3. CASE ~IsRunning(s.task[p])
    <2>1. RequestClose(s, p) = s
      BY <1>3 DEF RequestClose
    <2> QED
      BY <1>1, <1>3, <2>1, KeptSelf
  <1> QED
    BY <1>2, <1>3

-----------------------------------------------------------------------------
(* The end of a launch, and an application that leaves the screen.          *)

\* Only the launch, the lists and the counters change.
Within(s, t) ==
    /\ t \in SessionType /\ t.task = s.task /\ t.app = s.app
    /\ t.document = s.document /\ t.nextToken = s.nextToken
    /\ t.generation = s.generation
    /\ t.documents = s.documents /\ t.choosing = s.choosing

\* A step that leaves processes and tokens alone keeps the registry.
LEMMA RegistryFrame ==
  ASSUME NEW s, NEW t, Registry(s), t \in SessionType, t.task = s.task, t.app = s.app,
         t.nextToken = s.nextToken
  PROVE  Registry(t)
  BY DEF Registry

\* No launch is under way in t.
LEMMA QuietLaunch ==
  ASSUME NEW s, NEW t, Registry(s), Within(s, t),
         ~t.launch.starting, t.launch.busy = "no",
         t.launch.acked => t.launch.pending = NoApp,
         t.launch.pending \in {NoApp, s.launch.pending}
  PROVE  /\ Registry(t) /\ Launching(t) /\ ~LaunchInProgress(t)
         /\ Parked(s) => Parked(t)
         /\ DocumentNames(s) => DocumentNames(t)
         /\ Settled(s) => Settled(t)
         /\ Still(s, t) \/ s.launch.starting
         /\ s.launch.pending = NoApp => Still(s, t)
  <1>1. Registry(t)
    BY RegistryFrame DEF Within
  <1>2. Launching(t) /\ ~LaunchInProgress(t) /\ ~Carried(t)
    BY DEF Launching, LaunchInProgress, Carried
  <1>3. Parked(s) => Parked(t)
    BY DEF Within, Parked, AppInForeground, App
  <1>4. DocumentNames(s) => DocumentNames(t)
    BY <1>2 DEF Within, DocumentNames, Live
  <1>5. Settled(s) => Settled(t)
    BY DEF Within, Settled
  <1>6. s.generation \in Nat
    BY DEF Registry, SessionType
  <1>7. s.launch.pending = NoApp => Still(s, t)
    BY <1>6 DEF Within, Still, SameDocument
  <1>8. ~s.launch.starting => Still(s, t)
    BY <1>6 DEF Within, Still, SameDocument
  <1> QED
    BY <1>1, <1>2, <1>3, <1>4, <1>5, <1>7, <1>8

\* finish_launch(), of a pending launch too.
LEMMA FinishLaunchFacts ==
  ASSUME NEW s, Registry(s)
  PROVE  LET t == FinishLaunch(s)
             u == FinishLaunch(ClearPending(s))
             v == ClearPending(s)
         IN /\ Within(s, t) /\ ~t.launch.starting /\ t.launch.busy = "no" /\ ~t.launch.acked
            /\ t.launch.pending = s.launch.pending
            /\ Within(s, u) /\ ~u.launch.starting /\ u.launch.busy = "no" /\ ~u.launch.acked
            /\ u.launch.pending = NoApp
            /\ Within(s, v) /\ v.launch = [s.launch EXCEPT !.pending = NoApp]
  <1>1. s \in SessionType /\ s.launch \in LaunchType
    BY DEF Registry, SessionType
  <1> DEFINE quiet(x) == [NoLaunch EXCEPT !.pending = x.launch.pending, !.act = x.launch.act]
             v == ClearPending(s)
  <1>2. v.launch = [s.launch EXCEPT !.pending = NoApp] /\ v.launch \in LaunchType
    BY <1>1 DEF ClearPending, SessionType, LaunchType
  <1>3. Within(s, v)
    BY <1>1, <1>2 DEF Within, ClearPending, SessionType
  <1>4. \A x \in SessionType :
          /\ Within(x, FinishLaunch(x)) /\ FinishLaunch(x).launch = quiet(x)
    <2> TAKE x \in SessionType
    <2>1. x.launch \in LaunchType
      BY DEF SessionType
    <2>2. quiet(x) \in LaunchType
      BY <2>1 DEF LaunchType, NoLaunch
    <2> HIDE DEF quiet
    <2>3. FinishLaunch(x) = [x EXCEPT !.launch = quiet(x)]
      BY DEF FinishLaunch, quiet
    <2> QED
      BY <2>2, <2>3 DEF SessionType, Within
  <1>5. \A x \in SessionType :
          /\ ~quiet(x).starting /\ quiet(x).busy = "no" /\ ~quiet(x).acked
          /\ quiet(x).pending = x.launch.pending
    BY DEF NoLaunch
  <1>6. v \in SessionType /\ v.launch.pending = NoApp
    BY <1>1, <1>2, <1>3 DEF Within, LaunchType
  <1> HIDE DEF quiet, v
  <1>7. Within(v, FinishLaunch(v)) /\ Within(s, FinishLaunch(s))
    BY <1>1, <1>4, <1>6
  <1>8. Within(s, FinishLaunch(v))
    BY <1>3, <1>7 DEF Within
  <1>9. /\ FinishLaunch(v).launch = quiet(v) /\ FinishLaunch(s).launch = quiet(s)
    BY <1>1, <1>4, <1>6
  <1> QED
    BY <1>1, <1>2, <1>3, <1>5, <1>6, <1>7, <1>8, <1>9 DEF v

\* finish_launch(): the launch may end once it was started, or when no document
\* depends on it.
LEMMA FinishLaunchInv ==
  ASSUME NEW s, SessionInv(s), s.launch.pending = NoApp \/ Settled(s)
  PROVE  /\ SessionInv(FinishLaunch(s)) /\ ~LaunchInProgress(FinishLaunch(s))
         /\ Settled(s) => Settled(FinishLaunch(s))
  <1> DEFINE t == FinishLaunch(s)
  <1>1. Registry(s) /\ Launching(s) /\ Parked(s) /\ DocumentNames(s) /\ Accounted(s)
    BY DEF SessionInv
  <1>2. /\ Within(s, t) /\ ~t.launch.starting /\ t.launch.busy = "no" /\ ~t.launch.acked
        /\ t.launch.pending = s.launch.pending
    BY <1>1, FinishLaunchFacts
  <1> HIDE DEF t
  <1>3. /\ Registry(t) /\ Launching(t) /\ ~LaunchInProgress(t)
        /\ Parked(t) /\ DocumentNames(t)
        /\ Settled(s) => Settled(t)
        /\ s.launch.pending = NoApp => Still(s, t)
    BY <1>1, <1>2, QuietLaunch
  <1>4. t \in SessionType
    BY <1>2 DEF Within
  <1>5. Accounted(t)
    BY <1>1, <1>3, <1>4, StillDocuments DEF Accounted
  <1> QED
    BY <1>3, <1>5 DEF SessionInv, t

\* A pending launch is dropped when the document does not depend on it.
LEMMA DropLaunchInv ==
  ASSUME NEW s, SessionInv(s), Settled(s)
  PROVE  /\ SessionInv(FinishLaunch(ClearPending(s)))
         /\ ~LaunchInProgress(FinishLaunch(ClearPending(s)))
         /\ FinishLaunch(ClearPending(s)).launch.pending = NoApp
  <1> DEFINE t == FinishLaunch(ClearPending(s))
  <1>1. Registry(s) /\ Launching(s) /\ Parked(s) /\ DocumentNames(s) /\ Accounted(s)
    BY DEF SessionInv
  <1>2. /\ Within(s, t) /\ ~t.launch.starting /\ t.launch.busy = "no" /\ ~t.launch.acked
        /\ t.launch.pending = NoApp
    BY <1>1, FinishLaunchFacts
  <1> HIDE DEF t
  <1>3. /\ Registry(t) /\ Launching(t) /\ ~LaunchInProgress(t)
        /\ Parked(t) /\ DocumentNames(t) /\ Settled(t)
    BY <1>1, <1>2, QuietLaunch
  <1> QED
    BY <1>2, <1>3 DEF SessionInv, Accounted, t

\* park_app(), which never takes the card of a launch from its owner.
LEMMA ParkAppFacts ==
  ASSUME NEW s, Registry(s), ~(LaunchInProgress(s) /\ s.launch.pending = NoApp)
  PROVE  LET t == ParkApp(s)
         IN /\ Registry(t) /\ t.launch = s.launch /\ t.generation = s.generation
            /\ Launching(s) => Launching(t)
            /\ Parked(t) /\ Still(s, t)
  <1>1. s \in SessionType /\ s.task[Idle] = NoProcess /\ s.app \in Records
    BY RecordSets DEF Registry, SessionType
  <1>2. CASE ~App(s).up
    <2>1. ParkApp(s) = s
      BY <1>2 DEF ParkApp
    <2>2. Still(s, s) /\ Parked(s)
      BY <1>1, <1>2, KeptSelf, KeptLaunch DEF Parked, AppInForeground, IsRunning
    <2> QED
      BY <2>1, <2>2
  <1>3. CASE App(s).up
    <2> DEFINE p == s.app
               r == [s.task[p] EXCEPT !.shown = FALSE, !.leaving = FALSE, !.park = FALSE]
               a == [s EXCEPT !.task[s.app].shown = FALSE, !.task[s.app].leaving = FALSE,
                              !.task[s.app].park = FALSE]
               q == [r EXCEPT !.life = "background"]
               t == ParkApp(s)
    <2>1. p \in Slots /\ p # Idle /\ p # Launcher /\ p \in Records
      BY <1>1, <1>3, RecordSets DEF App, NoProcess, Registry, SessionType
    <2>2. s.task[p] \in ProcessType /\ s.task[p].up
      BY <1>1, <1>3 DEF SessionType, App
    <2>3. r \in ProcessType /\ q \in ProcessType
      BY <2>2 DEF ProcessType
    <2>4. a.task = [s.task EXCEPT ![p] = r]
      BY <1>1, <2>2 DEF SessionType, ProcessType
    <2>5. a = [s EXCEPT !.task = a.task]
      BY <1>1, <2>4 DEF SessionType
    <2>6. r.up /\ /\ q.up = s.task[p].up /\ q.id = s.task[p].id /\ q.token = s.task[p].token
                  /\ q.closing = s.task[p].closing /\ q.fd = s.task[p].fd
                  /\ q.ready = s.task[p].ready
                  /\ ~q.shown /\ ~q.leaving /\ q.life = "background"
      BY <2>2 DEF ProcessType
    <2> HIDE DEF r, p, q, a, t
    <2>7. t = [SetLifecycle(a, p, "background") EXCEPT !.app = Idle]
      BY <1>3 DEF ParkApp, t, a, p
    <2>8. a.task[p] = r
      BY <1>1, <2>1, <2>4 DEF SessionType
    <2>9. SetLifecycle(a, p, "background") = [a EXCEPT !.task[p].life = "background"]
      BY <2>1, <2>6, <2>8 DEF SetLifecycle
    <2>10. a \in SessionType
      BY <1>1, <2>1, <2>3, <2>4, <2>5 DEF SessionType
    <2>11. SetLifecycle(a, p, "background") = [a EXCEPT !.task = [a.task EXCEPT ![p] = q]]
      BY <2>8, <2>9, <2>10 DEF q, SessionType
    <2>12. t.task = [a.task EXCEPT ![p] = q]
      BY <2>7, <2>10, <2>11 DEF SessionType
    <2>13. t.task = [s.task EXCEPT ![p] = q]
      BY <1>1, <2>1, <2>4, <2>12 DEF SessionType
    <2>14. t = [s EXCEPT !.task = t.task, !.app = Idle]
      BY <1>1, <2>5, <2>7, <2>10, <2>11, <2>12 DEF SessionType
    <2>15. t.task \in [Records -> ProcessType]
      BY <1>1, <2>1, <2>3, <2>13 DEF SessionType
    <2>16. /\ t \in SessionType /\ t.app = Idle /\ t.launch = s.launch
           /\ t.document = s.document /\ t.generation = s.generation
           /\ t.nextToken = s.nextToken /\ t.documents = s.documents
           /\ t.choosing = s.choosing
      BY <1>1, <2>14, <2>15 DEF SessionType
    <2>17. /\ t.task[p] = q
           /\ \A x \in Records : x # p => t.task[x] = s.task[x]
      BY <1>1, <2>1, <2>13 DEF SessionType
    <2>18. t.task[Idle] = NoProcess
      BY <1>1, <2>1, <2>17, RecordSets
    <2>19. \A x \in Slots :
             /\ t.task[x].up = s.task[x].up /\ t.task[x].id = s.task[x].id
             /\ t.task[x].token = s.task[x].token
             /\ t.task[x].closing = s.task[x].closing
      <3> TAKE x \in Slots
      <3>1. CASE x = p
        BY <2>6, <2>17, <3>1
      <3>2. CASE x # p
        BY <2>17, <3>2, RecordSets
      <3> QED
        BY <3>1, <3>2
    <2>20. Registry(t)
      <3>1. \A x, y \in Slots :
              t.task[x].up /\ t.task[y].up =>
                  /\ t.task[x].id = t.task[y].id => x = y
                  /\ t.task[x].token = t.task[y].token => x = y
        BY <2>19 DEF Registry
      <3>2. \A x \in Slots \ {t.app} :
              t.task[x].up =>
                  ~t.task[x].shown /\ ~t.task[x].leaving /\ t.task[x].life # "foreground"
        BY <2>6, <2>17, RecordSets DEF Registry, p
      <3>3. \A x \in Slots : Greeted(t.task[x])
        BY <2>6, <2>17, RecordSets DEF Registry, Greeted
      <3> QED
        BY <2>16, <2>18, <2>19, <3>1, <3>2, <3>3 DEF Registry
    <2>21. ~App(t).up
      BY <2>16, <2>18 DEF App, NoProcess
    <2>22. Parked(t)
      BY <2>21 DEF Parked, AppInForeground, IsRunning
    <2>23. Launching(s) => Launching(t)
      BY <2>16 DEF Launching, LaunchInProgress
    <2>24. s.generation \in Nat
      BY <1>1 DEF SessionType
    <2>25. Still(s, t)
      BY <2>16, <2>19, <2>24 DEF Still, SameDocument, LaunchInProgress
    <2> QED
      BY <2>16, <2>20, <2>22, <2>23, <2>25 DEF t
  <1> QED
    BY <1>2, <1>3

\* A process record is replaced.
Put(s, p, r) == [s EXCEPT !.task[p] = r]

\* Storing one process record.
LEMMA PutFacts ==
  ASSUME NEW s, Registry(s), NEW p \in Processes, NEW r \in ProcessType
  PROVE  LET t == Put(s, p, r)
         IN /\ Beside(s, t) /\ t.task[p] = r /\ t.task[Idle] = s.task[Idle]
            /\ \A q \in Records : q # p => t.task[q] = s.task[q]
            /\ p \in Slots => (KeptTask(s, p, r) => Kept(s, t))
            /\ p \notin Slots => Kept(s, t)
  <1> DEFINE t == Put(s, p, r)
  <1>1. s \in SessionType /\ p \in Records /\ p # Idle
    BY RecordSets DEF Registry
  <1>2. t.task = [s.task EXCEPT ![p] = r]
    BY <1>1 DEF Put, SessionType
  <1>3. t.task \in [Records -> ProcessType]
    BY <1>1, <1>2 DEF SessionType
  <1>4. Beside(s, t)
    BY <1>1, <1>3 DEF Put, SessionType, Beside
  <1> HIDE DEF t
  <1>5. t.task[p] = r /\ \A q \in Records : q # p => t.task[q] = s.task[q]
    BY <1>1, <1>2 DEF SessionType
  <1>6. ASSUME p \in Slots => KeptTask(s, p, r) PROVE Kept(s, t)
    <2>1. p \in Slots => KeptTask(s, p, t.task[p])
      BY <1>5, <1>6
    <2>2. OnlyTask(s, t, p)
      BY <1>5 DEF OnlyTask
    <2> QED
      BY <1>1, <1>4, <2>1, <2>2, EditKept
  <1>7. t.task[Idle] = s.task[Idle]
    BY <1>1, <1>5, RecordSets
  <1> QED
    BY <1>4, <1>5, <1>6, <1>7 DEF t

\* The lists and counters that the invariant does not speak of.
Count(s, activate, nextClose, returnToken, failures, crashes) ==
    [s EXCEPT !.activate = activate, !.nextClose = nextClose, !.returnToken = returnToken,
              !.failures = failures, !.crashes = crashes]

\* Counters, the set of tasks to activate and the return token.
LEMMA CountKept ==
  ASSUME NEW s, Registry(s), NEW a \in SUBSET Slots, NEW n \in Nat, NEW r \in Nat,
         NEW f \in Nat, NEW c \in Nat
  PROVE  LET t == Count(s, a, n, r, f, c)
         IN Kept(s, t) /\ t.task = s.task /\ t.activate = a /\ t.returnToken = r
  <1>1. s \in SessionType
    BY DEF Registry
  <1>2. /\ Beside(s, Count(s, a, n, r, f, c)) /\ Count(s, a, n, r, f, c).task = s.task
        /\ Count(s, a, n, r, f, c).activate = a /\ Count(s, a, n, r, f, c).returnToken = r
    BY <1>1 DEF Count, SessionType, Beside
  <1> QED
    BY <1>2, SameKept

\* Two steps that leave a document alone are one.
LEMMA StillStill ==
  ASSUME NEW s, NEW t, NEW u, Still(s, t), Still(t, u),
         s \in SessionType, t \in SessionType, u \in SessionType
  PROVE  Still(s, u)
  <1>1. s.generation \in Nat /\ t.generation \in Nat /\ u.generation \in Nat
    BY DEF SessionType
  <1>2. SameDocument(s.document, u.document)
    BY DEF Still, SameDocument
  <1>3. /\ u.generation >= s.generation /\ u.documents = s.documents
        /\ u.choosing = s.choosing \/ u.choosing = 0
    BY <1>1 DEF Still
  <1>4. \A p \in Slots :
          /\ u.task[p].up = s.task[p].up /\ u.task[p].token = s.task[p].token
          /\ s.task[p].closing => u.task[p].closing
    BY DEF Still
  <1>5. u.launch.starting =>
          /\ s.launch.starting /\ u.generation = s.generation
          /\ u.launch.pending = s.launch.pending /\ u.launch.id = s.launch.id
          /\ u.launch.act = s.launch.act
          /\ u.launch.pending = NoApp => App(u).token = App(s).token
    BY DEF Still
  <1>6. s.launch.starting /\ ~u.launch.starting => s.launch.pending = NoApp
    BY DEF Still
  <1> QED
    BY <1>2, <1>3, <1>4, <1>5, <1>6 DEF Still

\* leave_app(): the application is on its way out, and a launch that was its own
\* is over.
LEMMA LeaveAppFacts ==
  ASSUME NEW s, Registry(s), Launching(s), NEW retain \in BOOLEAN
  PROVE  LET t == LeaveApp(s, retain)
         IN /\ Registry(t) /\ Launching(t) /\ Parked(t) /\ Still(s, t)
            /\ t.launch.pending = s.launch.pending /\ t.generation = s.generation
            /\ s.launch.pending # NoApp => t.launch = s.launch
  <1> DEFINE t == LeaveApp(s, retain)
             f == IF s.launch.pending = NoApp THEN FinishLaunch(s) ELSE s
             m == [f EXCEPT !.task[s.app].park = retain]
             marked == SetLifecycle(m, s.app, IF retain THEN "background" ELSE "closing")
  <1>1. s \in SessionType /\ s.task[Idle] = NoProcess /\ s.app \in Records
    BY RecordSets DEF Registry, SessionType
  <1>2. CASE ~IsRunning(App(s)) \/ App(s).leaving
    <2>1. t = s
      BY <1>2 DEF LeaveApp
    <2>2. Still(s, s) /\ Parked(s)
      BY <1>1, <1>2, KeptSelf, KeptLaunch DEF Parked, AppInForeground
    <2> QED
      BY <2>1, <2>2
  <1>3. CASE IsRunning(App(s)) /\ ~App(s).leaving
    <2>1. s.app \in Slots /\ s.app # Idle /\ s.app \in Processes
      BY <1>1, <1>3, RecordSets DEF App, NoProcess, IsRunning, Registry, SessionType
    <2>2. /\ Registry(f) /\ Launching(f) /\ Still(s, f) /\ Within(s, f)
          /\ f.launch.pending = s.launch.pending
          /\ ~(LaunchInProgress(f) /\ f.launch.pending = NoApp)
          /\ s.launch.pending # NoApp => f.launch = s.launch
      <3>1. CASE s.launch.pending = NoApp
        <4>1. /\ Within(s, f) /\ ~f.launch.starting /\ f.launch.busy = "no"
              /\ ~f.launch.acked /\ f.launch.pending = s.launch.pending
          BY <3>1, FinishLaunchFacts
        <4> HIDE DEF f
        <4> QED
          BY <3>1, <4>1, QuietLaunch
      <3>2. CASE s.launch.pending # NoApp
        <4>1. f = s
          BY <3>2
        <4> QED
          BY <1>1, <3>2, <4>1, KeptSelf, KeptLaunch DEF Within
      <3> QED
        BY <3>1, <3>2
    <2> HIDE DEF f
    <2>3. f \in SessionType /\ f.app = s.app /\ f.task = s.task /\ f.generation = s.generation
      BY <2>2 DEF Within
    <2>4. f.task[s.app] \in ProcessType
      BY <2>1, <2>3, RecordSets DEF SessionType
    <2>5. Kept(f, m)
      <3> DEFINE r == [f.task[s.app] EXCEPT !.park = retain]
      <3>1. r \in ProcessType
        BY <2>4 DEF ProcessType
      <3>2. KeptTask(f, s.app, r)
        BY <2>4 DEF KeptTask, ProcessType, Greeted
      <3>3. m = Put(f, s.app, r)
        BY <2>3 DEF Put, SessionType
      <3> HIDE DEF r, m
      <3> QED
        BY <2>1, <2>2, <3>1, <3>2, <3>3, PutFacts
    <2> HIDE DEF m
    <2>6. Registry(m) /\ m.app = s.app
      BY <2>2, <2>3, <2>5, KeptRegistry DEF Kept, Beside
    <2>7. Kept(m, marked)
      BY <1>1, <2>6, SetLifecycleKept
    <2> HIDE DEF marked
    <2>8. Kept(f, marked)
      BY <2>5, <2>7, KeptKept
    <2>9. Registry(marked) /\ Launching(marked) /\ Still(f, marked)
      BY <2>2, <2>8, KeptRegistry, KeptLaunch
    <2>10. /\ marked \in SessionType /\ marked.app = s.app /\ marked.launch = f.launch
           /\ marked.generation = s.generation
      BY <2>3, <2>8 DEF Kept, Beside
    <2>11. Still(s, marked)
      BY <1>1, <2>2, <2>3, <2>9, <2>10, StillStill
    <2>12. CASE (~App(s).shown \/ LauncherOnTop(s)) /\ retain
      <3>1. t = ParkApp(marked)
        BY <1>3, <2>12 DEF LeaveApp, t, f, m, marked
      <3>2. ~(LaunchInProgress(marked) /\ marked.launch.pending = NoApp)
        BY <2>2, <2>10 DEF LaunchInProgress
      <3> HIDE DEF t
      <3>3. /\ Registry(t) /\ t.launch = marked.launch /\ t.generation = marked.generation
            /\ Launching(t) /\ Parked(t) /\ Still(marked, t)
        BY <2>9, <3>1, <3>2, ParkAppFacts
      <3>4. Still(s, t)
        BY <1>1, <2>10, <2>11, <3>3, StillStill DEF Registry
      <3> QED
        BY <2>2, <2>10, <3>3, <3>4 DEF t
    <2>13. CASE (~App(s).shown \/ LauncherOnTop(s)) /\ ~retain
      <3>1. t = RequestClose(marked, s.app)
        BY <1>3, <2>13 DEF LeaveApp, t, f, m, marked
      <3> HIDE DEF t
      <3>2. Kept(marked, t) /\ ~IsRunning(t.task[s.app])
        BY <1>1, <2>9, <3>1, RequestCloseKept
      <3>3. /\ Registry(t) /\ Launching(t) /\ Still(marked, t)
            /\ t.launch = marked.launch /\ t.generation = marked.generation
            /\ t.app = s.app
        BY <2>9, <2>10, <3>2, KeptRegistry, KeptLaunch DEF Kept, Beside
      <3>4. Parked(t)
        BY <3>2, <3>3 DEF Parked, AppInForeground, App
      <3>5. Still(s, t)
        BY <1>1, <2>10, <2>11, <3>3, StillStill DEF Registry
      <3> QED
        BY <2>2, <2>10, <3>3, <3>4, <3>5 DEF t
    <2>14. CASE ~(~App(s).shown \/ LauncherOnTop(s))
      <3> DEFINE r == [marked.task[s.app] EXCEPT !.leaving = TRUE]
      <3>1. t = [marked EXCEPT !.task[s.app].leaving = TRUE]
        BY <1>3, <2>14 DEF LeaveApp, t, f, m, marked
      <3>2. marked.task[s.app] \in ProcessType
        BY <1>1, <2>10 DEF SessionType
      <3>3. r \in ProcessType
        BY <3>2 DEF ProcessType
      <3>4. t = Put(marked, s.app, r)
        BY <2>10, <3>1 DEF Put, SessionType
      <3>5. /\ r.up = marked.task[s.app].up /\ r.id = marked.task[s.app].id
            /\ r.token = marked.task[s.app].token /\ r.closing = marked.task[s.app].closing
            /\ r.fd = marked.task[s.app].fd /\ r.leaving
        BY <3>2 DEF ProcessType
      <3>6. s.task[s.app].shown /\ s.task[s.app].fd # "never"
        BY <2>1, <2>14 DEF App, Registry, Greeted
      <3>7. marked.task[s.app].fd # "never"
        <4>1. m.task[s.app].fd = f.task[s.app].fd
          BY <1>1, <2>3, <2>4 DEF m, SessionType, ProcessType
        <4>2. m \in SessionType
          BY <2>6 DEF Registry
        <4>3. marked.task[s.app].fd = m.task[s.app].fd
          BY <1>1, <4>2 DEF marked, SetLifecycle, SessionType, ProcessType
        <4> QED
          BY <2>3, <3>6, <4>1, <4>3
      <3> HIDE DEF t, r
      <3>8. /\ Beside(marked, t) /\ t.task[s.app] = r /\ t.task[Idle] = marked.task[Idle]
            /\ \A q \in Records : q # s.app => t.task[q] = marked.task[q]
        BY <2>1, <2>9, <3>3, <3>4, PutFacts
      <3>9. /\ t \in SessionType /\ t.app = s.app /\ t.launch = marked.launch
            /\ t.generation = marked.generation /\ t.nextToken = marked.nextToken
            /\ t.document = marked.document
            /\ t.documents = marked.documents /\ t.choosing = marked.choosing
        BY <2>10, <3>8 DEF Beside
      <3>10. \A q \in Slots :
               /\ t.task[q].up = marked.task[q].up /\ t.task[q].id = marked.task[q].id
               /\ t.task[q].token = marked.task[q].token
               /\ t.task[q].closing = marked.task[q].closing
        <4> TAKE q \in Slots
        <4>1. CASE q = s.app
          BY <3>5, <3>8, <4>1
        <4>2. CASE q # s.app
          BY <3>8, <4>2, RecordSets
        <4> QED
          BY <4>1, <4>2
      <3>11. Registry(t)
        <4>1. \A x, y \in Slots :
                t.task[x].up /\ t.task[y].up =>
                    /\ t.task[x].id = t.task[y].id => x = y
                    /\ t.task[x].token = t.task[y].token => x = y
          BY <2>9, <3>10 DEF Registry
        <4>2. \A x \in Slots \ {t.app} :
                t.task[x].up =>
                    ~t.task[x].shown /\ ~t.task[x].leaving /\ t.task[x].life # "foreground"
          BY <2>9, <2>10, <3>8, <3>9, RecordSets DEF Registry
        <4>3. \A x \in Slots : Greeted(t.task[x])
          BY <2>9, <3>5, <3>7, <3>8, RecordSets DEF Registry, Greeted
        <4>4. t.task[Idle] = NoProcess
          BY <2>9, <3>8 DEF Registry
        <4>5. \A x \in Slots :
                t.task[x].up =>
                    /\ t.task[x].id \in Apps
                    /\ t.task[x].token # 0 /\ t.task[x].token <= t.nextToken
          BY <2>9, <3>9, <3>10 DEF Registry
        <4> QED
          BY <3>9, <4>1, <4>2, <4>3, <4>4, <4>5 DEF Registry
      <3>12. Launching(t)
        BY <2>2, <2>9, <2>10, <3>9 DEF Launching, LaunchInProgress
      <3>13. Parked(t)
        BY <3>5, <3>8, <3>9 DEF Parked, AppInForeground, App
      <3>14. marked.generation \in Nat
        BY <2>10 DEF SessionType
      <3>15. App(t).token = App(marked).token
        BY <2>10, <3>5, <3>8, <3>9 DEF App
      <3>16. Still(marked, t)
        BY <3>9, <3>10, <3>14, <3>15 DEF Still, SameDocument
      <3>17. Still(s, t)
        BY <1>1, <2>10, <2>11, <3>9, <3>16, StillStill
      <3> QED
        BY <2>2, <2>10, <3>9, <3>11, <3>12, <3>13, <3>17 DEF t
    <2> QED
      BY <2>12, <2>13, <2>14
  <1> QED
    BY <1>2, <1>3

\* leave_app(): the selected application leaves the screen.
LEMMA LeaveAppInv ==
  ASSUME NEW s, SessionInv(s), NEW retain \in BOOLEAN
  PROVE  /\ SessionInv(LeaveApp(s, retain))
         /\ Settled(s) => Settled(LeaveApp(s, retain))
         /\ LeaveApp(s, retain).launch.pending = s.launch.pending
  <1> DEFINE t == LeaveApp(s, retain)
  <1>1. Registry(s) /\ Launching(s) /\ DocumentNames(s) /\ Accounted(s)
    BY DEF SessionInv
  <1>2. /\ Registry(t) /\ Launching(t) /\ Parked(t) /\ Still(s, t)
        /\ t.launch.pending = s.launch.pending
    BY <1>1, LeaveAppFacts
  <1> HIDE DEF t
  <1>3. t \in SessionType
    BY <1>2 DEF Registry
  <1> QED
    BY <1>1, <1>2, <1>3, StillDocuments DEF SessionInv, t

-----------------------------------------------------------------------------
(* Documents.                                                               *)

\* Only the document, its lists and the counters change.
Around(s, t) ==
    /\ t \in SessionType /\ t.task = s.task /\ t.app = s.app /\ t.launch = s.launch
    /\ t.generation = s.generation /\ t.nextToken = s.nextToken

\* A step of the document alone keeps the processes and the launch.
LEMMA DocumentFrame ==
  ASSUME NEW s, NEW t, Registry(s), Around(s, t)
  PROVE  /\ Registry(t)
         /\ Launching(s) => Launching(t)
         /\ Parked(s) => Parked(t)
  <1>1. Registry(t)
    BY RegistryFrame DEF Around
  <1>2. App(t) = App(s)
    BY DEF Around, App
  <1>3. Launching(s) => Launching(t)
    BY <1>2 DEF Around, Launching, LaunchInProgress
  <1>4. Parked(s) => Parked(t)
    BY <1>2 DEF Around, Parked, AppInForeground
  <1> QED
    BY <1>1, <1>3, <1>4

\* The end of a document leaves nothing of it.
LEMMA NoDocumentFacts ==
  ASSUME NEW s, Registry(s), NEW t, Around(s, t), t.document = NoDocument,
         t.choosing <= t.documents
  PROVE  DocumentNames(t) /\ Settled(t) /\ t.document.request = 0
  <1>1. t.generation \in Nat /\ t.documents \in Nat /\ 0 <= t.generation /\ 0 <= t.documents
    BY DEF Around, SessionType
  <1>2. /\ t.document.request = 0 /\ t.document.serial = 0 /\ t.document.handler = 0
        /\ ~t.document.restarting /\ t.document.id = NoApp
    BY DEF NoDocument
  <1>3. ~Carried(t)
    BY <1>2 DEF Carried
  <1> QED
    BY <1>1, <1>2, <1>3 DEF DocumentNames, Settled

\* document_result()
LEMMA DocumentResultFacts ==
  ASSUME NEW s, Registry(s), DocumentNames(s), NEW status
  PROVE  LET t == DocumentResult(s, status)
         IN /\ Around(s, t) /\ DocumentNames(t)
            /\ t.document \in {s.document, NoDocument}
            /\ status # "wait" => t.document.request = 0 /\ Settled(t)
            /\ Settled(s) => Settled(t)
            /\ s.document.request = 0 => t = s
  <1> DEFINE t == DocumentResult(s, status)
  <1>1. s \in SessionType /\ s.choosing <= s.documents
    BY DEF Registry, DocumentNames
  <1>2. CASE s.document.request = 0 \/ status = "wait"
    <2>1. t = s
      BY <1>2 DEF DocumentResult
    <2> QED
      BY <1>1, <1>2, <2>1 DEF Around, Settled
  <1>3. CASE ~(s.document.request = 0 \/ status = "wait")
    <2>1. PICK r \in {s.returnToken, s.document.origin} :
            t = [s EXCEPT !.document = NoDocument, !.returnToken = r]
      BY <1>1, <1>3 DEF DocumentResult
    <2>2. r \in Nat
      BY <1>1, <2>1 DEF SessionType, DocumentType
    <2>3. NoDocument \in DocumentType
      BY DEF NoDocument, DocumentType
    <2>4. /\ Around(s, t) /\ t.document = NoDocument
          /\ t.choosing = s.choosing /\ t.documents = s.documents
      BY <1>1, <2>1, <2>2, <2>3 DEF Around, SessionType
    <2> HIDE DEF t
    <2>5. DocumentNames(t) /\ Settled(t) /\ t.document.request = 0
      BY <1>1, <2>4, NoDocumentFacts
    <2> QED
      BY <1>3, <2>4, <2>5 DEF t
  <1> QED
    BY <1>2, <1>3

\* document_result(): the answer clears the document, WAIT keeps it.
LEMMA DocumentResultInv ==
  ASSUME NEW s, SessionInv(s), NEW status
  PROVE  LET t == DocumentResult(s, status)
         IN /\ SessionInv(t) /\ Around(s, t)
            /\ status # "wait" => Settled(t)
  <1> DEFINE t == DocumentResult(s, status)
  <1>1. Registry(s) /\ Launching(s) /\ Parked(s) /\ DocumentNames(s) /\ Accounted(s)
    BY DEF SessionInv
  <1>2. /\ Around(s, t) /\ DocumentNames(t)
        /\ status # "wait" => Settled(t)
    BY <1>1, DocumentResultFacts
  <1>3. Registry(t) /\ Launching(t) /\ Parked(t)
    BY <1>1, <1>2, DocumentFrame
  <1>4. status = "wait" => t = s
    BY DEF DocumentResult
  <1> HIDE DEF t
  <1> QED
    BY <1>1, <1>2, <1>3, <1>4 DEF SessionInv, Accounted, t

\* document_launch_result(): the document of a launch that ends is answered.
LEMMA DocumentLaunchResultInv ==
  ASSUME NEW s, SessionInv(s), NEW status, status # "wait"
  PROVE  LET t == DocumentLaunchResult(s, status)
         IN SessionInv(t) /\ Around(s, t) /\ Settled(t)
  <1>1. Launching(s) /\ DocumentNames(s) /\ Accounted(s) /\ s \in SessionType
    BY DEF SessionInv, Registry
  <1>2. CASE /\ s.document.request # 0 /\ s.document.serial # 0
             /\ s.document.serial = s.generation /\ s.document.id = s.launch.id
    <2>1. DocumentLaunchResult(s, status) = DocumentResult(s, status)
      BY <1>2 DEF DocumentLaunchResult
    <2> QED
      BY <2>1, DocumentResultInv
  <1>3. CASE ~(/\ s.document.request # 0 /\ s.document.serial # 0
               /\ s.document.serial = s.generation /\ s.document.id = s.launch.id)
    <2>1. DocumentLaunchResult(s, status) = s
      BY <1>3 DEF DocumentLaunchResult
    <2>2. ~Carried(s)
      BY <1>1, <1>3 DEF Carried, Launching, DocumentNames
    <2> QED
      BY <1>1, <2>1, <2>2 DEF Accounted, Around
  <1> QED
    BY <1>2, <1>3

\* finish_activation(): the launch was started, so no document waits for it.
LEMMA FinishActivationInv ==
  ASSUME NEW s, SessionInv(s)
  PROVE  SessionInv(FinishActivation(s))
  <1> DEFINE t == [s EXCEPT !.launch.starting = FALSE]
             acts == s.launch.starting /\ s.launch.acked /\ App(s).ready /\ App(s).drawn
  <1>1. /\ Registry(s) /\ Launching(s) /\ Parked(s) /\ DocumentNames(s) /\ Accounted(s)
        /\ s \in SessionType /\ s.launch \in LaunchType
    BY DEF SessionInv, Registry, SessionType
  <1>2. CASE ~acts
    BY <1>2 DEF FinishActivation
  <1>3. CASE acts /\ s.launch.busy = "no"
    <2>1. FinishActivation(s) = FinishLaunch(s)
      BY <1>3 DEF FinishActivation
    <2>2. s.launch.pending = NoApp
      BY <1>1, <1>3 DEF Launching
    <2> QED
      BY <2>1, <2>2, FinishLaunchInv
  <1>4. CASE acts /\ s.launch.busy # "no"
    <2>1. FinishActivation(s) = t
      BY <1>4 DEF FinishActivation
    <2>2. s.launch.pending = NoApp
      BY <1>1, <1>4 DEF Launching
    <2>3. t.launch = [s.launch EXCEPT !.starting = FALSE] /\ t.launch \in LaunchType
      BY <1>1 DEF SessionType, LaunchType
    <2>4. Within(s, t)
      BY <1>1, <2>3 DEF SessionType, Within
    <2>5. /\ ~t.launch.starting /\ t.launch.pending = NoApp /\ t.launch.id = s.launch.id
      BY <1>1, <2>2, <2>3 DEF LaunchType
    <2> HIDE DEF t
    <2>6. Registry(t)
      BY <1>1, <2>4, RegistryFrame DEF Within
    <2>7. App(t) = App(s) /\ LaunchInProgress(s)
      BY <1>4, <2>4 DEF Within, App, LaunchInProgress
    <2>8. Launching(t) /\ Parked(t)
      BY <1>1, <2>2, <2>5, <2>7 DEF Launching, Parked
    <2>9. s.generation \in Nat
      BY <1>1 DEF SessionType
    <2>10. Still(s, t)
      BY <2>2, <2>4, <2>5, <2>9 DEF Still, SameDocument, Within
    <2>11. t \in SessionType
      BY <2>4 DEF Within
    <2> QED
      BY <1>1, <2>1, <2>6, <2>8, <2>10, <2>11, StillDocuments DEF SessionInv
  <1> QED
    BY <1>2, <1>3, <1>4

\* send_activation() to a process that says HELLO: before its launch was started
\* only a closing one may be the selected application.
LEMMA SendActivationInv ==
  ASSUME NEW s, SessionInv(s), NEW p \in Processes, s.task[p].up,
         p = s.app => s.launch.pending = NoApp \/ s.task[p].closing
  PROVE  SessionInv(SendActivation(s, p))
  <1> DEFINE t == [s EXCEPT !.document.handler = s.task[p].token]
             sends == /\ s.document.request # 0
                      /\ s.document.serial = s.generation
                      /\ s.document.id = s.task[p].id
                      /\ p = s.app
                      /\ s.launch.starting
  <1>1. /\ Registry(s) /\ Launching(s) /\ Parked(s) /\ DocumentNames(s) /\ Accounted(s)
        /\ s \in SessionType /\ s.document \in DocumentType
    BY DEF SessionInv, Registry, SessionType
  <1>2. CASE ~sends
    BY <1>2 DEF SendActivation
  <1>3. CASE sends
    <2>1. SendActivation(s, p) = t
      BY <1>3 DEF SendActivation
    <2>2. p \in Slots /\ s.task[p] \in ProcessType
      BY <1>1, <1>3, RecordSets DEF SessionType
    <2>3. s.task[p].token # 0 /\ s.task[p].token \in Nat
      BY <1>1, <2>2 DEF Registry, ProcessType
    <2>4. t.document = [s.document EXCEPT !.handler = s.task[p].token]
      BY <1>1 DEF SessionType
    <2>5. t.document \in DocumentType
      BY <1>1, <2>3, <2>4 DEF DocumentType
    <2>6. Around(s, t) /\ t.choosing = s.choosing /\ t.documents = s.documents
      BY <1>1, <2>5 DEF Around, SessionType
    <2>7. /\ t.document.request = s.document.request /\ t.document.serial = s.document.serial
          /\ t.document.origin = s.document.origin /\ t.document.id = s.document.id
          /\ t.document.restarting = s.document.restarting
          /\ t.document.handler = s.task[p].token
      BY <1>1, <2>4 DEF DocumentType
    <2> HIDE DEF t
    <2>8. Registry(t) /\ Launching(t) /\ Parked(t)
      BY <1>1, <2>6, DocumentFrame
    <2>9. Carried(s) /\ s.generation # 0
      BY <1>1, <1>3 DEF Carried, Launching
    <2>10. Settled(t)
      BY <2>3, <2>7 DEF Settled
    <2>11. \A token : Live(s, token) => Live(t, token)
      BY <2>6 DEF Live, Around
    <2>12. Live(t, t.document.handler)
      BY <2>2, <2>3, <2>6, <2>7 DEF Live, Around
    <2>13. /\ t.launch.pending = NoApp => t.document.handler = App(t).token
           /\ t.launch.pending # NoApp =>
                \A q \in Slots :
                    t.task[q].up /\ t.task[q].token = t.document.handler => t.task[q].closing
      BY <1>1, <1>3, <2>2, <2>6, <2>7 DEF Around, App, Registry
    <2>14. DocumentNames(t)
      BY <1>1, <1>3, <2>3, <2>6, <2>7, <2>9, <2>11, <2>12, <2>13
      DEF DocumentNames, Around, Carried
    <2> QED
      BY <2>1, <2>8, <2>10, <2>14 DEF SessionInv, Accounted
  <1> QED
    BY <1>2, <1>3

-----------------------------------------------------------------------------
(* A launch is cancelled or begins.                                         *)

\* Clearing a pending application that is not there changes nothing.
LEMMA ClearedSame ==
  ASSUME NEW s \in SessionType, s.launch.pending = NoApp
  PROVE  ClearPending(s) = s
  <1>1. s.launch \in LaunchType
    BY DEF SessionType
  <1>2. [s.launch EXCEPT !.pending = NoApp] = s.launch
    BY <1>1 DEF LaunchType
  <1> QED
    BY <1>2 DEF ClearPending, SessionType

\* cancel_launch(): the document is answered before the launch is forgotten.
LEMMA CancelLaunchInv ==
  ASSUME NEW s, SessionInv(s)
  PROVE  SessionInv(CancelLaunch(s))
  <1> DEFINE owns == s.launch.pending = NoApp /\ App(s).id = s.launch.id
             a == DocumentLaunchResult(s, "cancelled")
  <1>1. SessionInv(a) /\ Around(s, a) /\ Settled(a)
    BY DocumentLaunchResultInv
  <1> HIDE DEF a
  <1>2. Registry(a) /\ Launching(a) /\ a \in SessionType
    BY <1>1 DEF SessionInv, Registry
  <1>3. CASE ~LaunchInProgress(s)
    BY <1>3 DEF CancelLaunch
  <1>4. CASE LaunchInProgress(s) /\ ~owns
    <2>1. CancelLaunch(s) = FinishLaunch(ClearPending(a))
      BY <1>4 DEF CancelLaunch, a
    <2> QED
      BY <1>1, <2>1, DropLaunchInv
  <1>5. ASSUME LaunchInProgress(s), owns PROVE ClearPending(a) = a
    BY <1>1, <1>2, <1>5, ClearedSame DEF Around
  <1>6. CASE LaunchInProgress(s) /\ owns /\ s.launch.retained
    <2>1. CancelLaunch(s) = FinishLaunch(LeaveApp(a, TRUE))
      BY <1>5, <1>6 DEF CancelLaunch, a
    <2>2. SessionInv(LeaveApp(a, TRUE)) /\ Settled(LeaveApp(a, TRUE))
      BY <1>1, LeaveAppInv
    <2> QED
      BY <2>1, <2>2, FinishLaunchInv
  <1>7. CASE LaunchInProgress(s) /\ owns /\ ~s.launch.retained
    <2> DEFINE t == RequestClose(a, s.app)
    <2>1. CancelLaunch(s) = FinishLaunch(t)
      BY <1>5, <1>7 DEF CancelLaunch, a
    <2>2. s.app \in Records
      BY RecordSets DEF SessionInv, Registry, SessionType
    <2>3. Kept(a, t)
      BY <1>2, <2>2, RequestCloseKept
    <2> HIDE DEF t
    <2>4. SessionInv(t) /\ Still(a, t) /\ t \in SessionType
      BY <1>1, <1>2, <2>3, KeptInv, KeptLaunch DEF Kept, Beside
    <2>5. Settled(t)
      BY <1>1, <1>2, <2>4, StillDocuments
    <2> QED
      BY <2>1, <2>4, <2>5, FinishLaunchInv
  <1> QED
    BY <1>3, <1>4, <1>6, <1>7

\* begin_launch(): the new launch is pending, and what was on the screen leaves.
Begun(s, t, id, act) ==
    /\ Registry(t) /\ Launching(t) /\ Parked(t)
    /\ t.launch.starting /\ t.launch.pending = id /\ t.launch.id = id /\ t.launch.act = act
    /\ t.generation = s.generation + 1
    /\ SameDocument(s.document, t.document) /\ t.documents = s.documents
    /\ t.choosing = s.choosing \/ t.choosing = 0
    /\ \A p \in Slots :
          /\ t.task[p].up = s.task[p].up /\ t.task[p].token = s.task[p].token

\* begin_launch() does what Begun says.
LEMMA BeginLaunchFacts ==
  ASSUME NEW s, Registry(s), NEW id \in Apps, NEW act \in {"open", "resume"},
         HasRoom(s, id)
  PROVE  Begun(s, BeginLaunch(s, id, act), id, act)
  <1> DEFINE launch == [pending |-> id, id |-> id, starting |-> TRUE,
                        retained |-> TaskForId(s, id) # Nobody,
                        acked |-> FALSE, busy |-> "no", act |-> act]
             begun == [s EXCEPT !.launch = launch, !.generation = @ + 1]
             left == LeaveApp(begun, TRUE)
             t == BeginLaunch(s, id, act)
  <1>1. s \in SessionType /\ id # NoApp
    BY SessionAssumption DEF Registry, SessionAssumption, NoApp
  <1>2. launch \in LaunchType
    BY DEF LaunchType
  <1>3. launch.starting /\ launch.pending = id /\ launch.id = id /\ launch.act = act
        /\ ~launch.acked /\ launch.busy = "no"
    OBVIOUS
  <1> HIDE DEF launch
  <1>a. s.generation \in Nat /\ s.generation + 1 \in Nat
    BY <1>1 DEF SessionType
  <1>b. begun \in SessionType
    BY <1>1, <1>2, <1>a DEF SessionType
  <1>4. /\ begun.task = s.task /\ begun.app = s.app
        /\ begun.launch = launch /\ begun.document = s.document
        /\ begun.generation = s.generation + 1 /\ begun.nextToken = s.nextToken
        /\ begun.documents = s.documents /\ begun.choosing = s.choosing
    BY <1>1 DEF SessionType
  <1>5. t = IF id \in Fullscreen THEN RequestClose(left, Launcher) ELSE left
    BY DEF BeginLaunch, launch
  <1> HIDE DEF begun, t
  <1>6. Registry(begun)
    BY <1>4, <1>b, RegistryFrame
  <1>7. s.generation \in Nat
    BY <1>1 DEF SessionType
  <1>8. Launching(begun)
    BY <1>1, <1>3, <1>4, <1>7 DEF Launching
  <1>9. /\ Registry(left) /\ Launching(left) /\ Parked(left) /\ Still(begun, left)
        /\ left.generation = begun.generation /\ left.launch = launch
    BY <1>1, <1>3, <1>4, <1>6, <1>8, LeaveAppFacts
  <1> HIDE DEF left
  <1>10. Begun(s, left, id, act)
    BY <1>3, <1>4, <1>9 DEF Begun, Still
  <1>11. Kept(left, RequestClose(left, Launcher))
    BY <1>9, RecordSets, RequestCloseKept
  <1>12. Begun(s, RequestClose(left, Launcher), id, act)
    <2> DEFINE u == RequestClose(left, Launcher)
    <2>1. Registry(u) /\ Launching(u) /\ Parked(u) /\ Still(left, u)
      BY <1>9, <1>11, KeptRegistry, KeptLaunch
    <2>2. /\ u.launch = left.launch /\ u.generation = left.generation
          /\ u.document = left.document /\ u.choosing = left.choosing
      BY <1>11 DEF Kept, Beside
    <2> HIDE DEF u
    <2>3. Begun(s, u, id, act)
      BY <1>10, <2>1, <2>2 DEF Begun, Still
    <2> QED
      BY <2>3 DEF u
  <1> QED
    BY <1>5, <1>10, <1>12 DEF t

\* An unrelated launch begins: no document notices.
LEMMA BeginLaunchInv ==
  ASSUME NEW s, SessionInv(s), ~LaunchInProgress(s), NEW id \in Apps,
         NEW act \in {"open", "resume"}
  PROVE  SessionInv(BeginLaunch(s, id, act))
  <1> DEFINE t == BeginLaunch(s, id, act)
  <1>1. /\ Registry(s) /\ DocumentNames(s) /\ Accounted(s) /\ ~s.launch.starting
        /\ s \in SessionType
    BY DEF SessionInv, LaunchInProgress, Registry
  <1>2. CASE ~HasRoom(s, id)
    BY <1>2 DEF BeginLaunch
  <1>3. CASE HasRoom(s, id)
    <2>1. Begun(s, t, id, act)
      BY <1>1, <1>3, BeginLaunchFacts
    <2> HIDE DEF t
    <2>2. /\ s.generation \in Nat /\ s.document.serial \in Nat /\ s.documents \in Nat
          /\ s.document.request \in Nat
      BY <1>1 DEF SessionType, DocumentType
    <2>3. Settled(s)
      BY <1>1 DEF Accounted, Carried
    <2>4. Settled(t)
      BY <2>1, <2>3 DEF Settled, Begun, SameDocument
    <2>5. ~Carried(t)
      BY <1>1, <2>1, <2>2 DEF Carried, Begun, SameDocument, DocumentNames
    <2>6. \A token : Live(s, token) => Live(t, token)
      BY <2>1 DEF Begun, Live
    <2>7. DocumentNames(t)
      BY <1>1, <2>1, <2>2, <2>5, <2>6 DEF DocumentNames, Begun, SameDocument
    <2> QED
      BY <2>1, <2>4, <2>7 DEF SessionInv, Accounted, Begun, t
  <1> QED
    BY <1>2, <1>3

\* launch_app()
LEMMA LaunchAppInv ==
  ASSUME NEW s, SessionInv(s), NEW id \in Apps, NEW act \in {"open", "resume"}
  PROVE  SessionInv(LaunchApp(s, id, act))
  <1> DEFINE existing == TaskForId(s, id)
             named == existing # Nobody /\ act = "open"
             cleared == ClearPending(s)
             handled == s.document.handler = s.task[existing].token
             opened ==
                 IF ~named THEN cleared
                 ELSE [cleared EXCEPT !.task[existing].origin = 0,
                                      !.document.detached = @ \/ handled]
  <1>1. /\ Registry(s) /\ Launching(s) /\ Parked(s) /\ DocumentNames(s) /\ Accounted(s)
        /\ s.launch \in LaunchType
    BY DEF SessionInv, Registry, SessionType
  <1>2. CASE LaunchInProgress(s)
    BY <1>2 DEF LaunchApp
  <1>3. CASE ~LaunchInProgress(s)
    <2>1. LaunchApp(s, id, act) = BeginLaunch(opened, id, act)
      BY <1>3 DEF LaunchApp
    <2>2. Within(s, cleared) /\ cleared.launch = [s.launch EXCEPT !.pending = NoApp]
      BY <1>1, FinishLaunchFacts
    <2>3. /\ ~cleared.launch.starting /\ cleared.launch.busy = "no"
          /\ cleared.launch.pending = NoApp
      BY <1>1, <1>3, <2>2 DEF LaunchType, LaunchInProgress
    <2> HIDE DEF cleared
    <2>4. /\ Registry(cleared) /\ Launching(cleared) /\ ~LaunchInProgress(cleared)
          /\ Parked(cleared) /\ DocumentNames(cleared)
          /\ Settled(s) => Settled(cleared)
      BY <1>1, <2>2, <2>3, QuietLaunch
    <2>5. Settled(s)
      BY <1>1, <1>3 DEF Accounted, Carried, LaunchInProgress
    <2>6. SessionInv(cleared)
      BY <2>4, <2>5 DEF SessionInv, Accounted
    <2>7. CASE ~named
      BY <2>1, <2>4, <2>6, <2>7, BeginLaunchInv
    <2>8. CASE named
      <3> DEFINE r == [cleared.task[existing] EXCEPT !.origin = 0]
                 a == Put(cleared, existing, r)
                 d == [a.document EXCEPT !.detached = @ \/ handled]
      <3>1. existing \in Slots
        BY <2>8 DEF TaskForId, Least
      <3>2. cleared \in SessionType /\ existing \in Processes /\ existing \in Records
        BY <2>4, <3>1, RecordSets DEF Registry
      <3>3. cleared.task[existing] \in ProcessType
        BY <3>2 DEF SessionType
      <3>4. r \in ProcessType
        BY <3>3 DEF ProcessType
      <3>5. KeptTask(cleared, existing, r)
        BY <3>3 DEF KeptTask, ProcessType, Greeted
      <3>6. Kept(cleared, a)
        <4> HIDE DEF r
        <4> QED
          BY <2>4, <3>1, <3>2, <3>4, <3>5, PutFacts
      <3>7. SessionInv(a) /\ a \in SessionType /\ a.launch = cleared.launch
        BY <2>6, <3>6, KeptInv DEF Kept, Beside
      <3>8. a.document \in DocumentType
        BY <3>7 DEF SessionType
      <3>9. opened = [a EXCEPT !.document = d]
        BY <2>8, <3>2 DEF Put, SessionType
      <3>10. d \in DocumentType /\ SameDocument(a.document, d)
        BY <3>8 DEF DocumentType, SameDocument
      <3> HIDE DEF a, d, opened
      <3>11. /\ Around(a, opened) /\ opened.document = d
             /\ opened.choosing = a.choosing /\ opened.documents = a.documents
        BY <3>7, <3>9, <3>10 DEF SessionType, Around
      <3>12. Registry(opened) /\ Launching(opened) /\ Parked(opened)
        BY <3>7, <3>11, DocumentFrame DEF SessionInv
      <3>13. a.generation \in Nat
        BY <3>7 DEF SessionType
      <3>14. Still(a, opened)
        BY <3>10, <3>11, <3>13 DEF Still, Around, App
      <3>15. DocumentNames(opened) /\ Accounted(opened)
        BY <3>7, <3>11, <3>14, StillDocuments DEF SessionInv, Around
      <3>16. SessionInv(opened) /\ ~LaunchInProgress(opened)
        BY <2>4, <3>7, <3>11, <3>12, <3>15 DEF SessionInv, LaunchInProgress, Around
      <3> QED
        BY <2>1, <3>16, BeginLaunchInv
    <2> QED
      BY <2>7, <2>8
  <1> QED
    BY <1>2, <1>3

\* open_document_with(): the document is carried by the launch that begins, also
\* when another launch was under way.
LEMMA OpenDocumentWithInv ==
  ASSUME NEW s, Registry(s), Launching(s), Parked(s), DocumentNames(s),
         s.document.request # 0, s.document.handler = 0, ~s.document.restarting,
         s.choosing # s.document.request, NEW id
  PROVE  SessionInv(OpenDocumentWith(s, id))
  <1>1. s \in SessionType /\ s.document \in DocumentType
    BY DEF Registry, SessionType
  <1>2. CASE id \notin Handlers \/ ~HasRoom(s, id)
    <2> DEFINE t == DocumentResult(s, "error")
    <2>1. OpenDocumentWith(s, id) = t
      BY <1>2 DEF OpenDocumentWith
    <2>2. Around(s, t) /\ DocumentNames(t) /\ Settled(t)
      BY DocumentResultFacts
    <2> HIDE DEF t
    <2> QED
      BY <2>1, <2>2, DocumentFrame DEF SessionInv, Accounted
  <1>3. CASE id \in Handlers /\ HasRoom(s, id)
    <2> DEFINE d == [s.document EXCEPT !.id = id]
               a == [s EXCEPT !.document.id = id]
               begun == BeginLaunch(a, id, "open")
               t == [begun EXCEPT !.document.serial = begun.generation]
               e == [begun.document EXCEPT !.serial = begun.generation]
    <2>1. OpenDocumentWith(s, id) = t
      BY <1>3 DEF OpenDocumentWith
    <2>2. id \in Apps /\ id # NoApp
      BY <1>3, SessionAssumption DEF SessionAssumption, NoApp
    <2>3. d \in DocumentType /\ d.request = s.document.request /\ d.origin = s.document.origin
          /\ d.handler = 0 /\ ~d.restarting /\ d.id = id
      BY <1>1, <2>2 DEF DocumentType
    <2>4. a = [s EXCEPT !.document = d]
      BY <1>1 DEF SessionType
    <2> HIDE DEF d, a
    <2>5. /\ a \in SessionType /\ a.task = s.task /\ a.app = s.app
          /\ a.nextToken = s.nextToken /\ a.generation = s.generation
          /\ a.document = d /\ a.choosing = s.choosing /\ a.documents = s.documents
      BY <1>1, <2>3, <2>4 DEF SessionType
    <2>6. Registry(a)
      BY <2>5, RegistryFrame
    <2>7. HasRoom(a, id)
      BY <1>3, <2>5 DEF HasRoom, TaskForId, FreeTask
    <2>8. Begun(a, begun, id, "open")
      BY <2>2, <2>6, <2>7, BeginLaunchFacts
    <2> HIDE DEF begun
    <2>9. begun \in SessionType /\ begun.document \in DocumentType /\ begun.generation \in Nat
      BY <2>8 DEF Begun, Registry, SessionType
    <2>10. t = [begun EXCEPT !.document = e]
      BY <2>9 DEF SessionType
    <2>11. e \in DocumentType
      BY <2>9 DEF DocumentType
    <2>12. /\ e.request = s.document.request /\ e.origin = s.document.origin
           /\ e.handler = 0 /\ ~e.restarting /\ e.id = id /\ e.serial = begun.generation
      BY <2>3, <2>5, <2>8, <2>9 DEF DocumentType, Begun, SameDocument
    <2> HIDE DEF t, e
    <2>13. /\ Around(begun, t) /\ t.document = e
           /\ t.choosing = begun.choosing /\ t.documents = begun.documents
      BY <2>9, <2>10, <2>11 DEF SessionType, Around
    <2>14. Registry(t) /\ Launching(t) /\ Parked(t)
      BY <2>8, <2>13, DocumentFrame DEF Begun
    <2>15. /\ t.launch.starting /\ t.launch.pending = id /\ t.launch.id = id
           /\ t.launch.act = "open" /\ t.generation = s.generation + 1
           /\ t.documents = s.documents /\ t.choosing \in {s.choosing, 0}
           /\ \A p \in Slots : t.task[p].up = s.task[p].up /\ t.task[p].token = s.task[p].token
      BY <2>5, <2>8, <2>13 DEF Around, Begun
    <2>16. Carried(t)
      BY <2>12, <2>13, <2>15 DEF Carried, Around
    <2>17. s.generation \in Nat /\ s.documents \in Nat /\ s.document.request \in Nat
      BY <1>1 DEF SessionType, DocumentType
    <2>18. \A p \in Slots : t.task[p].up => t.task[p].token # 0
      BY <2>14 DEF Registry
    <2>19. Live(t, t.document.origin)
      BY <2>12, <2>13, <2>15 DEF Live, DocumentNames
    <2>20. /\ t.document.serial = t.generation /\ t.generation # 0
      BY <2>12, <2>13, <2>15, <2>17 DEF Around
    <2>21. /\ t.document.request = s.document.request /\ t.document.handler = 0
           /\ ~t.document.restarting /\ t.document.id = id
      BY <2>12, <2>13
    <2>22. /\ t.document.request <= t.documents /\ t.choosing <= t.documents
           /\ t.choosing # t.document.request
           /\ t.document.serial <= t.generation
      BY <2>15, <2>17, <2>20, <2>21 DEF DocumentNames
    <2>23. DocumentNames(t)
      BY <2>2, <2>15, <2>18, <2>19, <2>20, <2>21, <2>22 DEF DocumentNames
    <2> QED
      BY <2>1, <2>14, <2>16, <2>23 DEF SessionInv, Accounted
  <1> QED
    BY <1>2, <1>3

-----------------------------------------------------------------------------
(* Home and the close protocol.                                             *)

\* return_home()
LEMMA ReturnHomeInv ==
  ASSUME NEW s, SessionInv(s)
  PROVE  SessionInv(ReturnHome(s))
  <1> DEFINE answered == IF s.document.id # NoApp /\ ~DocumentDelivered(s)
                         THEN DocumentResult(s, "cancelled") ELSE s
             free == [answered EXCEPT !.returnToken = 0]
             calm == FinishLaunch(ClearPending(free))
             quiet == [calm EXCEPT !.activate = {}]
  <1>1. SessionInv(answered) /\ Settled(answered)
    <2>1. CASE s.document.id # NoApp /\ ~DocumentDelivered(s)
      BY <2>1, DocumentResultInv
    <2>2. CASE s.document.id = NoApp
      BY <2>2 DEF SessionInv, DocumentNames, Settled
    <2>3. CASE s.document.id # NoApp /\ DocumentDelivered(s)
      <3>1. s.document.handler # 0
        BY <2>3 DEF DocumentDelivered, TaskForToken, Least
      <3> QED
        BY <2>3, <3>1 DEF Settled
    <2> QED
      BY <2>1, <2>2, <2>3
  <1> HIDE DEF answered
  <1>2. Registry(answered) /\ answered \in SessionType
    BY <1>1 DEF SessionInv, Registry
  <1>3. Beside(answered, free) /\ free.task = answered.task
    BY <1>2 DEF Beside, SessionType
  <1> HIDE DEF free
  <1>4. Kept(answered, free) /\ free \in SessionType
    BY <1>3, SameKept DEF Beside
  <1>5. SessionInv(free)
    BY <1>1, <1>4, KeptInv
  <1>6. Settled(free)
    BY <1>1, <1>3 DEF Settled, Beside
  <1>7. SessionInv(calm)
    BY <1>5, <1>6, DropLaunchInv
  <1> HIDE DEF calm
  <1>8. calm \in SessionType
    BY <1>7 DEF SessionInv, Registry
  <1>9. Beside(calm, quiet) /\ quiet.task = calm.task
    BY <1>8 DEF Beside, SessionType
  <1>10. ReturnHome(s) = LeaveApp(quiet, TRUE)
    BY DEF ReturnHome, quiet, calm, free, answered
  <1> HIDE DEF quiet
  <1>11. SessionInv(quiet)
    BY <1>7, <1>9, SameKept, KeptInv
  <1> QED
    BY <1>10, <1>11, LeaveAppInv

\* request_close()
LEMMA RequestCloseInv ==
  ASSUME NEW s, SessionInv(s), NEW p \in Records
  PROVE  SessionInv(RequestClose(s, p))
  BY RequestCloseKept, KeptInv DEF SessionInv

\* The fields of a process that the invariant does not speak of.
LEMMA PutInv ==
  ASSUME NEW s, SessionInv(s), NEW p \in Processes, NEW r \in ProcessType,
         p \in Slots => KeptTask(s, p, r)
  PROVE  SessionInv(Put(s, p, r)) /\ Put(s, p, r).task[p] = r
  <1>1. Registry(s)
    BY DEF SessionInv
  <1> QED
    BY <1>1, PutFacts, KeptInv

\* Counters, activations and the return token do not matter to the invariant.
LEMMA CountInv ==
  ASSUME NEW s, SessionInv(s), NEW a \in SUBSET Slots, NEW n \in Nat, NEW r \in Nat,
         NEW f \in Nat, NEW c \in Nat
  PROVE  SessionInv(Count(s, a, n, r, f, c))
  BY CountKept, KeptInv DEF SessionInv

\* finish_user_close()
LEMMA FinishUserCloseInv ==
  ASSUME NEW s, SessionInv(s), NEW p \in Processes
  PROVE  SessionInv(FinishUserClose(s, p))
  <1> DEFINE r == [s.task[p] EXCEPT !.close = 0, !.waiting = FALSE]
             q == [r EXCEPT !.park = FALSE]
             a == Put(s, p, r)
             b == Put(s, p, q)
             settled == [s EXCEPT !.task[p].close = 0, !.task[p].waiting = FALSE,
                                  !.activate = @ \ {p}]
             final == [settled EXCEPT !.task[p].park = FALSE]
             c(x) == Count(x, s.activate \ {p}, s.nextClose, s.returnToken, s.failures,
                           s.crashes)
  <1>1. /\ s \in SessionType /\ p \in Records /\ s.task[p] \in ProcessType
        /\ s.activate \ {p} \in SUBSET Slots /\ s.nextClose \in Nat /\ s.returnToken \in Nat
        /\ s.failures \in Nat /\ s.crashes \in Nat
    BY RecordSets DEF SessionInv, Registry, SessionType
  <1>2. r \in ProcessType /\ q \in ProcessType
    BY <1>1 DEF ProcessType
  <1>3. KeptTask(s, p, r) /\ KeptTask(s, p, q)
    BY <1>1 DEF KeptTask, ProcessType, Greeted
  <1>4. settled.task = [s.task EXCEPT ![p] = r]
    BY <1>1 DEF SessionType, ProcessType
  <1>5. settled = [s EXCEPT !.task = settled.task, !.activate = s.activate \ {p}]
    BY <1>1, <1>4 DEF SessionType
  <1>6. settled = c(a)
    BY <1>1, <1>4, <1>5 DEF Count, Put, SessionType
  <1>7. final = [s EXCEPT !.task = [s.task EXCEPT ![p] = q], !.activate = s.activate \ {p}]
    <2>1. settled \in SessionType /\ settled.task[p] = r
      BY <1>1, <1>2, <1>4, <1>5 DEF SessionType
    <2> HIDE DEF settled, r
    <2>2. final = [settled EXCEPT !.task = [settled.task EXCEPT ![p] = q]]
      BY <2>1 DEF SessionType
    <2>3. final.task = [s.task EXCEPT ![p] = q]
      BY <1>1, <1>4, <2>1, <2>2 DEF SessionType
    <2>4. final = [s EXCEPT !.task = final.task, !.activate = s.activate \ {p}]
      BY <1>1, <1>5, <2>1, <2>2 DEF SessionType
    <2> QED
      BY <2>3, <2>4
  <1>8. final = c(b)
    BY <1>1, <1>7 DEF Count, Put, SessionType
  <1> HIDE DEF r, q
  <1>9. SessionInv(a) /\ SessionInv(b)
    BY <1>2, <1>3, PutInv
  <1> HIDE DEF a, b, settled, final
  <1>10. SessionInv(settled) /\ SessionInv(final)
    <2>1. \A x : SessionInv(x) => SessionInv(c(x))
      BY <1>1, CountInv
    <2> HIDE DEF c
    <2> QED
      BY <1>6, <1>8, <1>9, <2>1
  <1>11. FinishUserClose(s, p) \in
           {RequestClose(settled, p), RequestClose(final, p), LeaveApp(final, FALSE)}
    BY DEF FinishUserClose, settled, final
  <1> QED
    BY <1>1, <1>10, <1>11, RequestCloseInv, LeaveAppInv

\* What an application says about itself does not move the launch.
LEMMA LaunchInv ==
  ASSUME NEW s, NEW t, SessionInv(s), Within(s, t),
         t.launch.pending = s.launch.pending, t.launch.id = s.launch.id,
         t.launch.starting = s.launch.starting, t.launch.act = s.launch.act,
         t.launch.acked \/ t.launch.busy # "no" => t.launch.pending = NoApp,
         LaunchInProgress(t) => LaunchInProgress(s)
  PROVE  SessionInv(t)
  <1>1. /\ Registry(s) /\ Launching(s) /\ Parked(s) /\ DocumentNames(s) /\ Accounted(s)
        /\ s \in SessionType /\ t \in SessionType /\ s.generation \in Nat
    BY DEF SessionInv, Registry, Within, SessionType
  <1>2. Registry(t)
    BY <1>1, RegistryFrame DEF Within
  <1>3. App(t) = App(s) /\ t.generation = s.generation
    BY DEF App, Within
  <1>4. Launching(t)
    BY <1>1, <1>3 DEF Launching
  <1>5. Parked(t)
    BY <1>1, <1>3 DEF Parked, AppInForeground
  <1>6. Still(s, t)
    BY <1>1, <1>3 DEF Still, SameDocument, Within
  <1> QED
    BY <1>1, <1>2, <1>4, <1>5, <1>6, StillDocuments DEF SessionInv

\* An acknowledged activation is marked on a launch that was started.
LEMMA AckedInv ==
  ASSUME NEW s, SessionInv(s), s.launch.pending = NoApp
  PROVE  SessionInv([s EXCEPT !.launch.acked = TRUE])
  <1> DEFINE t == [s EXCEPT !.launch.acked = TRUE]
  <1>1. s \in SessionType /\ s.launch \in LaunchType
    BY DEF SessionInv, Registry, SessionType
  <1>2. t.launch = [s.launch EXCEPT !.acked = TRUE] /\ t.launch \in LaunchType
    BY <1>1 DEF SessionType, LaunchType
  <1>3. Within(s, t)
    BY <1>1, <1>2 DEF SessionType, Within
  <1>4. /\ t.launch.pending = s.launch.pending /\ t.launch.id = s.launch.id
        /\ t.launch.starting = s.launch.starting /\ t.launch.act = s.launch.act
        /\ t.launch.busy = s.launch.busy
    BY <1>1, <1>2 DEF LaunchType
  <1> HIDE DEF t
  <1>5. LaunchInProgress(t) => LaunchInProgress(s)
    BY <1>4 DEF LaunchInProgress
  <1>6. SessionInv(t)
    BY <1>3, <1>4, <1>5, LaunchInv
  <1> QED
    BY <1>6 DEF t

\* prepare_user_close()
LEMMA PrepareUserCloseInv ==
  ASSUME NEW s, SessionInv(s), NEW p \in Slots
  PROVE  SessionInv(PrepareUserClose(s, p))
  <1> DEFINE asked == IF s.task[p].close # 0 THEN s
                      ELSE [s EXCEPT !.nextClose = @ + 1,
                                     !.task[p].close = s.nextClose + 1]
             activate == IF p = s.app THEN asked.activate \ {p} ELSE asked.activate \cup {p}
             prepared == [asked EXCEPT !.activate = IF p = s.app THEN @ \ {p} ELSE @ \cup {p}]
  <1>1. /\ s \in SessionType /\ p \in Records /\ p \in Processes
        /\ s.task[p] \in ProcessType /\ s.nextClose \in Nat
        /\ s.nextClose + 1 \in Nat /\ s.returnToken \in Nat
        /\ s.failures \in Nat /\ s.crashes \in Nat /\ s.activate \in SUBSET Slots
    BY RecordSets DEF SessionInv, Registry, SessionType
  <1>2. SessionInv(asked)
    <2>1. CASE s.task[p].close # 0
      BY <2>1
    <2>2. CASE s.task[p].close = 0
      <3> DEFINE r == [s.task[p] EXCEPT !.close = s.nextClose + 1]
                 a == Put(s, p, r)
                 n == s.nextClose + 1
      <3>1. r \in ProcessType
        BY <1>1 DEF ProcessType
      <3>2. KeptTask(s, p, r)
        BY <1>1 DEF KeptTask, ProcessType, Greeted
      <3>3. asked = [a EXCEPT !.nextClose = n]
        BY <1>1, <2>2 DEF Put, SessionType
      <3> HIDE DEF r, asked
      <3>4. SessionInv(a)
        BY <1>1, <3>1, <3>2, PutInv
      <3> HIDE DEF a
      <3>5. a \in SessionType
        BY <3>4 DEF SessionInv, Registry
      <3>6. Beside(a, asked) /\ asked.task = a.task
        BY <1>1, <3>3, <3>5 DEF SessionType, Beside
      <3> QED
        BY <3>4, <3>6, SameKept, KeptInv
    <2> QED
      BY <2>1, <2>2
  <1> HIDE DEF asked
  <1>3. asked \in SessionType
    BY <1>2 DEF SessionInv, Registry
  <1>4. activate \in SUBSET Slots
    BY <1>3 DEF SessionType
  <1>5. prepared = [asked EXCEPT !.activate = activate]
    BY <1>3 DEF SessionType
  <1> HIDE DEF prepared, activate
  <1>6. Beside(asked, prepared) /\ prepared.task = asked.task
    BY <1>3, <1>4, <1>5 DEF SessionType, Beside
  <1>7. SessionInv(prepared)
    BY <1>2, <1>6, SameKept, KeptInv
  <1>8. PrepareUserClose(s, p) \in {s, FinishUserClose(prepared, p), prepared}
    BY DEF PrepareUserClose, prepared, asked
  <1> QED
    BY <1>1, <1>7, <1>8, FinishUserCloseInv

\* A process stops being prepared for its close.
LEMMA DecidedInv ==
  ASSUME NEW s, SessionInv(s), NEW p \in Slots
  PROVE  SessionInv([s EXCEPT !.task[p].close = 0, !.task[p].waiting = FALSE,
                              !.activate = @ \ {p}])
  <1> DEFINE r == [s.task[p] EXCEPT !.close = 0, !.waiting = FALSE]
             a == Put(s, p, r)
             t == [s EXCEPT !.task[p].close = 0, !.task[p].waiting = FALSE,
                            !.activate = @ \ {p}]
  <1>1. s \in SessionType /\ p \in Records /\ p \in Processes /\ s.task[p] \in ProcessType
    BY RecordSets DEF SessionInv, Registry, SessionType
  <1>2. r \in ProcessType
    BY <1>1 DEF ProcessType
  <1>3. KeptTask(s, p, r)
    BY <1>1 DEF KeptTask, ProcessType, Greeted
  <1>4. t.task = [s.task EXCEPT ![p] = r]
    BY <1>1 DEF SessionType, ProcessType
  <1>5. t = [s EXCEPT !.task = t.task, !.activate = s.activate \ {p}]
    BY <1>1, <1>4 DEF SessionType
  <1>6. t = [a EXCEPT !.activate = s.activate \ {p}]
    BY <1>1, <1>4, <1>5 DEF Put, SessionType
  <1> HIDE DEF r, t
  <1>7. SessionInv(a)
    BY <1>1, <1>2, <1>3, PutInv
  <1> HIDE DEF a
  <1>8. a \in SessionType /\ s.activate \ {p} \in SUBSET Slots
    BY <1>1, <1>7 DEF SessionInv, Registry, SessionType
  <1>9. Beside(a, t) /\ t.task = a.task
    BY <1>6, <1>8 DEF SessionType, Beside
  <1>10. SessionInv(t)
    BY <1>7, <1>9, SameKept, KeptInv
  <1> QED
    BY <1>10 DEF t

\* close_reply(): READY, CANCEL and WAIT.
LEMMA CloseReplyInv ==
  ASSUME NEW s, SessionInv(s), NEW p \in Slots, NEW value \in {"ready", "cancel", "wait"}
  PROVE  SessionInv(CloseReply(s, p, value))
  <1>1. /\ s \in SessionType /\ p \in Records /\ p \in Processes /\ s.task[p] \in ProcessType
    BY RecordSets DEF SessionInv, Registry, SessionType
  <1>2. CASE value = "ready"
    <2>1. CloseReply(s, p, value) \in {RequestClose(s, p), FinishUserClose(s, p)}
      BY <1>2 DEF CloseReply
    <2> QED
      BY <1>1, <2>1, RequestCloseInv, FinishUserCloseInv
  <1>3. CASE value = "cancel"
    <2> DEFINE x == IF Restarting(s, p) THEN DocumentResult(s, "cancelled") ELSE s
    <2>1. CloseReply(s, p, value) =
            [x EXCEPT !.task[p].close = 0, !.task[p].waiting = FALSE, !.activate = @ \ {p}]
      BY <1>3 DEF CloseReply
    <2>2. SessionInv(x)
      BY DocumentResultInv
    <2> HIDE DEF x
    <2> QED
      BY <2>1, <2>2, DecidedInv
  <1>4. CASE value = "wait"
    <2> DEFINE r == [s.task[p] EXCEPT !.waiting = TRUE]
               a == Put(s, p, r)
               t == CloseReply(s, p, value)
               act == IF p = s.app THEN s.activate \ {p} ELSE s.activate
    <2>1. t = [s EXCEPT !.task[p].waiting = TRUE, !.activate = act]
      BY <1>4 DEF CloseReply
    <2>2. r \in ProcessType
      BY <1>1 DEF ProcessType
    <2>3. KeptTask(s, p, r)
      BY <1>1 DEF KeptTask, ProcessType, Greeted
    <2>4. t = [a EXCEPT !.activate = act]
      BY <1>1, <2>1 DEF Put, SessionType
    <2> HIDE DEF r, t
    <2>5. SessionInv(a)
      BY <1>1, <2>2, <2>3, PutInv
    <2> HIDE DEF a
    <2>6. a \in SessionType /\ act \in SUBSET Slots
      BY <1>1, <2>5 DEF SessionInv, Registry, SessionType
    <2> HIDE DEF act
    <2>7. Beside(a, t) /\ t.task = a.task
      BY <2>4, <2>6 DEF SessionType, Beside
    <2> QED
      BY <2>5, <2>7, SameKept, KeptInv DEF t
  <1> QED
    BY <1>2, <1>3, <1>4

\* The handler that answers a document which a launch carries is the launch's.
LEMMA CarriedHandler ==
  ASSUME NEW s, SessionInv(s), NEW p \in Slots, s.task[p].up, ~s.task[p].closing,
         s.document.handler = s.task[p].token, Carried(s)
  PROVE  p = s.app /\ s.launch.pending = NoApp
  <1>1. /\ Registry(s) /\ Launching(s) /\ DocumentNames(s) /\ s.app \in Slots \cup {Idle}
        /\ s.task[Idle] = NoProcess
    BY DEF SessionInv, Registry, SessionType
  <1>2. s.launch.pending = NoApp
    BY <1>1 DEF DocumentNames
  <1>3. App(s).up /\ s.document.handler = App(s).token
    BY <1>1, <1>2 DEF DocumentNames, Launching, LaunchInProgress, Carried
  <1>4. s.app \in Slots
    BY <1>1, <1>3 DEF App, NoProcess
  <1> QED
    BY <1>1, <1>2, <1>3, <1>4 DEF Registry, App

\* handler_document_result()
LEMMA HandlerDocumentResultInv ==
  ASSUME NEW s, SessionInv(s), NEW p \in Slots, s.task[p].up, ~s.task[p].closing,
         s.document.request # 0, s.document.handler = s.task[p].token,
         NEW status \in Statuses
  PROVE  SessionInv(HandlerDocumentResult(s, p, status))
  <1> DEFINE owns == /\ s.launch.starting /\ s.document.serial = s.generation /\ p = s.app
             end(x) == IF owns THEN FinishLaunch(x) ELSE x
             t == HandlerDocumentResult(s, p, status)
  <1>1. /\ Registry(s) /\ Launching(s) /\ Parked(s) /\ DocumentNames(s) /\ Accounted(s)
        /\ s \in SessionType /\ s.document \in DocumentType
        /\ p \in Records /\ p \in Processes /\ s.task[p] \in ProcessType
    BY RecordSets DEF SessionInv, Registry, SessionType
  <1>2. (owns <=> Carried(s)) /\ (owns => s.launch.pending = NoApp)
    BY CarriedHandler DEF Carried
  <1>3. s.document.handler # 0 /\ Settled(s)
    BY <1>1 DEF Registry, Settled
  <1>4. \A x : SessionInv(x) /\ Settled(x) => SessionInv(end(x))
    BY FinishLaunchInv
  <1>5. CASE status = "restart" /\ s.document.restarted
    <2>1. t = end(DocumentResult(s, "error"))
      BY <1>5 DEF HandlerDocumentResult
    <2> HIDE DEF end
    <2> QED
      BY <1>4, <2>1, DocumentResultInv
  <1>6. CASE status = "restart" /\ ~s.document.restarted
    <2> DEFINE d == [s.document EXCEPT !.restarted = TRUE, !.restarting = TRUE,
                                       !.waiting = TRUE]
               a == [s EXCEPT !.document.restarted = TRUE, !.document.restarting = TRUE,
                              !.document.waiting = TRUE]
               u == end(a)
    <2>1. t = PrepareUserClose(u, p)
      BY <1>6 DEF HandlerDocumentResult
    <2>2. a = [s EXCEPT !.document = d]
      BY <1>1 DEF SessionType
    <2>3. /\ d \in DocumentType /\ d.request = s.document.request /\ d.id = s.document.id
          /\ d.serial = s.document.serial /\ d.origin = s.document.origin
          /\ d.handler = s.document.handler
      BY <1>1 DEF DocumentType
    <2> HIDE DEF d, a
    <2>4. /\ Around(s, a) /\ a.document = d
          /\ a.choosing = s.choosing /\ a.documents = s.documents
      BY <1>1, <2>2, <2>3 DEF Around, SessionType
    <2>5. Registry(a) /\ Launching(a) /\ Parked(a)
      BY <1>1, <2>4, DocumentFrame
    <2>6. Settled(a)
      BY <1>3, <2>3, <2>4 DEF Settled
    <2>7. \A token : Live(s, token) <=> Live(a, token)
      BY <2>4 DEF Live, Around
    <2>8. SessionInv(u)
      <3>1. CASE owns
        <4>1. /\ Within(a, u) /\ ~u.launch.starting /\ u.launch.busy = "no"
              /\ ~u.launch.acked /\ u.launch.pending = a.launch.pending
          BY <2>5, <3>1, FinishLaunchFacts
        <4> HIDE DEF u
        <4>2. /\ Registry(u) /\ Launching(u) /\ Parked(u) /\ Settled(u)
              /\ ~Carried(u)
          BY <2>5, <2>6, <4>1, QuietLaunch DEF Carried
        <4>3. DocumentNames(u)
          BY <1>1, <1>3, <2>3, <2>4, <2>7, <4>1, <4>2 DEF DocumentNames, Within, Around, Live
        <4> QED
          BY <4>2, <4>3 DEF SessionInv, Accounted
      <3>2. CASE ~owns
        <4>1. u = a
          BY <3>2
        <4> HIDE DEF u
        <4>2. ~Carried(a)
          BY <1>2, <2>3, <2>4, <3>2 DEF Carried, Around
        <4>3. DocumentNames(a)
          BY <1>1, <1>3, <2>3, <2>4, <2>7, <4>2 DEF DocumentNames, Around
        <4> QED
          BY <2>5, <2>6, <4>1, <4>3 DEF SessionInv, Accounted
      <3> QED
        BY <3>1, <3>2
    <2> HIDE DEF u
    <2> QED
      BY <2>1, <2>8, PrepareUserCloseInv
  <1>7. CASE status = "wait"
    <2> DEFINE d == [s.document EXCEPT !.waiting = TRUE]
               a == [s EXCEPT !.document.waiting = TRUE]
    <2>1. t = DocumentResult(a, "wait")
      BY <1>7 DEF HandlerDocumentResult
    <2>2. a = [s EXCEPT !.document = d]
      BY <1>1 DEF SessionType
    <2>3. d \in DocumentType /\ SameDocument(s.document, d)
      BY <1>1 DEF DocumentType, SameDocument
    <2> HIDE DEF d, a
    <2>4. /\ Around(s, a) /\ a.document = d
          /\ a.choosing = s.choosing /\ a.documents = s.documents
      BY <1>1, <2>2, <2>3 DEF Around, SessionType
    <2>5. Registry(a) /\ Launching(a) /\ Parked(a) /\ a \in SessionType
      BY <1>1, <2>4, DocumentFrame DEF Around
    <2>6. s.generation \in Nat
      BY <1>1 DEF SessionType
    <2>7. Still(s, a)
      BY <2>3, <2>4, <2>6 DEF Still, Around, App
    <2>8. SessionInv(a)
      BY <1>1, <2>5, <2>7, StillDocuments DEF SessionInv
    <2> QED
      BY <2>1, <2>8, DocumentResultInv
  <1>8. CASE status = "accepted"
    <2> DEFINE origin == IF s.document.detached \/ s.document.origin = s.task[p].token
                         THEN 0 ELSE s.document.origin
               r == [s.task[p] EXCEPT !.origin = origin]
               adopted == [s EXCEPT !.task[p].origin =
                                IF \/ s.document.detached
                                   \/ s.document.origin = s.task[p].token
                                THEN 0 ELSE s.document.origin]
               shown == IF owns
                        THEN FinishActivation([adopted EXCEPT !.launch.acked = TRUE])
                        ELSE adopted
    <2>1. t = DocumentResult(shown, "accepted")
      BY <1>8 DEF HandlerDocumentResult
    <2>2. origin \in Nat
      BY <1>1 DEF DocumentType
    <2>3. adopted = Put(s, p, [s.task[p] EXCEPT !.origin = origin])
      BY <1>1 DEF Put, SessionType
    <2> HIDE DEF origin
    <2>4. r \in ProcessType
      BY <1>1, <2>2 DEF ProcessType
    <2>5. KeptTask(s, p, r)
      BY <1>1 DEF KeptTask, ProcessType, Greeted
    <2>6. adopted = Put(s, p, r)
      BY <2>3
    <2> HIDE DEF r, adopted
    <2>7. SessionInv(adopted) /\ adopted.launch = s.launch
      BY <1>1, <2>4, <2>5, <2>6, PutInv, PutFacts DEF Beside
    <2>8. CASE owns
      <3>1. SessionInv([adopted EXCEPT !.launch.acked = TRUE])
        BY <1>2, <2>7, <2>8, AckedInv
      <3>2. SessionInv(shown)
        BY <2>8, <3>1, FinishActivationInv
      <3> HIDE DEF shown
      <3> QED
        BY <2>1, <3>2, DocumentResultInv
    <2>9. CASE ~owns
      BY <2>1, <2>7, <2>9, DocumentResultInv
    <2> QED
      BY <2>8, <2>9
  <1>9. CASE status \in {"error", "cancelled"}
    <2>1. t = DocumentResult(end(s), status)
      BY <1>9 DEF HandlerDocumentResult
    <2>2. SessionInv(end(s))
      BY <1>3, <1>4
    <2> HIDE DEF end
    <2> QED
      BY <2>1, <2>2, DocumentResultInv
  <1> QED
    BY <1>5, <1>6, <1>7, <1>8, <1>9 DEF Statuses

\* set_busy(): the application in the foreground takes the launch for itself.
LEMMA SetBusyInv ==
  ASSUME NEW s, SessionInv(s), NEW enabled \in BOOLEAN
  PROVE  SessionInv(SetBusy(s, enabled))
  <1> DEFINE t == SetBusy(s, enabled)
  <1>1. /\ Registry(s) /\ Launching(s) /\ Parked(s) /\ DocumentNames(s) /\ Accounted(s)
        /\ s \in SessionType /\ s.launch \in LaunchType /\ s.generation \in Nat
    BY DEF SessionInv, Registry, SessionType
  <1>2. CASE ~AppInForeground(s)
    BY <1>2 DEF SetBusy
  <1>3. ASSUME AppInForeground(s)
        PROVE  /\ s.launch.pending = NoApp /\ App(s).up /\ ~App(s).leaving
               /\ App(s).id \in Apps
    <2>1. App(s).up /\ ~App(s).leaving /\ s.launch.pending = NoApp
      BY <1>1, <1>3 DEF Parked, AppInForeground, IsRunning
    <2>2. s.app \in Slots
      BY <1>1, <2>1 DEF App, Registry, NoProcess, SessionType
    <2> QED
      BY <1>1, <2>1, <2>2 DEF Registry, App
  <1>4. CASE AppInForeground(s) /\ ~enabled
    <2> DEFINE busy == IF s.launch.busy = "yes" THEN "finishing" ELSE s.launch.busy
    <2>1. t = [s EXCEPT !.launch.busy = IF @ = "yes" THEN "finishing" ELSE @]
      BY <1>4 DEF SetBusy
    <2>2. t = [s EXCEPT !.launch = [s.launch EXCEPT !.busy = busy]]
      BY <1>1, <2>1 DEF SessionType
    <2>3. busy \in {"no", "yes", "finishing"} /\ (busy # "no" <=> s.launch.busy # "no")
      BY <1>1 DEF LaunchType
    <2> HIDE DEF busy, t
    <2>4. [s.launch EXCEPT !.busy = busy] \in LaunchType
      BY <1>1, <2>3 DEF LaunchType
    <2>5. Within(s, t) /\ t.launch = [s.launch EXCEPT !.busy = busy]
      BY <1>1, <2>2, <2>4 DEF SessionType, Within
    <2>6. /\ t.launch.pending = s.launch.pending /\ t.launch.id = s.launch.id
          /\ t.launch.starting = s.launch.starting /\ t.launch.act = s.launch.act
          /\ t.launch.busy = busy
      BY <1>1, <2>5 DEF LaunchType
    <2>a. Within(s, t)
      BY <2>5
    <2>7. LaunchInProgress(t) => LaunchInProgress(s)
      BY <2>3, <2>6 DEF LaunchInProgress
    <2>8. t.launch.pending = NoApp
      BY <1>3, <1>4, <2>6
    <2> QED
      BY <2>a, <2>6, <2>7, <2>8, LaunchInv DEF t
  <1>5. CASE AppInForeground(s) /\ enabled /\ LaunchInProgress(s)
    <2>1. t = [s EXCEPT !.launch.id = App(s).id, !.launch.busy = "yes"]
      BY <1>5 DEF SetBusy
    <2>2. App(s).id = s.launch.id
      BY <1>1, <1>3, <1>5 DEF Launching
    <2>3. t = [s EXCEPT !.launch = [s.launch EXCEPT !.id = s.launch.id, !.busy = "yes"]]
      BY <1>1, <2>1, <2>2 DEF SessionType
    <2> HIDE DEF t
    <2>4. [s.launch EXCEPT !.id = s.launch.id, !.busy = "yes"] \in LaunchType
      BY <1>1 DEF LaunchType
    <2>5. /\ t.launch = [s.launch EXCEPT !.id = s.launch.id, !.busy = "yes"]
      BY <1>1, <2>3 DEF SessionType
    <2>a. Within(s, t)
      BY <1>1, <2>3, <2>4 DEF SessionType, Within
    <2>6. /\ t.launch.pending = s.launch.pending /\ t.launch.id = s.launch.id
          /\ t.launch.starting = s.launch.starting /\ t.launch.act = s.launch.act
      BY <1>1, <2>5 DEF LaunchType
    <2>7. t.launch.pending = NoApp
      BY <1>3, <1>5, <2>6
    <2> QED
      BY <1>5, <2>a, <2>6, <2>7, LaunchInv DEF t
  <1>6. CASE AppInForeground(s) /\ enabled /\ ~LaunchInProgress(s)
    <2> DEFINE launch == [s.launch EXCEPT !.retained = FALSE, !.id = App(s).id, !.busy = "yes"]
               marked == [s EXCEPT !.launch.retained = FALSE, !.generation = @ + 1]
    <2>1. t = [marked EXCEPT !.launch.id = App(s).id, !.launch.busy = "yes"]
      BY <1>6 DEF SetBusy
    <2>2. launch \in LaunchType
      BY <1>1, <1>3, <1>6 DEF LaunchType
    <2>3. t = [s EXCEPT !.launch = launch, !.generation = s.generation + 1]
      BY <1>1, <2>1 DEF SessionType, LaunchType
    <2>4. /\ launch.pending = NoApp /\ launch.starting = s.launch.starting
          /\ launch.id = App(s).id
      BY <1>1, <1>3, <1>6 DEF LaunchType
    <2> HIDE DEF launch, t
    <2>a. s.generation + 1 \in Nat
      BY <1>1
    <2>5. t \in SessionType
      BY <1>1, <2>2, <2>3, <2>a DEF SessionType
    <2>6. /\ t.task = s.task /\ t.app = s.app /\ t.launch = launch
          /\ t.document = s.document /\ t.generation = s.generation + 1
          /\ t.nextToken = s.nextToken
          /\ t.documents = s.documents /\ t.choosing = s.choosing
      BY <1>1, <2>3 DEF SessionType
    <2>7. Registry(t)
      BY <1>1, <2>5, <2>6, RegistryFrame
    <2>8. App(t) = App(s) /\ ~s.launch.starting
      BY <1>6, <2>6 DEF App, LaunchInProgress
    <2>9. Launching(t) /\ Parked(t)
      BY <1>3, <1>6, <2>4, <2>6, <2>8 DEF Launching, Parked
    <2>10. Still(s, t)
      BY <1>1, <2>4, <2>6, <2>8 DEF Still, SameDocument
    <2> QED
      BY <1>1, <2>5, <2>7, <2>9, <2>10, StillDocuments DEF SessionInv, t
  <1> QED
    BY <1>2, <1>4, <1>5, <1>6

-----------------------------------------------------------------------------
(* manage_processes(): a pending application is started.                    *)

\* Sets of natural numbers have a least element.
LEMMA LeastNatural ==
  ASSUME NEW T \in SUBSET Nat, T # {}
  PROVE  \E n \in T : \A m \in T : n <= m
  <1>1. PICK x \in T : TRUE
    OBVIOUS
  <1>2. PICK n \in T : \A m \in T : ~(<<m, n>> \in OpToRel(<, Nat))
    BY <1>1, NatLessThanWellFounded, WFMin
  <1>3. \A m \in T : ~(m < n)
    BY <1>2 DEF OpToRel
  <1> QED
    BY <1>3

\* What the registry's searches return.
LEMMA FoundTask ==
  ASSUME NEW s, NEW id
  PROVE  /\ TaskForId(s, id) # Nobody =>
               /\ TaskForId(s, id) \in Slots
               /\ s.task[TaskForId(s, id)].up /\ s.task[TaskForId(s, id)].id = id
         /\ FreeTask(s) # Nobody =>
               FreeTask(s) \in Slots /\ ~s.task[FreeTask(s)].up
         /\ TaskForId(s, id) = Nobody => \A p \in Slots : ~(s.task[p].up /\ s.task[p].id = id)
  <1> DEFINE S == {p \in Slots : s.task[p].up /\ s.task[p].id = id}
             F == {p \in Slots : ~s.task[p].up}
  <1>1. \A T \in SUBSET Slots : T # {} => Least(T) \in T /\ Least(T) # Nobody
    <2> TAKE T \in SUBSET Slots
    <2> HAVE T # {}
    <2>1. \E p \in T : \A q \in T : p <= q
      <3>1. T \in SUBSET Nat
        BY SessionAssumption DEF SessionAssumption, Slots
      <3> QED
        BY <3>1, LeastNatural
    <2>2. Least(T) = CHOOSE p \in T : \A q \in T : p <= q
      BY DEF Least
    <2>3. Least(T) \in T
      BY <2>1, <2>2
    <2> QED
      BY <2>3, RecordSets
  <1>2. Least({}) = Nobody
    BY DEF Least
  <1>3. TaskForId(s, id) = Least(S) /\ FreeTask(s) = Least(F)
    BY DEF TaskForId, FreeTask
  <1>4. S \in SUBSET Slots /\ F \in SUBSET Slots
    OBVIOUS
  <1>5. (S # {} => Least(S) \in S /\ Least(S) # Nobody) /\ (F # {} => Least(F) \in F)
    <2> HIDE DEF S, F
    <2> QED
      BY <1>1, <1>4
  <1>6. TaskForId(s, id) # Nobody => TaskForId(s, id) \in S
    <2> HIDE DEF S
    <2> QED
      BY <1>2, <1>3, <1>5
  <1>7. FreeTask(s) # Nobody => FreeTask(s) \in F
    <2> HIDE DEF F
    <2> QED
      BY <1>2, <1>3, <1>5
  <1>8. TaskForId(s, id) = Nobody => S = {}
    <2> HIDE DEF S
    <2> QED
      BY <1>3, <1>5
  <1> QED
    BY <1>6, <1>7, <1>8

\* The pending application runs in p and is selected.
Started(s, t, p, id) ==
    /\ t \in SessionType /\ t.app = p
    /\ \A q \in Records : q # p => t.task[q] = s.task[q]
    /\ t.task[p].up /\ t.task[p].id = id /\ ~t.task[p].leaving
    /\ t.task[p].token # 0 /\ t.task[p].token <= t.nextToken
    /\ Greeted(t.task[p])
    /\ s.nextToken <= t.nextToken
    /\ s.task[p].up => s.task[p].token = t.task[p].token
    /\ \A q \in Slots :
          q # p /\ s.task[q].up => s.task[q].id # id /\ s.task[q].token # t.task[p].token
    /\ t.launch.pending = NoApp /\ t.launch.id = s.launch.id
    /\ t.launch.starting = s.launch.starting /\ t.launch.act = s.launch.act
    /\ t.launch.busy = s.launch.busy
    /\ t.generation = s.generation
    /\ t.documents = s.documents /\ t.choosing = s.choosing
    /\ t.document.request = s.document.request /\ t.document.serial = s.document.serial
    /\ t.document.origin = s.document.origin /\ t.document.id = s.document.id
    /\ t.document.restarting = s.document.restarting
    /\ Carried(s) => t.document.handler = t.task[p].token
    /\ t.document.handler # s.document.handler =>
          /\ s.document.request # 0 /\ s.document.serial = s.generation
          /\ s.document.id = id /\ t.document.handler = t.task[p].token

\* A started application is the selected process, and its document's handler.
LEMMA StartedInv ==
  ASSUME NEW s, SessionInv(s), NEW id \in Apps, s.launch.pending = id, ~App(s).up,
         NEW p \in Slots, NEW t, Started(s, t, p, id)
  PROVE  SessionInv(t)
  <1>1. /\ Registry(s) /\ Launching(s) /\ DocumentNames(s) /\ Accounted(s)
        /\ s \in SessionType /\ id # NoApp /\ t \in SessionType
    BY SessionAssumption DEF SessionInv, Registry, Started, SessionAssumption, NoApp
  <1>2. /\ s.nextToken \in Nat /\ t.nextToken \in Nat
        /\ \A q \in Slots : s.task[q].token \in Nat /\ t.task[q].token \in Nat
    BY <1>1, RecordSets DEF SessionType, ProcessType
  <1>3. \A q \in Slots : q # p => t.task[q] = s.task[q]
    BY RecordSets DEF Started
  <1>4. t.task[Idle] = NoProcess
    BY <1>1, RecordSets DEF Started, Registry
  <1>5. Registry(t)
    <2>1. \A x, y \in Slots :
            t.task[x].up /\ t.task[y].up =>
                /\ t.task[x].id = t.task[y].id => x = y
                /\ t.task[x].token = t.task[y].token => x = y
      <3> TAKE x, y \in Slots
      <3>1. CASE x # p /\ y # p
        BY <1>1, <1>3, <3>1 DEF Registry
      <3>2. CASE x = p
        BY <1>3, <3>2 DEF Started
      <3>3. CASE y = p
        BY <1>3, <3>3 DEF Started
      <3> QED
        BY <3>1, <3>2, <3>3
    <2>2. \A x \in Slots \ {t.app} :
            t.task[x].up =>
                ~t.task[x].shown /\ ~t.task[x].leaving /\ t.task[x].life # "foreground"
      <3> TAKE x \in Slots \ {t.app}
      <3>1. x # p /\ t.task[x] = s.task[x]
        BY <1>3 DEF Started
      <3>2. CASE x = s.app
        BY <3>1, <3>2 DEF App
      <3>3. CASE x # s.app
        BY <1>1, <3>1, <3>3 DEF Registry
      <3> QED
        BY <3>2, <3>3
    <2>3. \A x \in Slots : t.task[x].up =>
            t.task[x].id \in Apps /\ t.task[x].token # 0 /\ t.task[x].token <= t.nextToken
      <3> TAKE x \in Slots
      <3>1. CASE x = p
        BY <3>1 DEF Started
      <3>2. CASE x # p
        BY <1>1, <1>2, <1>3, <3>2 DEF Registry, Started
      <3> QED
        BY <3>1, <3>2
    <2>4. \A x \in Slots : Greeted(t.task[x])
      BY <1>1, <1>3 DEF Registry, Started
    <2> QED
      BY <1>1, <1>4, <2>1, <2>2, <2>3, <2>4 DEF Registry
  <1>6. App(t).up /\ ~App(t).leaving /\ App(t).id = id /\ App(t).token = t.task[p].token
    BY DEF Started, App
  <1>7. s.launch.starting => s.launch.id = id
    BY <1>1 DEF Launching
  <1>8. Launching(t)
    <2>1. t.launch.starting = s.launch.starting /\ t.launch.busy = "no"
          /\ t.launch.pending = NoApp /\ t.launch.id = s.launch.id
          /\ t.generation = s.generation
      BY <1>1 DEF Started, Launching
    <2> QED
      BY <1>1, <1>6, <1>7, <2>1 DEF Launching, LaunchInProgress
  <1>9. Parked(t)
    BY DEF Parked, Started
  <1>10. \A token : Live(s, token) => Live(t, token)
    BY <1>3 DEF Live, Started
  <1>11. Carried(t) <=> Carried(s)
    BY DEF Carried, Started
  <1>12. t.document.handler # 0 => Live(t, t.document.handler)
    <2>1. CASE t.document.handler = s.document.handler
      BY <1>1, <1>10, <2>1 DEF DocumentNames
    <2>2. CASE t.document.handler # s.document.handler
      BY <2>2 DEF Started, Live
    <2> QED
      BY <2>1, <2>2
  <1>13. t.document.handler # 0 => t.document.serial # 0
    BY <1>1 DEF DocumentNames, Started
  <1>14. t.document.request = 0 => t.document.handler = 0
    BY <1>1 DEF DocumentNames, Started
  <1>15. Carried(t) =>
           /\ t.document.id = t.launch.id /\ t.launch.act = "open" /\ ~t.document.restarting
           /\ t.document.handler # 0 /\ t.document.handler = App(t).token
           /\ t.launch.pending = NoApp
    BY <1>1, <1>6, <1>11 DEF DocumentNames, Started
  <1>16. DocumentNames(t)
    <2>1. /\ t.document.request = s.document.request /\ t.document.serial = s.document.serial
          /\ t.document.origin = s.document.origin /\ t.document.id = s.document.id
          /\ t.document.restarting = s.document.restarting /\ t.generation = s.generation
          /\ t.documents = s.documents /\ t.choosing = s.choosing
      BY DEF Started
    <2> HIDE DEF Started
    <2> QED
      BY <1>1, <1>10, <1>12, <1>13, <1>14, <1>15, <2>1 DEF DocumentNames
  <1>17. Accounted(t)
    <2>1. t.document.handler = 0 => s.document.handler = 0
      BY DEF Started
    <2> QED
      BY <1>1, <1>11, <2>1 DEF Accounted, Settled, Started
  <1> QED
    BY <1>5, <1>8, <1>9, <1>16, <1>17 DEF SessionInv

\* A registered instance is brought back.
LEMMA ResumedInv ==
  ASSUME NEW s, SessionInv(s), NEW id \in Apps, s.launch.pending = id, ~App(s).up,
         NEW p \in Slots, s.task[p].up, s.task[p].id = id
  PROVE  SessionInv(ClearPending(SendActivation(SetLifecycle(
             [s EXCEPT !.app = p, !.task[p].shown = FALSE], p, "foreground"), p)))
  <1> DEFINE r == [s.task[p] EXCEPT !.shown = FALSE]
             q == [r EXCEPT !.life = "foreground"]
             a == [s EXCEPT !.app = p, !.task[p].shown = FALSE]
             b == SetLifecycle(a, p, "foreground")
             c == SendActivation(b, p)
             t == ClearPending(c)
  <1>0. id # NoApp
    BY SessionAssumption DEF SessionAssumption, NoApp
  <1>1. /\ Registry(s) /\ Launching(s) /\ DocumentNames(s) /\ s \in SessionType
        /\ p \in Records /\ p # Launcher /\ s.task[p] \in ProcessType
        /\ s.launch \in LaunchType /\ s.document \in DocumentType
    BY RecordSets DEF SessionInv, Registry, SessionType
  <1>2. r \in ProcessType /\ q \in ProcessType
    BY <1>1 DEF ProcessType
  <1>3. /\ r.up /\ q.up /\ q.id = id /\ q.token = s.task[p].token
        /\ q.leaving = s.task[p].leaving
        /\ (Greeted(s.task[p]) => Greeted(q))
    BY <1>1 DEF ProcessType, Greeted
  <1>4. a = [s EXCEPT !.task = [s.task EXCEPT ![p] = r], !.app = p]
    BY <1>1 DEF SessionType
  <1> HIDE DEF r, a
  <1>5. a \in SessionType /\ a.task = [s.task EXCEPT ![p] = r]
    BY <1>1, <1>2, <1>4 DEF SessionType
  <1>6. a.task[p] = r
    BY <1>1, <1>5 DEF SessionType
  <1>7. b = [a EXCEPT !.task[p].life = "foreground"]
    BY <1>1, <1>3, <1>6 DEF SetLifecycle
  <1>8. b = [a EXCEPT !.task = [a.task EXCEPT ![p] = q]]
    BY <1>5, <1>6, <1>7 DEF SessionType
  <1> HIDE DEF b, q
  <1>9. b.task = [s.task EXCEPT ![p] = q]
    BY <1>1, <1>5, <1>8 DEF SessionType
  <1>10. b = [s EXCEPT !.task = b.task, !.app = p]
    BY <1>1, <1>4, <1>5, <1>8 DEF SessionType
  <1>11. b.task \in [Records -> ProcessType]
    BY <1>1, <1>2, <1>9 DEF SessionType
  <1>12. /\ b \in SessionType /\ b.app = p /\ b.launch = s.launch /\ b.document = s.document
         /\ b.generation = s.generation /\ b.nextToken = s.nextToken
         /\ b.documents = s.documents /\ b.choosing = s.choosing
    BY <1>1, <1>10, <1>11 DEF SessionType
  <1>13. b.task[p] = q /\ \A x \in Records : x # p => b.task[x] = s.task[x]
    BY <1>1, <1>9 DEF SessionType
  <1>14. s.task[p].token # 0 /\ s.task[p].token \in Nat /\ s.task[p].token <= s.nextToken
         /\ s.nextToken \in Nat
    BY <1>1 DEF Registry, ProcessType, SessionType
  <1> DEFINE d == IF Carried(s) THEN [s.document EXCEPT !.handler = q.token] ELSE s.document
  <1>15. d \in DocumentType
    BY <1>1, <1>3, <1>14 DEF DocumentType
  <1>16. /\ d.request = s.document.request /\ d.serial = s.document.serial
         /\ d.origin = s.document.origin /\ d.id = s.document.id
         /\ d.restarting = s.document.restarting
         /\ Carried(s) => d.handler = q.token
         /\ ~Carried(s) => d.handler = s.document.handler
    BY <1>1 DEF DocumentType
  <1>17. c = [b EXCEPT !.document = d]
    <2>1. CASE Carried(s)
      <3>1. s.document.id = id
        BY <1>0, <1>1, <2>1 DEF DocumentNames, Launching, Carried
      <3>2. c = [b EXCEPT !.document.handler = b.task[p].token]
        BY <1>3, <1>12, <1>13, <2>1, <3>1 DEF SendActivation, Carried
      <3> QED
        BY <1>12, <1>13, <2>1, <3>2 DEF SessionType
    <2>2. CASE ~Carried(s)
      <3>1. c = b
        BY <1>12, <2>2 DEF SendActivation, Carried
      <3> QED
        BY <1>12, <2>2, <3>1 DEF SessionType
    <2> QED
      BY <2>1, <2>2
  <1> HIDE DEF c, d
  <1>18. c \in SessionType /\ c.launch = s.launch
    BY <1>12, <1>15, <1>17 DEF SessionType
  <1> DEFINE l == [s.launch EXCEPT !.pending = NoApp]
  <1>19. /\ l \in LaunchType /\ l.pending = NoApp /\ l.id = s.launch.id /\ l.act = s.launch.act
         /\ l.starting = s.launch.starting /\ l.busy = s.launch.busy
    BY <1>1 DEF LaunchType
  <1>20. t = [c EXCEPT !.launch = l]
    BY <1>18 DEF ClearPending, SessionType
  <1> HIDE DEF t, l
  <1>21. t \in SessionType
    BY <1>18, <1>19, <1>20 DEF SessionType
  <1>22. /\ t.launch = l /\ t.document = d /\ t.task = b.task /\ t.app = p
         /\ t.generation = s.generation /\ t.nextToken = s.nextToken
         /\ t.documents = s.documents /\ t.choosing = s.choosing
    BY <1>12, <1>17, <1>18, <1>20 DEF SessionType
  <1>23. p # s.app /\ ~s.task[p].leaving /\ Greeted(s.task[p])
    BY <1>1 DEF App, Registry
  <1>24. Started(s, t, p, id)
    <2>1. /\ \A x \in Records : x # p => t.task[x] = s.task[x]
          /\ t.task[p] = q
      BY <1>13, <1>22
    <2>2. /\ t.task[p].up /\ t.task[p].id = id /\ ~t.task[p].leaving
          /\ t.task[p].token = s.task[p].token /\ Greeted(t.task[p])
      BY <1>3, <1>23, <2>1
    <2>3. \A x \in Slots :
            x # p /\ s.task[x].up => s.task[x].id # id /\ s.task[x].token # t.task[p].token
      BY <1>1, <2>2 DEF Registry
    <2>4. t.document.handler # s.document.handler =>
            /\ s.document.request # 0 /\ s.document.serial = s.generation
            /\ s.document.id = id /\ t.document.handler = t.task[p].token
      BY <1>0, <1>1, <1>16, <1>22, <2>1 DEF DocumentNames, Launching, Carried
    <2>5. Carried(s) => t.document.handler = t.task[p].token
      BY <1>16, <1>22, <2>1
    <2> QED
      BY <1>14, <1>16, <1>19, <1>21, <1>22, <2>1, <2>2, <2>3, <2>4, <2>5 DEF Started
  <1>25. SessionInv(t)
    BY <1>24, StartedInv
  <1> QED
    BY <1>25 DEF t, c, b, a

\* A process is forked into a free record.
LEMMA ForkedInv ==
  ASSUME NEW s, SessionInv(s), NEW id \in Apps, s.launch.pending = id, ~App(s).up,
         NEW p \in Slots, ~s.task[p].up,
         \A x \in Slots : ~(s.task[x].up /\ s.task[x].id = id)
  PROVE  SessionInv(ClearPending(StartProcess(
             [s EXCEPT !.app = p, !.launch.retained = FALSE], p, id)))
  <1> DEFINE token == s.nextToken + 1
             r == [NoProcess EXCEPT !.up = TRUE, !.alive = TRUE, !.id = id, !.token = token]
             a == [s EXCEPT !.app = p, !.launch.retained = FALSE]
             handles == /\ s.document.request # 0 /\ s.document.serial = s.generation
                        /\ s.document.id = id
             d == [s.document EXCEPT !.handler = IF handles THEN token ELSE @]
             b == StartProcess(a, p, id)
             t == ClearPending(b)
             k == [s.launch EXCEPT !.retained = FALSE]
             l == [s.launch EXCEPT !.retained = FALSE, !.pending = NoApp]
  <1>0. id # NoApp
    BY SessionAssumption DEF SessionAssumption, NoApp
  <1>1. /\ Registry(s) /\ Launching(s) /\ DocumentNames(s) /\ s \in SessionType
        /\ p \in Records /\ p # Launcher /\ s.task[p] \in ProcessType
        /\ s.launch \in LaunchType /\ s.document \in DocumentType
        /\ s.nextToken \in Nat /\ token \in Nat
    BY RecordSets DEF SessionInv, Registry, SessionType
  <1>2. r \in ProcessType
    BY <1>1 DEF ProcessType, NoProcess
  <1>3. r.up /\ r.id = id /\ r.token = token /\ ~r.leaving /\ Greeted(r)
    BY DEF NoProcess, Greeted
  <1>4. /\ k \in LaunchType /\ l \in LaunchType /\ l.pending = NoApp /\ l.id = s.launch.id
        /\ l.act = s.launch.act
        /\ l.starting = s.launch.starting /\ l.busy = s.launch.busy
        /\ l = [k EXCEPT !.pending = NoApp]
    BY <1>1 DEF LaunchType
  <1>5. a = [s EXCEPT !.app = p, !.launch = k]
    BY <1>1 DEF SessionType
  <1> HIDE DEF a, k, l
  <1>6. /\ a \in SessionType /\ a.app = p /\ a.task = s.task /\ a.launch = k
        /\ a.document = s.document
        /\ a.generation = s.generation /\ a.nextToken = s.nextToken
        /\ a.documents = s.documents /\ a.choosing = s.choosing
    BY <1>1, <1>4, <1>5 DEF SessionType
  <1>7. /\ d \in DocumentType /\ d.request = s.document.request
        /\ d.serial = s.document.serial
        /\ d.origin = s.document.origin /\ d.id = s.document.id
        /\ d.restarting = s.document.restarting
        /\ handles => d.handler = token
        /\ ~handles => d.handler = s.document.handler
    BY <1>1 DEF DocumentType
  <1>8. b = [a EXCEPT !.task = [a.task EXCEPT ![p] = r], !.nextToken = token, !.document = d]
    BY <1>1, <1>6 DEF StartProcess, SessionType
  <1> HIDE DEF b, r, d, token
  <1>9. /\ b \in SessionType /\ b.task = [s.task EXCEPT ![p] = r] /\ b.launch = k
        /\ b.app = p /\ b.document = d /\ b.nextToken = token /\ b.generation = s.generation
        /\ b.documents = s.documents /\ b.choosing = s.choosing
    BY <1>1, <1>2, <1>6, <1>7, <1>8 DEF SessionType
  <1>10. t = [b EXCEPT !.launch = l]
    BY <1>4, <1>9 DEF ClearPending, SessionType
  <1> HIDE DEF t
  <1>11. t \in SessionType
    BY <1>4, <1>9, <1>10 DEF SessionType
  <1>12. /\ t.launch = l /\ t.document = d /\ t.task = b.task /\ t.app = p
         /\ t.generation = s.generation /\ t.nextToken = token
         /\ t.documents = s.documents /\ t.choosing = s.choosing
    BY <1>9, <1>10 DEF SessionType
  <1>13. b.task[p] = r /\ \A x \in Records : x # p => b.task[x] = s.task[x]
    BY <1>1, <1>9 DEF SessionType
  <1>14. Started(s, t, p, id)
    <2>1. /\ \A x \in Records : x # p => t.task[x] = s.task[x]
          /\ t.task[p] = r
      BY <1>12, <1>13
    <2>2. \A x \in Slots : s.task[x].up => s.task[x].token <= s.nextToken
                                           /\ s.task[x].token \in Nat
      BY <1>1, RecordSets DEF Registry, SessionType, ProcessType
    <2>3. token # 0 /\ token <= t.nextToken /\ s.nextToken <= t.nextToken
          /\ \A x \in Slots : s.task[x].up => s.task[x].token # token
      BY <1>1, <1>12, <2>2 DEF token
    <2>4. Carried(s) => handles
      BY <1>0, <1>1 DEF Carried, DocumentNames, Launching
    <2>5. Carried(s) => t.document.handler = t.task[p].token
      BY <1>3, <1>7, <1>12, <2>1, <2>4
    <2>6. t.document.handler # s.document.handler =>
            /\ s.document.request # 0 /\ s.document.serial = s.generation
            /\ s.document.id = id /\ t.document.handler = t.task[p].token
      BY <1>3, <1>7, <1>12, <2>1
    <2> QED
      BY <1>3, <1>4, <1>7, <1>11, <1>12, <2>1, <2>3, <2>5, <2>6 DEF Started
  <1>15. SessionInv(t)
    BY <1>14, StartedInv
  <1> QED
    BY <1>15 DEF t, b, a

\* start_pending()
LEMMA StartPendingInv ==
  ASSUME NEW s, SessionInv(s), NEW start
  PROVE  SessionInv(StartPending(s, start))
  <1> DEFINE id == s.launch.pending
             existing == TaskForId(s, id)
             slot == FreeTask(s)
             drop(x) == FinishLaunch(ClearPending(x))
             refuse == drop(DocumentLaunchResult(s, "error"))
             t == StartPending(s, start)
             stale == s.launch.act = "resume"
                      /\ (existing = Nobody \/ ~IsRunning(s.task[existing]))
             waits == existing # Nobody /\ s.task[existing].closing
             alone == id \in Fullscreen /\ s.task[Launcher].up
  <1>1. CASE id = NoApp \/ App(s).up
    BY <1>1 DEF StartPending
  <1> SUFFICES ASSUME id # NoApp, ~App(s).up PROVE SessionInv(t)
    BY <1>1
  <1>2. id \in Apps
    BY DEF SessionInv, Registry, SessionType, LaunchType
  <1>3. CASE stale
    <2>1. t = drop(s)
      BY <1>3 DEF StartPending
    <2>2. Settled(s)
      BY <1>3 DEF SessionInv, Accounted, DocumentNames
    <2> QED
      BY <2>1, <2>2, DropLaunchInv
  <1>4. /\ SessionInv(refuse) /\ refuse.launch.pending = NoApp
    BY DocumentLaunchResultInv, DropLaunchInv
  <1>5. CASE ~stale /\ start = "unreadable"
    <2>1. t = refuse
      BY <1>5 DEF StartPending
    <2> QED
      BY <1>4, <2>1
  <1>6. CASE ~stale /\ start # "unreadable" /\ waits
    BY <1>6 DEF StartPending
  <1>7. CASE ~stale /\ start # "unreadable" /\ ~waits /\ alone
    <2>1. t \in {s, RequestClose(s, Launcher)}
      BY <1>7 DEF StartPending
    <2> QED
      BY <2>1, RecordSets, RequestCloseInv
  <1>8. CASE ~stale /\ start # "unreadable" /\ ~waits /\ ~alone /\ existing # Nobody
    <2>1. t = ClearPending(SendActivation(SetLifecycle(
                  [s EXCEPT !.app = existing, !.task[existing].shown = FALSE],
                  existing, "foreground"), existing))
      BY <1>8 DEF StartPending
    <2>2. existing \in Slots /\ s.task[existing].up /\ s.task[existing].id = id
      BY <1>8, FoundTask
    <2> HIDE DEF t, existing, id
    <2>3. SessionInv(ClearPending(SendActivation(SetLifecycle(
                  [s EXCEPT !.app = existing, !.task[existing].shown = FALSE],
                  existing, "foreground"), existing)))
      BY <1>2, <2>2, ResumedInv DEF id
    <2> QED
      BY <2>1, <2>3
  <1>9. CASE /\ ~stale /\ start # "unreadable" /\ ~waits /\ ~alone /\ existing = Nobody
             /\ slot = Nobody \/ start = "fails"
    <2>1. t = ClearPending(refuse)
      BY <1>9 DEF StartPending
    <2> HIDE DEF refuse
    <2>2. refuse \in SessionType
      BY <1>4 DEF SessionInv, Registry
    <2> QED
      BY <1>4, <2>1, <2>2, ClearedSame
  <1>10. CASE /\ ~stale /\ start # "unreadable" /\ ~waits /\ ~alone /\ existing = Nobody
              /\ ~(slot = Nobody \/ start = "fails")
    <2>1. t = ClearPending(StartProcess(
                  [s EXCEPT !.app = slot, !.launch.retained = FALSE], slot, id))
      BY <1>10 DEF StartPending
    <2>2. /\ slot \in Slots /\ ~s.task[slot].up
          /\ \A x \in Slots : ~(s.task[x].up /\ s.task[x].id = id)
      BY <1>10, FoundTask
    <2> HIDE DEF t, slot, id
    <2>3. SessionInv(ClearPending(StartProcess(
                  [s EXCEPT !.app = slot, !.launch.retained = FALSE], slot, id)))
      BY <1>2, <2>2, ForkedInv DEF id
    <2> QED
      BY <2>1, <2>3
  <1> QED
    BY <1>3, <1>5, <1>6, <1>7, <1>8, <1>9, <1>10

-----------------------------------------------------------------------------
(* manage_processes(): a process that ended is reaped, and every timer.     *)

\* The processes stay, and no document comes back.
Remains(s, t) ==
    /\ s.document.request = 0 => t.document.request = 0
    /\ \A q \in Slots : t.task[q].up = s.task[q].up /\ t.task[q].token = s.task[q].token

\* Without a document a cancelled launch leaves the processes alone.
LEMMA CancelRemains ==
  ASSUME NEW s, SessionInv(s), s.document.request = 0
  PROVE  Remains(s, CancelLaunch(s))
  <1>1. Registry(s) /\ Launching(s) /\ s \in SessionType /\ s.app \in Records
    BY RecordSets DEF SessionInv, Registry, SessionType
  <1>2. DocumentLaunchResult(s, "cancelled") = s
    BY DEF DocumentLaunchResult
  <1> DEFINE owns == s.launch.pending = NoApp /\ App(s).id = s.launch.id
  <1>3. CASE ~LaunchInProgress(s)
    BY <1>3 DEF CancelLaunch, Remains
  <1>4. CASE LaunchInProgress(s) /\ ~owns
    <2>1. CancelLaunch(s) = FinishLaunch(ClearPending(s))
      BY <1>2, <1>4 DEF CancelLaunch
    <2>2. Within(s, FinishLaunch(ClearPending(s)))
      BY <1>1, FinishLaunchFacts
    <2> QED
      BY <2>1, <2>2 DEF Within, Remains
  <1>5. CASE LaunchInProgress(s) /\ owns
    <2>1. ClearPending(s) = s
      BY <1>1, <1>5, ClearedSame
    <2>2. PICK x \in {LeaveApp(s, TRUE), RequestClose(s, s.app)} : CancelLaunch(s) = FinishLaunch(x)
      BY <1>2, <1>5, <2>1 DEF CancelLaunch
    <2>3. Registry(x) /\ Still(s, x)
      <3>1. CASE x = LeaveApp(s, TRUE)
        BY <1>1, <3>1, LeaveAppFacts
      <3>2. CASE x = RequestClose(s, s.app)
        BY <1>1, <3>2, RequestCloseKept, KeptRegistry, KeptLaunch
      <3> QED
        BY <2>2, <3>1, <3>2
    <2>4. Within(x, FinishLaunch(x))
      BY <2>3, FinishLaunchFacts
    <2> QED
      BY <2>2, <2>3, <2>4 DEF Within, Remains, Still, SameDocument
  <1> QED
    BY <1>3, <1>4, <1>5

\* The reap of the process a document came from drops the document, and its
\* launch unless the handler has the document.
LEMMA OriginGoneInv ==
  ASSUME NEW s, SessionInv(s), NEW token
  PROVE  LET t == OriginGone(s, token)
         IN /\ SessionInv(t) /\ Remains(s, t)
            /\ t.document.request # 0 => t.document.origin # token
  <1> DEFINE owns == s.launch.starting /\ s.document.serial = s.generation
             dropped == [s EXCEPT !.document = NoDocument]
             t == OriginGone(s, token)
  <1>1. Registry(s) /\ Launching(s) /\ Parked(s) /\ DocumentNames(s) /\ s \in SessionType
    BY DEF SessionInv, Registry
  <1>2. NoDocument \in DocumentType
    BY DEF NoDocument, DocumentType
  <1>3. /\ Around(s, dropped) /\ dropped.document = NoDocument
        /\ dropped.choosing = s.choosing /\ dropped.documents = s.documents
    BY <1>1, <1>2 DEF Around, SessionType
  <1>4. t \in {s, dropped, FinishLaunch(dropped), CancelLaunch(dropped)}
        /\ (t # s => t \in {dropped, FinishLaunch(dropped), CancelLaunch(dropped)})
    BY DEF OriginGone
  <1>5. t = s \/ t \in {dropped, FinishLaunch(dropped), CancelLaunch(dropped)}
    BY <1>4
  <1>6. s.document.request = 0 \/ s.document.origin # token
        \/ t \in {dropped, FinishLaunch(dropped), CancelLaunch(dropped)}
    BY DEF OriginGone
  <1> HIDE DEF dropped, t
  <1>7. dropped.choosing <= dropped.documents
    BY <1>1, <1>3 DEF DocumentNames
  <1>8. DocumentNames(dropped) /\ Settled(dropped) /\ dropped.document.request = 0
    BY <1>1, <1>3, <1>7, NoDocumentFacts
  <1>9. SessionInv(dropped)
    BY <1>1, <1>3, <1>8, DocumentFrame DEF SessionInv, Accounted
  <1>10. Remains(s, dropped)
    BY <1>3, <1>8 DEF Remains, Around
  <1>11. SessionInv(FinishLaunch(dropped)) /\ SessionInv(CancelLaunch(dropped))
    BY <1>8, <1>9, FinishLaunchInv, CancelLaunchInv
  <1>12. Remains(dropped, FinishLaunch(dropped)) /\ Remains(dropped, CancelLaunch(dropped))
    <2>1. Within(dropped, FinishLaunch(dropped))
      BY <1>9, FinishLaunchFacts DEF SessionInv
    <2> QED
      BY <1>8, <1>9, <2>1, CancelRemains DEF Within, Remains
  <1>13. ASSUME NEW x \in {dropped, FinishLaunch(dropped), CancelLaunch(dropped)}
         PROVE  SessionInv(x) /\ Remains(s, x) /\ x.document.request = 0
    BY <1>8, <1>9, <1>10, <1>11, <1>12 DEF Remains
  <1>14. Remains(s, s)
    BY DEF Remains
  <1>15. SessionInv(t) /\ Remains(s, t)
    BY <1>5, <1>13, <1>14
  <1>16. t.document.request # 0 => t.document.origin # token
    BY <1>5, <1>6, <1>13
  <1> QED
    BY <1>15, <1>16 DEF t

\* The reap of a handler answers its document, unless it restarts.
LEMMA HandlerGoneInv ==
  ASSUME NEW s, SessionInv(s), NEW token
  PROVE  LET t == HandlerGone(s, token)
         IN /\ SessionInv(t) /\ t.task = s.task
            /\ t.document \in {s.document, NoDocument}
            /\ Handles(t, token) => t.document.restarting
  <1>1. Registry(s) /\ DocumentNames(s) /\ s \in SessionType
    BY DEF SessionInv, Registry
  <1>2. CASE Handles(s, token) /\ ~Restarts(s, token)
    <2> DEFINE t == DocumentResult(s, "error")
    <2>1. HandlerGone(s, token) = t
      BY <1>2 DEF HandlerGone
    <2>2. SessionInv(t) /\ Around(s, t)
      BY DocumentResultInv
    <2>3. t.document \in {s.document, NoDocument} /\ t.document.request = 0
      BY <1>1, DocumentResultFacts
    <2> HIDE DEF t
    <2> QED
      BY <2>1, <2>2, <2>3 DEF Around, Handles
  <1>3. CASE ~(Handles(s, token) /\ ~Restarts(s, token))
    <2>1. HandlerGone(s, token) = s
      BY <1>3 DEF HandlerGone
    <2> QED
      BY <1>3, <2>1 DEF Restarts
  <1> QED
    BY <1>2, <1>3

\* The counters of reap_process().
LEMMA CountersInv ==
  ASSUME NEW s, SessionInv(s), NEW p \in Records
  PROVE  /\ SessionInv(ReturnOwed(s, p)) /\ SessionInv(LauncherFailed(s, p))
         /\ ReturnOwed(s, p).task = s.task /\ LauncherFailed(s, p).task = s.task
         /\ ReturnOwed(s, p).document = s.document
         /\ LauncherFailed(s, p).document = s.document
  <1>1. s \in SessionType /\ Registry(s)
    BY DEF SessionInv, Registry
  <1>2. /\ s.task[p].origin \in Nat /\ s.failures + 1 \in Nat
    BY <1>1 DEF SessionType, ProcessType
  <1> DEFINE owed == [s EXCEPT !.returnToken = s.task[p].origin]
             failed == [s EXCEPT !.failures = @ + 1]
  <1>3. Beside(s, owed) /\ owed.task = s.task
    BY <1>1, <1>2 DEF Beside, SessionType
  <1>4. Beside(s, failed) /\ failed.task = s.task
    BY <1>1, <1>2 DEF Beside, SessionType
  <1>5. ReturnOwed(s, p) \in {s, owed} /\ LauncherFailed(s, p) \in {s, failed}
    BY DEF ReturnOwed, LauncherFailed
  <1> HIDE DEF owed, failed
  <1>6. SessionInv(owed) /\ SessionInv(failed)
    BY <1>3, <1>4, SameKept, KeptInv
  <1> QED
    BY <1>3, <1>4, <1>5, <1>6 DEF Beside

\* The reap of the application being launched ends its launch.
LEMMA LaunchReapedInv ==
  ASSUME NEW s, SessionInv(s), NEW p
  PROVE  LET t == LaunchReaped(s, p)
         IN /\ SessionInv(t) /\ t.task = s.task /\ t.document = s.document /\ t.app = s.app
            /\ p = t.app => ~(LaunchInProgress(t) /\ t.launch.pending = NoApp)
  <1>1. Registry(s)
    BY DEF SessionInv
  <1>2. CASE p = s.app /\ s.launch.pending = NoApp
    <2>1. LaunchReaped(s, p) = FinishLaunch(s)
      BY <1>2 DEF LaunchReaped
    <2>2. Within(s, FinishLaunch(s))
      BY <1>1, FinishLaunchFacts
    <2>3. SessionInv(FinishLaunch(s)) /\ ~LaunchInProgress(FinishLaunch(s))
      BY <1>2, FinishLaunchInv
    <2> QED
      BY <2>1, <2>2, <2>3 DEF Within
  <1>3. CASE ~(p = s.app /\ s.launch.pending = NoApp)
    BY <1>3 DEF LaunchReaped
  <1> QED
    BY <1>2, <1>3

\* The reap that a restart waited for frees the document for its new handler.
LEMMA RestartAwaitedInv ==
  ASSUME NEW s, SessionInv(s), NEW token
  PROVE  LET t == RestartAwaited(s, token)
         IN /\ SessionInv(t) /\ Around(s, t)
            /\ t.document.request = s.document.request
            /\ t.document.origin = s.document.origin
            /\ /\ token # 0 /\ (Handles(s, token) => s.document.restarting)
               /\ t.document.request # 0
               => t.document.handler # token
  <1> DEFINE d == [s.document EXCEPT !.waiting = FALSE, !.handler = 0]
             t == [s EXCEPT !.document.waiting = FALSE, !.document.handler = 0]
  <1>1. /\ Registry(s) /\ Launching(s) /\ Parked(s) /\ DocumentNames(s) /\ s \in SessionType
        /\ s.document \in DocumentType
    BY DEF SessionInv, Registry, SessionType
  <1>2. CASE Restarts(s, token)
    <2>1. RestartAwaited(s, token) = t
      BY <1>2 DEF RestartAwaited
    <2>2. t = [s EXCEPT !.document = d]
      BY <1>1 DEF SessionType
    <2>3. /\ d \in DocumentType /\ d.request = s.document.request
          /\ d.serial = s.document.serial /\ d.origin = s.document.origin
          /\ d.id = s.document.id /\ d.restarting = s.document.restarting /\ d.handler = 0
      BY <1>1 DEF DocumentType
    <2> HIDE DEF t, d
    <2>4. /\ Around(s, t) /\ t.document = d
          /\ t.choosing = s.choosing /\ t.documents = s.documents
      BY <1>1, <2>2, <2>3 DEF Around, SessionType
    <2>5. Registry(t) /\ Launching(t) /\ Parked(t)
      BY <1>1, <2>4, DocumentFrame
    <2>6. ~Carried(s) /\ s.document.restarting
      BY <1>1, <1>2 DEF DocumentNames, Restarts
    <2>7. ~Carried(t)
      BY <2>3, <2>4, <2>6 DEF Carried, Around
    <2>8. \A x : Live(s, x) => Live(t, x)
      BY <2>4 DEF Live, Around
    <2>9. DocumentNames(t)
      BY <1>1, <2>3, <2>4, <2>7, <2>8 DEF DocumentNames, Around
    <2>10. Settled(t)
      BY <2>3, <2>4, <2>6 DEF Settled
    <2> QED
      BY <2>1, <2>3, <2>4, <2>5, <2>9, <2>10 DEF SessionInv, Accounted
  <1>3. CASE ~Restarts(s, token)
    <2>1. RestartAwaited(s, token) = s
      BY <1>3 DEF RestartAwaited
    <2> QED
      BY <1>1, <1>3, <2>1 DEF Around, Restarts, Handles
  <1> QED
    BY <1>2, <1>3

\* The record of a process is cleared when nothing names it any more.
LEMMA ForgottenInv ==
  ASSUME NEW s, SessionInv(s), NEW p \in Processes,
         p = s.app => ~(LaunchInProgress(s) /\ s.launch.pending = NoApp),
         p \in Slots /\ s.document.request # 0 =>
             /\ s.document.origin # s.task[p].token
             /\ s.document.handler # s.task[p].token
  PROVE  SessionInv(Forgotten(s, p))
  <1> DEFINE t == Forgotten(s, p)
             app == IF s.app = p THEN Idle ELSE s.app
             a == Put(s, p, NoProcess)
  <1>1. /\ Registry(s) /\ Launching(s) /\ Parked(s) /\ DocumentNames(s) /\ Accounted(s)
        /\ s \in SessionType /\ s.generation \in Nat
        /\ p \in Records /\ p # Idle /\ s.task[Idle] = NoProcess
    BY RecordSets DEF SessionInv, Registry, SessionType
  <1>2. NoProcess \in ProcessType
    BY DEF NoProcess, ProcessType
  <1>3. /\ Beside(s, a) /\ a.task[p] = NoProcess
        /\ \A q \in Records : q # p => a.task[q] = s.task[q]
    BY <1>1, <1>2, PutFacts
  <1>4. t = [a EXCEPT !.activate = s.activate \ {p}, !.app = app]
    BY <1>1 DEF Forgotten, Put, SessionType
  <1>5. app \in Slots \cup {Idle} /\ s.activate \ {p} \in SUBSET Slots
    BY <1>1 DEF SessionType
  <1> HIDE DEF a, t, app
  <1>6. a \in SessionType
    BY <1>3 DEF Beside
  <1>7. /\ t \in SessionType /\ t.task = a.task /\ t.app = app
        /\ t.launch = a.launch /\ t.document = a.document
        /\ t.generation = a.generation /\ t.nextToken = a.nextToken
        /\ t.documents = a.documents /\ t.choosing = a.choosing
    BY <1>4, <1>5, <1>6 DEF SessionType
  <1>8. /\ t.launch = s.launch /\ t.document = s.document
        /\ t.generation = s.generation /\ t.nextToken = s.nextToken
        /\ t.documents = s.documents /\ t.choosing = s.choosing
    BY <1>3, <1>7 DEF Beside
  <1>9. /\ t.task[p] = NoProcess
        /\ \A q \in Records : q # p => t.task[q] = s.task[q]
        /\ \A q \in Slots : q # p => t.task[q] = s.task[q]
        /\ t.task[Idle] = NoProcess
    BY <1>1, <1>3, <1>7, RecordSets
  <1>10. ~NoProcess.up /\ Greeted(NoProcess)
    BY DEF NoProcess, Greeted
  <1>11. Registry(t)
    <2>1. \A x, y \in Slots :
            t.task[x].up /\ t.task[y].up =>
                /\ t.task[x].id = t.task[y].id => x = y
                /\ t.task[x].token = t.task[y].token => x = y
      BY <1>1, <1>9, <1>10 DEF Registry
    <2>2. \A x \in Slots \ {t.app} :
            t.task[x].up =>
                ~t.task[x].shown /\ ~t.task[x].leaving /\ t.task[x].life # "foreground"
      <3> SUFFICES ASSUME NEW x \in Slots, x # t.app, t.task[x].up
                   PROVE  ~t.task[x].shown /\ ~t.task[x].leaving /\ t.task[x].life # "foreground"
        OBVIOUS
      <3>1. x # p /\ t.task[x] = s.task[x]
        BY <1>9, <1>10
      <3>2. x # s.app
        BY <1>7, <3>1 DEF app
      <3> QED
        BY <1>1, <3>1, <3>2 DEF Registry
    <2>3. \A x \in Slots :
            /\ t.task[x].up => /\ t.task[x].id \in Apps
                               /\ t.task[x].token # 0 /\ t.task[x].token <= t.nextToken
            /\ Greeted(t.task[x])
      BY <1>1, <1>8, <1>9, <1>10 DEF Registry
    <2> QED
      BY <1>7, <1>9, <2>1, <2>2, <2>3 DEF Registry
  <1>12. ASSUME s.app = p PROVE Launching(t) /\ Parked(t)
    <2>1. ~App(t).up
      BY <1>7, <1>9, <1>10, <1>12 DEF App, app
    <2>2. ~(LaunchInProgress(t) /\ t.launch.pending = NoApp)
      BY <1>8, <1>12 DEF LaunchInProgress
    <2>3. Launching(t)
      BY <1>1, <1>8, <2>2 DEF Launching
    <2>4. Parked(t)
      BY <2>1 DEF Parked, AppInForeground, IsRunning
    <2> QED
      BY <2>3, <2>4
  <1>13. ASSUME s.app # p PROVE Launching(t) /\ Parked(t)
    <2>1. s.app \in Records
      BY <1>1, RecordSets DEF SessionType
    <2>2. App(t) = App(s)
      BY <1>7, <1>9, <1>13, <2>1 DEF App, app
    <2>3. Launching(t)
      BY <1>1, <1>8, <2>2 DEF Launching, LaunchInProgress
    <2>4. Parked(t)
      BY <1>1, <1>8, <2>2 DEF Parked, AppInForeground
    <2> QED
      BY <2>3, <2>4
  <1>14. Launching(t) /\ Parked(t)
    BY <1>12, <1>13
  <1>15. (Carried(t) /\ t.launch.pending = NoApp) => App(t) = App(s)
    <2>1. CASE s.app = p
      BY <1>8, <2>1 DEF Carried, LaunchInProgress
    <2>2. CASE s.app # p
      <3>1. s.app \in Records
        BY <1>1, RecordSets DEF SessionType
      <3> QED
        BY <1>7, <1>9, <2>2, <3>1 DEF App, app
    <2> QED
      BY <2>1, <2>2
  <1>16. \A token : Live(s, token) /\ (p \in Slots => token # s.task[p].token)
                    => Live(t, token)
    BY <1>9 DEF Live
  <1>17. Carried(t) <=> Carried(s)
    BY <1>8 DEF Carried
  <1>18. /\ t.document.request # 0 => Live(t, t.document.origin)
         /\ t.document.handler # 0 => Live(t, t.document.handler)
    BY <1>1, <1>8, <1>16 DEF DocumentNames
  <1>19. Carried(t) =>
           /\ t.document.id = t.launch.id /\ t.launch.act = "open" /\ ~t.document.restarting
           /\ t.launch.pending = NoApp =>
                 t.document.handler # 0 /\ t.document.handler = App(t).token
           /\ t.launch.pending # NoApp =>
                 \A x \in Slots :
                     t.task[x].up /\ t.task[x].token = t.document.handler => t.task[x].closing
    BY <1>1, <1>8, <1>9, <1>10, <1>15, <1>17 DEF DocumentNames
  <1>20. DocumentNames(t)
    BY <1>1, <1>8, <1>18, <1>19 DEF DocumentNames
  <1>21. Accounted(t)
    BY <1>1, <1>8, <1>17 DEF Accounted, Settled
  <1> QED
    BY <1>11, <1>14, <1>20, <1>21 DEF SessionInv, t

\* reap_process(): what names the process is settled first.
LEMMA ReapProcessInv ==
  ASSUME NEW s, SessionInv(s), NEW p \in Processes
  PROVE  SessionInv(ReapProcess(s, p))
  <1> DEFINE token == s.task[p].token
             a == OriginGone(s, token)
             b == HandlerGone(a, token)
             c == ReturnOwed(b, p)
             d == LauncherFailed(c, p)
             e == LaunchReaped(d, p)
             f == RestartAwaited(e, token)
  <1>1. CASE ~s.task[p].up \/ s.task[p].alive
    BY <1>1 DEF ReapProcess
  <1>2. CASE s.task[p].up /\ ~s.task[p].alive
    <2>1. ReapProcess(s, p) = Forgotten(f, p)
      BY <1>2 DEF ReapProcess
    <2>2. p \in Records /\ Registry(s)
      BY RecordSets DEF SessionInv
    <2>3. p \in Slots => token # 0
      BY <1>2, <2>2 DEF Registry
    <2> HIDE DEF token
    <2>4. /\ SessionInv(a) /\ Remains(s, a)
          /\ a.document.request # 0 => a.document.origin # token
      BY OriginGoneInv
    <2> HIDE DEF a
    <2>5. /\ SessionInv(b) /\ b.task = a.task /\ b.document \in {a.document, NoDocument}
          /\ Handles(b, token) => b.document.restarting
      BY <2>4, HandlerGoneInv
    <2> HIDE DEF b
    <2>6. SessionInv(c) /\ c.task = b.task /\ c.document = b.document
      BY <2>2, <2>5, CountersInv
    <2> HIDE DEF c
    <2>7. SessionInv(d) /\ d.task = c.task /\ d.document = c.document
      BY <2>2, <2>6, CountersInv
    <2> HIDE DEF d
    <2>8. /\ SessionInv(e) /\ e.task = d.task /\ e.document = d.document
          /\ p = e.app => ~(LaunchInProgress(e) /\ e.launch.pending = NoApp)
      BY <2>7, LaunchReapedInv
    <2> HIDE DEF e
    <2>9. Handles(e, token) => e.document.restarting
      BY <2>5, <2>6, <2>7, <2>8 DEF Handles
    <2>10. /\ SessionInv(f) /\ Around(e, f)
           /\ f.document.request = e.document.request
           /\ f.document.origin = e.document.origin
           /\ token # 0 /\ f.document.request # 0 => f.document.handler # token
      BY <2>8, <2>9, RestartAwaitedInv
    <2> HIDE DEF f
    <2>11. e.document.request # 0 => e.document.origin # token
      BY <2>4, <2>5, <2>6, <2>7, <2>8 DEF NoDocument
    <2>12. p \in Slots => f.task[p].token = token
      BY <2>4, <2>5, <2>6, <2>7, <2>8, <2>10 DEF Around, Remains, token
    <2>13. p = f.app => ~(LaunchInProgress(f) /\ f.launch.pending = NoApp)
      BY <2>8, <2>10 DEF Around, LaunchInProgress
    <2>14. p \in Slots /\ f.document.request # 0 =>
             f.document.origin # f.task[p].token /\ f.document.handler # f.task[p].token
      BY <2>3, <2>10, <2>11, <2>12
    <2> QED
      BY <2>1, <2>10, <2>13, <2>14, ForgottenInv
  <1> QED
    BY <1>1, <1>2

\* The timers of one process.
LEMMA SupervisedInv ==
  ASSUME NEW s, SessionInv(s), NEW p \in Processes, NEW late
  PROVE  SessionInv(Supervised(s, p, late))
  <1>1. ASSUME NEW x, SessionInv(x), NEW y,
               y \in {[x EXCEPT !.task[p].bad = TRUE], [x EXCEPT !.task[p].alive = FALSE]}
        PROVE  SessionInv(y)
    <2>1. x \in SessionType /\ p \in Records /\ x.task[p] \in ProcessType
      BY <1>1, RecordSets DEF SessionInv, Registry, SessionType
    <2> DEFINE q == [x.task[p] EXCEPT !.bad = TRUE]
               r == [x.task[p] EXCEPT !.alive = FALSE]
    <2>2. q \in ProcessType /\ r \in ProcessType
      BY <2>1 DEF ProcessType
    <2>3. KeptTask(x, p, q) /\ KeptTask(x, p, r)
      BY <2>1 DEF KeptTask, ProcessType, Greeted
    <2>4. y \in {Put(x, p, q), Put(x, p, r)}
      BY <1>1, <2>1 DEF Put, SessionType
    <2> HIDE DEF q, r
    <2> QED
      BY <1>1, <2>2, <2>3, <2>4, PutInv
  <1>2. p \in Records
    BY RecordSets
  <1> DEFINE a == StartLate(s, p, late)
             b == KillLate(a, p, late)
             c == PrepareLate(b, p, late)
  <1>3. SessionInv(a)
    <2>1. a \in {s, RequestClose([s EXCEPT !.task[p].bad = TRUE], p)}
      BY DEF StartLate
    <2>2. SessionInv([s EXCEPT !.task[p].bad = TRUE])
      BY <1>1
    <2> QED
      BY <1>2, <2>1, <2>2, RequestCloseInv
  <1> HIDE DEF a
  <1>4. SessionInv(b)
    <2>1. b \in {a, [a EXCEPT !.task[p].alive = FALSE]}
      BY DEF KillLate
    <2> QED
      BY <1>1, <1>3, <2>1
  <1> HIDE DEF b
  <1>5. SessionInv(c)
    <2>1. c \in {b, FinishUserClose(b, p)}
      BY DEF PrepareLate
    <2> QED
      BY <1>4, <2>1, FinishUserCloseInv
  <1>6. Supervised(s, p, late) \in {s, c}
    BY DEF Supervised, c, b, a
  <1> QED
    BY <1>5, <1>6

\* One process of manage_processes(): reaped or supervised.
LEMMA ManageOneInv ==
  ASSUME NEW s, SessionInv(s), NEW p \in Processes, NEW late
  PROVE  SessionInv(ManageOne(s, p, late))
  BY ReapProcessInv, SupervisedInv DEF ManageOne

-----------------------------------------------------------------------------
(* The loops over all processes.                                            *)

\* The body of the two loops: manage_processes()' and close_for_restart()'s.
Body(loop, x, p, arg) ==
    IF loop = "manage" THEN ManageOne(x, p, arg)
    ELSE IF p = arg THEN x ELSE RequestClose(x, p)

Loop(loop, s, arg, f, n) ==
    f = [p \in 0 .. n |-> IF p = 0 THEN s ELSE Body(loop, f[p - 1], p, arg)]

\* A loop has a result for every number of rounds.
LEMMA LoopExists ==
  ASSUME NEW loop, NEW s, NEW arg, NEW n \in Nat
  PROVE  \E f : Loop(loop, s, arg, f, n)
  <1> DEFINE T == {k \in Nat : ~ \E f : Loop(loop, s, arg, f, k)}
  <1> SUFFICES ASSUME T # {} PROVE FALSE
    OBVIOUS
  <1>1. PICK k \in T : \A m \in T : k <= m
    <2>1. T \in SUBSET Nat
      OBVIOUS
    <2> HIDE DEF T
    <2> QED
      BY <2>1, LeastNatural
  <1>2. k # 0
    <2> SUFFICES ASSUME k = 0 PROVE FALSE
      OBVIOUS
    <2>1. Loop(loop, s, arg, [p \in 0 .. 0 |-> s], 0)
      BY DEF Loop
    <2> QED
      BY <2>1
  <1>3. k \in Nat /\ k - 1 \in Nat /\ k - 1 \notin T
    BY <1>1, <1>2
  <1>4. PICK f : Loop(loop, s, arg, f, k - 1)
    BY <1>3
  <1> DEFINE g == [p \in 0 .. k |-> IF p = k THEN Body(loop, f[k - 1], k, arg) ELSE f[p]]
  <1>5. Loop(loop, s, arg, g, k)
    <2>1. ASSUME NEW p \in 0 .. k
          PROVE  g[p] = IF p = 0 THEN s ELSE Body(loop, g[p - 1], p, arg)
      <3>1. CASE p = k
        BY <1>2, <1>3, <3>1
      <3>2. CASE p # k
        <4>1. p \in 0 .. k - 1 /\ (p # 0 => p - 1 \in 0 .. k /\ p - 1 # k)
          BY <1>3, <3>2
        <4>2. f[p] = IF p = 0 THEN s ELSE Body(loop, f[p - 1], p, arg)
          BY <1>4, <4>1 DEF Loop
        <4> QED
          BY <4>1, <4>2, <3>2
      <3> QED
        BY <3>1, <3>2
    <2> HIDE DEF g
    <2>2. g = [p \in 0 .. k |-> g[p]]
      BY DEF g
    <2> QED
      BY <2>1, <2>2 DEF Loop
  <1> QED
    BY <1>1, <1>5

\* The two loops over the processes have bodies that keep the invariant.
LEMMA BodyInv ==
  ASSUME NEW loop, NEW x, SessionInv(x), NEW p \in Processes, NEW arg
  PROVE  SessionInv(Body(loop, x, p, arg))
  BY ManageOneInv, RequestCloseInv, RecordSets DEF Body

\* Every round keeps the invariant, so the loop does.
LEMMA LoopInv ==
  ASSUME NEW loop, NEW s, SessionInv(s), NEW arg, NEW f,
         Loop(loop, s, arg, f, TaskMax + 1)
  PROVE  SessionInv(f[TaskMax + 1])
  <1> DEFINE T == {k \in 0 .. TaskMax + 1 : ~SessionInv(f[k])}
  <1>1. TaskMax + 1 \in Nat /\ TaskMax + 1 \in 0 .. TaskMax + 1
    BY SessionAssumption DEF SessionAssumption
  <1> SUFFICES ASSUME T # {} PROVE FALSE
    BY <1>1
  <1>2. PICK k \in T : \A m \in T : k <= m
    <2>1. T \in SUBSET Nat
      BY <1>1
    <2> HIDE DEF T
    <2> QED
      BY <2>1, LeastNatural
  <1>3. k \in 0 .. TaskMax + 1 /\ ~SessionInv(f[k])
    BY <1>2
  <1>4. f[k] = IF k = 0 THEN s ELSE Body(loop, f[k - 1], k, arg)
    BY <1>3 DEF Loop
  <1>5. k # 0
    BY <1>3, <1>4
  <1>6. k - 1 \in 0 .. TaskMax + 1 /\ k - 1 \notin T /\ k \in Processes
    BY <1>1, <1>2, <1>3, <1>5 DEF Processes
  <1>7. SessionInv(f[k - 1])
    BY <1>6
  <1> HIDE DEF T
  <1> QED
    BY <1>3, <1>4, <1>5, <1>6, <1>7, BodyInv

\* The loop of manage_processes() over all processes.
LEMMA ManageAllInv ==
  ASSUME NEW s, SessionInv(s), NEW late
  PROVE  SessionInv(ManageAll(s, late))
  <1> DEFINE Managed(f) ==
        f = [p \in 0 .. TaskMax + 1 |-> IF p = 0 THEN s ELSE ManageOne(f[p - 1], p, late)]
  <1>1. TaskMax + 1 \in Nat
    BY SessionAssumption DEF SessionAssumption
  <1>2. \A f : Loop("manage", s, late, f, TaskMax + 1) <=> Managed(f)
    BY DEF Loop, Body
  <1>3. \E f : Managed(f)
    BY <1>1, <1>2, LoopExists
  <1>4. ManageAll(s, late) = (CHOOSE f : Managed(f))[TaskMax + 1]
    BY Zenon DEF ManageAll
  <1> HIDE DEF Managed
  <1>5. PICK f : Managed(f) /\ ManageAll(s, late) = f[TaskMax + 1]
    BY <1>3, <1>4, Zenon
  <1> QED
    BY <1>2, <1>5, LoopInv

-----------------------------------------------------------------------------
(* The rest of manage_processes().                                          *)

\* The launch timer cancels the launch after its document was answered.
LEMMA LaunchTimeoutInv ==
  ASSUME NEW s, SessionInv(s), NEW late
  PROVE  SessionInv(LaunchTimeout(s, late))
  <1>1. SessionInv(DocumentLaunchResult(s, "error"))
    BY DocumentLaunchResultInv
  <1>2. LaunchTimeout(s, late) \in {s, CancelLaunch(DocumentLaunchResult(s, "error"))}
    BY DEF LaunchTimeout
  <1> QED
    BY <1>1, <1>2, CancelLaunchInv

\* A search returns NULL or a member.
LEMMA LeastMember ==
  ASSUME NEW T \in SUBSET Slots, Least(T) # Nobody
  PROVE  Least(T) \in T
  <1>1. T # {}
    BY DEF Least
  <1>2. \E p \in T : \A q \in T : p <= q
    <2>1. T \in SUBSET Nat
      BY SessionAssumption DEF SessionAssumption, Slots
    <2> QED
      BY <1>1, <2>1, LeastNatural
  <1>3. Least(T) = CHOOSE p \in T : \A q \in T : p <= q
    BY <1>1 DEF Least
  <1> QED
    BY <1>2, <1>3

\* The origin of a document returns to the screen after its handler ended.
LEMMA ReturnToOriginInv ==
  ASSUME NEW s, SessionInv(s)
  PROVE  SessionInv(ReturnToOrigin(s))
  <1> DEFINE T == {p \in Slots : /\ s.returnToken # 0 /\ s.task[p].up
                                 /\ s.task[p].token = s.returnToken}
             origin == TaskForToken(s, s.returnToken)
             taken == [s EXCEPT !.returnToken = 0]
  <1>1. Registry(s) /\ s \in SessionType
    BY DEF SessionInv, Registry
  <1>2. Beside(s, taken) /\ taken.task = s.task
    BY <1>1 DEF Beside, SessionType
  <1> HIDE DEF taken
  <1>3. SessionInv(taken)
    BY <1>2, SameKept, KeptInv
  <1>4. origin # Nobody => origin \in Slots /\ s.task[origin].up
    <2>1. origin = Least(T)
      BY DEF TaskForToken
    <2>2. T \in SUBSET Slots
      OBVIOUS
    <2>3. origin # Nobody => origin \in T
      <3> HIDE DEF T
      <3> QED
        BY <2>1, <2>2, LeastMember
    <2> QED
      BY <2>3
  <1>5. CASE ReturnToOrigin(s) \in {s, taken}
    BY <1>3, <1>5
  <1>6. CASE /\ origin # Nobody
             /\ ReturnToOrigin(s) = LaunchApp(taken, s.task[origin].id, "resume")
    <2>1. s.task[origin].id \in Apps
      BY <1>1, <1>4, <1>6 DEF Registry
    <2> QED
      BY <1>3, <1>6, <2>1, LaunchAppInv
  <1> QED
    BY <1>5, <1>6 DEF ReturnToOrigin, taken

\* The document whose handler was restarted goes to the new one.
LEMMA RestartDocumentInv ==
  ASSUME NEW s, SessionInv(s)
  PROVE  SessionInv(RestartDocument(s))
  <1> DEFINE d == [s.document EXCEPT !.restarting = FALSE]
             a == [s EXCEPT !.document.restarting = FALSE]
             again == /\ s.document.restarting /\ s.document.handler = 0
                      /\ ~LaunchInProgress(s)
  <1>1. /\ Registry(s) /\ Launching(s) /\ Parked(s) /\ DocumentNames(s)
        /\ s \in SessionType /\ s.document \in DocumentType
    BY DEF SessionInv, Registry, SessionType
  <1>2. CASE ~again
    BY <1>2 DEF RestartDocument
  <1>3. CASE again
    <2>1. RestartDocument(s) = OpenDocumentWith(a, s.document.id)
      BY <1>3 DEF RestartDocument
    <2>2. a = [s EXCEPT !.document = d]
      BY <1>1 DEF SessionType
    <2>3. /\ d \in DocumentType /\ d.request = s.document.request
          /\ d.serial = s.document.serial /\ d.origin = s.document.origin
          /\ d.id = s.document.id /\ ~d.restarting /\ d.handler = s.document.handler
      BY <1>1 DEF DocumentType
    <2> HIDE DEF a, d
    <2>4. /\ Around(s, a) /\ a.document = d
          /\ a.choosing = s.choosing /\ a.documents = s.documents
      BY <1>1, <2>2, <2>3 DEF Around, SessionType
    <2>5. Registry(a) /\ Launching(a) /\ Parked(a)
      BY <1>1, <2>4, DocumentFrame
    <2>6. ~Carried(a)
      BY <1>3, <2>4 DEF Carried, Around, LaunchInProgress
    <2>7. \A x : Live(s, x) => Live(a, x)
      BY <2>4 DEF Live, Around
    <2>8. DocumentNames(a)
      BY <1>1, <2>3, <2>4, <2>6, <2>7 DEF DocumentNames, Around
    <2>9. s.document.request # 0 /\ s.document.serial # 0
      BY <1>1, <1>3 DEF DocumentNames
    <2>10. /\ a.document.request # 0 /\ a.document.handler = 0 /\ ~a.document.restarting
           /\ a.choosing # a.document.request
      BY <1>1, <1>3, <2>3, <2>4, <2>9 DEF DocumentNames
    <2> QED
      BY <2>1, <2>5, <2>8, <2>10, OpenDocumentWithInv
  <1> QED
    BY <1>2, <1>3

\* A task that waits for a decision is brought to the screen.
LEMMA ShowDecisionInv ==
  ASSUME NEW s, SessionInv(s)
  PROVE  SessionInv(ShowDecision(s))
  <1> DEFINE T == {q \in s.activate : s.task[q].waiting /\ IsRunning(s.task[q])}
             p == Least(T)
             a == [s EXCEPT !.activate = @ \ {p}]
  <1>1. Registry(s) /\ s \in SessionType /\ T \in SUBSET Slots
    BY DEF SessionInv, Registry, SessionType
  <1>2. CASE ShowDecision(s) = s
    BY <1>2
  <1>3. CASE p # Nobody /\ ShowDecision(s) = LaunchApp(a, s.task[p].id, "resume")
    <2>1. p \in T
      <3> HIDE DEF T
      <3> QED
        BY <1>1, <1>3, LeastMember
    <2>2. p \in Slots /\ s.task[p].up
      BY <1>1, <2>1 DEF IsRunning
    <2> HIDE DEF p, T
    <2>3. s.task[p].id \in Apps
      BY <1>1, <2>2 DEF Registry
    <2>4. Beside(s, a) /\ a.task = s.task
      BY <1>1 DEF Beside, SessionType
    <2> HIDE DEF a
    <2>5. SessionInv(a)
      BY <2>4, SameKept, KeptInv
    <2> QED
      BY <1>3, <2>3, <2>5, LaunchAppInv
  <1> QED
    BY <1>2, <1>3 DEF ShowDecision

\* The launcher is no task: it has no token, and no document is for it.
LEMMA StartLauncherInv ==
  ASSUME NEW s, SessionInv(s), NEW start
  PROVE  SessionInv(StartLauncher(s, start))
  <1> DEFINE r == [NoProcess EXCEPT !.up = TRUE, !.alive = TRUE, !.id = NoApp, !.token = 0]
             failed == [s EXCEPT !.failures = @ + 1]
  <1>1. s \in SessionType /\ Registry(s) /\ s.document \in DocumentType
        /\ s.failures \in Nat /\ s.failures + 1 \in Nat
    BY DEF SessionInv, Registry, SessionType
  <1>2. r \in ProcessType
    BY DEF NoProcess, ProcessType
  <1>3. [s.document EXCEPT !.handler = s.document.handler] = s.document
    BY <1>1 DEF DocumentType
  <1>4. StartProcess(s, Launcher, NoApp) =
          [s EXCEPT !.task[Launcher] = r, !.nextToken = s.nextToken,
                    !.document = [s.document EXCEPT !.handler = s.document.handler]]
    BY <1>1 DEF StartProcess, SessionType
  <1>5. StartProcess(s, Launcher, NoApp) = Put(s, Launcher, r)
    BY <1>1, <1>3, <1>4 DEF Put, SessionType
  <1> HIDE DEF r
  <1>6. SessionInv(StartProcess(s, Launcher, NoApp))
    BY <1>2, <1>5, RecordSets, PutInv
  <1>7. Beside(s, failed) /\ failed.task = s.task
    BY <1>1 DEF Beside, SessionType
  <1>8. StartLauncher(s, start) \in {s, failed, StartProcess(s, Launcher, NoApp)}
    BY DEF StartLauncher
  <1> HIDE DEF failed
  <1>9. SessionInv(failed)
    BY <1>7, SameKept, KeptInv
  <1> QED
    BY <1>6, <1>8, <1>9

\* The launcher works again, or is closed under an application that runs alone.
LEMMA LauncherWorksInv ==
  ASSUME NEW s, SessionInv(s)
  PROVE  SessionInv(LauncherWorks(s)) /\ SessionInv(CloseLauncherAlone(s))
  <1> DEFINE t == [s EXCEPT !.failures = 0]
  <1>1. s \in SessionType
    BY DEF SessionInv, Registry
  <1>2. Beside(s, t) /\ t.task = s.task
    BY <1>1 DEF Beside, SessionType
  <1>3. LauncherWorks(s) \in {s, t} /\ CloseLauncherAlone(s) \in {s, RequestClose(s, Launcher)}
    BY DEF LauncherWorks, CloseLauncherAlone
  <1> HIDE DEF t
  <1> QED
    BY <1>2, <1>3, SameKept, KeptInv, RecordSets, RequestCloseInv

\* hand_off()
LEMMA HandOffInv ==
  ASSUME NEW s, SessionInv(s), NEW late
  PROVE  SessionInv(HandOff(s, late))
  <1> DEFINE r == [s.task[s.app] EXCEPT !.shown = TRUE]
             t == [s EXCEPT !.task[s.app].shown = TRUE]
  <1>1. /\ Registry(s) /\ Launching(s) /\ DocumentNames(s) /\ Accounted(s)
        /\ s \in SessionType /\ s.app \in Records
    BY RecordSets DEF SessionInv, Registry, SessionType
  <1>2. CASE HandOff(s, late) = s
    BY <1>2
  <1>3. CASE App(s).up /\ App(s).ready /\ HandOff(s, late) = t
    <2>1. s.app \in Slots /\ s.app \in Processes
      BY <1>1, <1>3, RecordSets DEF App, Registry, NoProcess, SessionType
    <2>2. s.task[s.app] \in ProcessType /\ Greeted(s.task[s.app]) /\ s.task[s.app].ready
      BY <1>1, <1>3, <2>1 DEF SessionType, Registry, App
    <2>3. r \in ProcessType
      BY <2>2 DEF ProcessType
    <2>4. KeptTask(s, s.app, r)
      BY <2>2 DEF KeptTask, ProcessType, Greeted
    <2>5. t = Put(s, s.app, r)
      BY <1>1 DEF Put, SessionType
    <2> HIDE DEF r, t
    <2> QED
      BY <1>3, <2>1, <2>3, <2>4, <2>5, PutInv
  <1>4. CASE App(s).leaving /\ HandOff(s, late) = ParkApp(s)
    <2>1. ~(LaunchInProgress(s) /\ s.launch.pending = NoApp)
      BY <1>1, <1>4 DEF Launching
    <2> DEFINE u == ParkApp(s)
    <2>2. Registry(u) /\ Launching(u) /\ Parked(u) /\ Still(s, u)
      BY <1>1, <2>1, ParkAppFacts
    <2> HIDE DEF u
    <2>3. u \in SessionType
      BY <2>2 DEF Registry
    <2>4. SessionInv(u)
      BY <1>1, <2>2, <2>3, StillDocuments DEF SessionInv
    <2> QED
      BY <1>4, <2>4 DEF u
  <1>5. CASE HandOff(s, late) = RequestClose(s, s.app)
    BY <1>1, <1>5, RequestCloseInv
  <1> QED
    BY <1>2, <1>3, <1>4, <1>5 DEF HandOff, IsRunning

\* manage_processes()
LEMMA ManageProcessesInv ==
  ASSUME NEW s, SessionInv(s), NEW late, NEW start
  PROVE  SessionInv(ManageProcesses(s, late, start))
  <1> DEFINE a == LaunchTimeout(ManageAll(s, late), late)
             b == ShowDecision(RestartDocument(ReturnToOrigin(a)))
             c == StartLauncher(StartPending(b, start), start)
             d == LauncherWorks(CloseLauncherAlone(c))
  <1>1. SessionInv(a)
    BY ManageAllInv, LaunchTimeoutInv
  <1> HIDE DEF a
  <1>2. SessionInv(b)
    BY <1>1, ReturnToOriginInv, RestartDocumentInv, ShowDecisionInv
  <1> HIDE DEF b
  <1>3. SessionInv(c)
    BY <1>2, StartPendingInv, StartLauncherInv
  <1> HIDE DEF c
  <1>4. SessionInv(d)
    BY <1>3, LauncherWorksInv
  <1> HIDE DEF d
  <1>5. ManageProcesses(s, late, start) = HandOff(d, late)
    BY DEF ManageProcesses, d, c, b, a
  <1> QED
    BY <1>4, <1>5, HandOffInv

-----------------------------------------------------------------------------
(* The actions.                                                             *)

\* What a message or a fault says of one process, and the count of faults.
LEMMA NotedInv ==
  ASSUME NEW s, SessionInv(s), NEW p \in Processes, NEW r \in ProcessType,
         KeptTask(s, p, r), NEW crashes \in Nat
  PROVE  SessionInv([s EXCEPT !.task[p] = r, !.crashes = crashes])
  <1> DEFINE a == Put(s, p, r)
             t == [s EXCEPT !.task[p] = r, !.crashes = crashes]
  <1>1. SessionInv(a) /\ s \in SessionType
    BY PutInv DEF SessionInv, Registry
  <1>2. t = [a EXCEPT !.crashes = crashes]
    BY <1>1 DEF Put, SessionType
  <1> HIDE DEF a, t
  <1>3. a \in SessionType
    BY <1>1 DEF SessionInv, Registry
  <1>4. Beside(a, t) /\ t.task = a.task
    BY <1>2, <1>3 DEF Beside, SessionType
  <1>5. SessionInv(t)
    BY <1>1, <1>4, SameKept, KeptInv
  <1> QED
    BY <1>5 DEF t

\* HELLO: the process may be the one a launch or a document waits for.
LEMMA HelloInv ==
  ASSUME SessionInv(session), NEW p \in Processes, Hello(p)
  PROVE  SessionInv(session')
  <1> DEFINE s == session
             r == [s.task[p] EXCEPT !.fd = "open"]
             a == [s EXCEPT !.task[p].fd = "open"]
  <1>1. /\ Registry(s) /\ Parked(s) /\ s \in SessionType /\ p \in Records
        /\ s.task[p] \in ProcessType
    BY RecordSets DEF SessionInv, Registry, SessionType
  <1>2. s.task[p].up /\ s.task[p].fd = "never" /\ session' = SendActivation(a, p)
    BY DEF Hello
  <1> HIDE DEF s
  <1>3. r \in ProcessType
    BY <1>1 DEF ProcessType
  <1>4. KeptTask(s, p, r)
    BY <1>1 DEF KeptTask, ProcessType, Greeted
  <1>5. a = Put(s, p, r)
    BY <1>1 DEF Put, SessionType
  <1>6. r.up = s.task[p].up /\ r.closing = s.task[p].closing
    BY <1>1 DEF ProcessType
  <1> HIDE DEF a, r
  <1>7. SessionInv(a) /\ a.task[p] = r /\ a.app = s.app /\ a.launch = s.launch
    BY <1>1, <1>3, <1>4, <1>5, PutInv, PutFacts DEF s, Beside
  <1>8. p = s.app => s.launch.pending = NoApp \/ s.task[p].closing
    <2> SUFFICES ASSUME p = s.app, s.launch.pending # NoApp PROVE s.task[p].closing
      OBVIOUS
    <2>1. p \in Slots
      BY <1>1, RecordSets DEF SessionType
    <2>2. ~s.task[p].leaving
      BY <1>1, <1>2, <2>1 DEF Registry, Greeted
    <2> QED
      BY <1>1, <1>2, <2>2 DEF Parked, AppInForeground, IsRunning, App
  <1>9. a.task[p].up /\ (p = a.app => a.launch.pending = NoApp \/ a.task[p].closing)
    BY <1>2, <1>6, <1>7, <1>8
  <1> QED
    BY <1>2, <1>7, <1>9, SendActivationInv

\* READY: the launch may be finished.
LEMMA ReadyInv ==
  ASSUME SessionInv(session), NEW p \in Processes, Ready(p)
  PROVE  SessionInv(session')
  <1> DEFINE s == session
             r == [s.task[p] EXCEPT !.ready = TRUE]
             a == [s EXCEPT !.task[p].ready = TRUE]
  <1>1. s \in SessionType /\ p \in Records /\ s.task[p] \in ProcessType
    BY RecordSets DEF SessionInv, Registry, SessionType
  <1>2. s.task[p].fd = "open" /\ session' \in {FinishActivation(a), a}
    BY DEF Ready, Connected
  <1> HIDE DEF s
  <1>3. r \in ProcessType
    BY <1>1 DEF ProcessType
  <1>4. KeptTask(s, p, r)
    BY <1>1, <1>2 DEF KeptTask, ProcessType, Greeted
  <1>5. a = Put(s, p, r)
    BY <1>1 DEF Put, SessionType
  <1> HIDE DEF a, r
  <1>6. SessionInv(a)
    BY <1>3, <1>4, <1>5, PutInv DEF s
  <1> QED
    BY <1>2, <1>6, FinishActivationInv

\* An application asks to close, or the launcher ends itself.
LEMMA ExitInv ==
  ASSUME SessionInv(session), NEW p \in Processes, Exit(p)
  PROVE  SessionInv(session')
  <1> DEFINE s == session
             r == [s.task[p] EXCEPT !.bad = TRUE]
             a == [s EXCEPT !.task[p].bad = TRUE, !.crashes = @ + 1]
  <1>1. /\ s \in SessionType /\ p \in Records /\ s.task[p] \in ProcessType
        /\ s.crashes + 1 \in Nat
    BY RecordSets DEF SessionInv, Registry, SessionType
  <1>2. \/ session' = RequestClose(a, p)
        \/ p # Launcher /\ session' = PrepareUserClose(s, p)
    BY DEF Exit
  <1> HIDE DEF s
  <1>3. r \in ProcessType
    BY <1>1 DEF ProcessType
  <1>4. KeptTask(s, p, r)
    BY <1>1 DEF KeptTask, ProcessType, Greeted
  <1>5. a = [s EXCEPT !.task[p] = r, !.crashes = s.crashes + 1]
    BY <1>1 DEF SessionType
  <1> HIDE DEF r, a
  <1>6. SessionInv([s EXCEPT !.task[p] = r, !.crashes = s.crashes + 1])
    BY <1>1, <1>3, <1>4, NotedInv DEF s
  <1>7. SessionInv(a)
    BY <1>5, <1>6
  <1>8. p # Launcher => p \in Slots
    BY RecordSets
  <1> QED
    BY <1>1, <1>2, <1>7, <1>8, RequestCloseInv, PrepareUserCloseInv DEF s

\* The socket of a process ends.
LEMMA HangupInv ==
  ASSUME SessionInv(session), NEW p \in Processes, Hangup(p)
  PROVE  SessionInv(session')
  <1> DEFINE s == session
             gone == s.task[p].closing \/ ~s.task[p].alive
             crashes == IF gone THEN s.crashes ELSE s.crashes + 1
             bad == s.task[p].bad \/ ~s.task[p].closing
             r == [s.task[p] EXCEPT !.fd = "lost", !.bad = bad]
             a == [s EXCEPT !.task[p].fd = "lost",
                            !.crashes = IF s.task[p].closing \/ ~s.task[p].alive
                                        THEN @ ELSE @ + 1,
                            !.task[p].bad = @ \/ ~s.task[p].closing]
  <1>1. /\ s \in SessionType /\ p \in Records /\ s.task[p] \in ProcessType
        /\ crashes \in Nat
    BY RecordSets DEF SessionInv, Registry, SessionType
  <1>2. session' = RequestClose(a, p)
    BY DEF Hangup
  <1> HIDE DEF s
  <1>3. a.task = [s.task EXCEPT ![p] = r]
    BY <1>1 DEF SessionType, ProcessType
  <1>4. a = [s EXCEPT !.task = a.task, !.crashes = crashes]
    BY <1>1, <1>3 DEF SessionType
  <1>5. a = [s EXCEPT !.task[p] = r, !.crashes = crashes]
    BY <1>1, <1>3, <1>4 DEF SessionType
  <1>6. bad \in BOOLEAN
    OBVIOUS
  <1> HIDE DEF bad, crashes, a
  <1>7. r \in ProcessType
    BY <1>1, <1>6 DEF ProcessType
  <1>8. KeptTask(s, p, r)
    BY <1>1 DEF KeptTask, ProcessType, Greeted
  <1> HIDE DEF r
  <1>9. SessionInv([s EXCEPT !.task[p] = r, !.crashes = crashes])
    BY <1>1, <1>7, <1>8, NotedInv DEF s
  <1>10. SessionInv(a)
    BY <1>5, <1>9
  <1> QED
    BY <1>1, <1>2, <1>10, RequestCloseInv

\* A process dies; it is reaped later.
LEMMA DieInv ==
  ASSUME SessionInv(session), NEW p \in Processes, Die(p)
  PROVE  SessionInv(session')
  <1> DEFINE s == session
             crashes == IF s.task[p].closing THEN s.crashes ELSE s.crashes + 1
             r == [s.task[p] EXCEPT !.alive = FALSE]
  <1>1. /\ s \in SessionType /\ p \in Records /\ s.task[p] \in ProcessType
        /\ crashes \in Nat
    BY RecordSets DEF SessionInv, Registry, SessionType
  <1>2. session' = [s EXCEPT !.task[p].alive = FALSE,
                             !.crashes = IF s.task[p].closing THEN @ ELSE @ + 1]
    BY DEF Die
  <1> HIDE DEF s
  <1>3. session' = [s EXCEPT !.task[p] = r, !.crashes = crashes]
    BY <1>1, <1>2 DEF SessionType
  <1> HIDE DEF crashes
  <1>4. r \in ProcessType
    BY <1>1 DEF ProcessType
  <1>5. KeptTask(s, p, r)
    BY <1>1 DEF KeptTask, ProcessType, Greeted
  <1> HIDE DEF r
  <1>6. SessionInv([s EXCEPT !.task[p] = r, !.crashes = crashes])
    BY <1>1, <1>4, <1>5, NotedInv DEF s
  <1> QED
    BY <1>3, <1>6

\* What runs manage_processes() at its end.
LEMMA AdvancesInv ==
  ASSUME NEW s, SessionInv(s), Advances(s)
  PROVE  SessionInv(session')
  BY ManageProcessesInv DEF Advances

\* fplinux_session_surface_committed()
LEMMA SurfaceCommittedInv ==
  ASSUME SessionInv(session), NEW p \in Slots, SurfaceCommitted(p)
  PROVE  SessionInv(session')
  <1> DEFINE s == session
             process == s.task[p]
             busyDone == /\ p = s.app /\ process.ready /\ s.launch.busy = "finishing"
             first == p = s.app /\ ~process.drawn
             calm == [s EXCEPT !.launch.busy = "no"]
             idle == IF ~busyDone THEN s
                     ELSE IF s.launch.starting THEN calm ELSE FinishLaunch(s)
             drawn == IF first
                      THEN FinishActivation([idle EXCEPT !.task[p].drawn = TRUE])
                      ELSE idle
  <1>1. /\ s \in SessionType /\ s.launch \in LaunchType /\ p \in Processes /\ p \in Records
        /\ Launching(s)
    BY RecordSets DEF SessionInv, Registry, SessionType
  <1>2. Advances(drawn)
    BY DEF SurfaceCommitted
  <1>3. SessionInv(s)
    OBVIOUS
  <1> HIDE DEF s
  <1>4. SessionInv(idle)
    <2>1. CASE busyDone /\ s.launch.starting
      <3>1. calm.launch = [s.launch EXCEPT !.busy = "no"] /\ calm.launch \in LaunchType
        BY <1>1 DEF SessionType, LaunchType
      <3>2. Within(s, calm)
        BY <1>1, <3>1 DEF SessionType, Within
      <3>3. /\ calm.launch.pending = s.launch.pending /\ calm.launch.id = s.launch.id
            /\ calm.launch.starting = s.launch.starting /\ calm.launch.act = s.launch.act
            /\ calm.launch.busy = "no" /\ calm.launch.acked = s.launch.acked
        BY <1>1, <3>1 DEF LaunchType
      <3> HIDE DEF calm
      <3>4. LaunchInProgress(calm) => LaunchInProgress(s)
        BY <3>3 DEF LaunchInProgress
      <3>5. calm.launch.acked \/ calm.launch.busy # "no" => calm.launch.pending = NoApp
        BY <1>1, <3>3 DEF Launching
      <3> QED
        BY <1>3, <2>1, <3>2, <3>3, <3>4, <3>5, LaunchInv
    <2>2. CASE busyDone /\ ~s.launch.starting
      <3>1. s.launch.pending = NoApp
        BY <1>1, <2>2 DEF Launching
      <3> QED
        BY <1>3, <2>2, <3>1, FinishLaunchInv
    <2>3. CASE ~busyDone
      BY <1>3, <2>3
    <2> QED
      BY <2>1, <2>2, <2>3
  <1> HIDE DEF idle
  <1>5. SessionInv(drawn)
    <2> DEFINE r == [idle.task[p] EXCEPT !.drawn = TRUE]
    <2>1. idle \in SessionType /\ idle.task[p] \in ProcessType
      BY <1>1, <1>4 DEF SessionInv, Registry, SessionType
    <2>2. r \in ProcessType
      BY <2>1 DEF ProcessType
    <2>3. KeptTask(idle, p, r)
      BY <2>1 DEF KeptTask, ProcessType, Greeted
    <2>4. [idle EXCEPT !.task[p].drawn = TRUE] = Put(idle, p, r)
      BY <2>1 DEF Put, SessionType
    <2> HIDE DEF r
    <2>5. SessionInv(Put(idle, p, r))
      BY <1>1, <1>4, <2>2, <2>3, PutInv
    <2> QED
      BY <1>4, <2>4, <2>5, FinishActivationInv
  <1> HIDE DEF drawn
  <1> QED
    BY <1>2, <1>5, AdvancesInv

\* OPEN_FILE: a document of the application in the foreground.
LEMMA OpenFileInv ==
  ASSUME SessionInv(session), NEW p \in Slots, NEW candidates, OpenFile(p, candidates)
  PROVE  SessionInv(session')
  <1> DEFINE s == session
             request == s.documents + 1
             d == [NoDocument EXCEPT !.request = request, !.origin = s.task[p].token]
             asked == [s EXCEPT !.documents = @ + 1,
                                !.document = [NoDocument EXCEPT
                                                !.request = s.documents + 1,
                                                !.origin = s.task[p].token]]
             choice == [asked EXCEPT !.choosing = asked.document.request]
  <1>1. /\ Registry(s) /\ Launching(s) /\ Parked(s) /\ DocumentNames(s) /\ s \in SessionType
        /\ p \in Records /\ s.task[p] \in ProcessType
        /\ s.documents \in Nat /\ request \in Nat /\ s.choosing \in Nat
        /\ s.generation \in Nat
    BY RecordSets DEF SessionInv, Registry, SessionType
  <1>2. /\ s.task[p].up /\ ~LaunchInProgress(s)
        /\ \/ session' = DocumentResult(asked, "error")
           \/ \E id : session' = OpenDocumentWith(asked, id)
           \/ session' = choice
    BY DEF OpenFile, Connected
  <1> HIDE DEF s
  <1>3. s.task[p].token \in Nat /\ s.task[p].token # 0
    BY <1>1, <1>2 DEF ProcessType, Registry
  <1>4. /\ d \in DocumentType /\ d.request = request /\ d.serial = 0 /\ d.handler = 0
        /\ d.id = NoApp /\ ~d.restarting /\ d.origin = s.task[p].token
    BY <1>1, <1>3 DEF NoDocument, DocumentType
  <1>5. asked = [s EXCEPT !.documents = request, !.document = d]
    BY <1>1 DEF SessionType
  <1>6. request # 0 /\ request > s.documents /\ request > s.choosing
    BY <1>1 DEF DocumentNames
  <1> HIDE DEF asked, d, request
  <1>7. /\ Around(s, asked) /\ asked.document = d /\ asked.documents = request
        /\ asked.choosing = s.choosing
    BY <1>1, <1>4, <1>5 DEF Around, SessionType
  <1>8. Registry(asked) /\ Launching(asked) /\ Parked(asked) /\ asked \in SessionType
    BY <1>1, <1>7, DocumentFrame DEF Around
  <1>9. ~Carried(asked) /\ Settled(asked)
    BY <1>2, <1>4, <1>7 DEF Carried, Settled, Around, LaunchInProgress
  <1>10. Live(asked, asked.document.origin)
    BY <1>2, <1>3, <1>4, <1>7 DEF Live, Around
  <1>11. /\ asked.document.request <= asked.documents /\ asked.choosing <= asked.documents
         /\ asked.choosing # asked.document.request /\ asked.document.request # 0
         /\ asked.document.serial <= asked.generation
    BY <1>1, <1>4, <1>6, <1>7 DEF Around
  <1>12. DocumentNames(asked)
    BY <1>4, <1>7, <1>9, <1>10, <1>11 DEF DocumentNames
  <1>13. SessionInv(asked)
    BY <1>8, <1>9, <1>12 DEF SessionInv, Accounted
  <1>14. CASE session' = DocumentResult(asked, "error")
    BY <1>13, <1>14, DocumentResultInv
  <1>15. CASE \E id : session' = OpenDocumentWith(asked, id)
    <2>1. PICK id : session' = OpenDocumentWith(asked, id)
      BY <1>15
    <2>2. asked.document.handler = 0 /\ ~asked.document.restarting
      BY <1>4, <1>7
    <2> QED
      BY <1>8, <1>11, <1>12, <2>1, <2>2, OpenDocumentWithInv
  <1>16. CASE session' = choice
    <2>1. /\ Around(asked, choice) /\ choice.document = asked.document
          /\ choice.documents = asked.documents /\ choice.choosing = asked.document.request
      BY <1>1, <1>4, <1>7, <1>8 DEF Around, SessionType
    <2> HIDE DEF choice
    <2>2. Registry(choice) /\ Launching(choice) /\ Parked(choice)
      BY <1>8, <2>1, DocumentFrame
    <2>3. ~Carried(choice) /\ Settled(choice)
      BY <1>9, <2>1 DEF Carried, Settled, Around
    <2>4. \A token : Live(asked, token) => Live(choice, token)
      BY <2>1 DEF Live, Around
    <2>5. asked.document.serial = 0
      BY <1>4, <1>7
    <2>6. DocumentNames(choice)
      BY <1>11, <1>12, <2>1, <2>3, <2>4, <2>5 DEF DocumentNames, Around
    <2> QED
      BY <1>16, <2>2, <2>3, <2>6 DEF SessionInv, Accounted
  <1> QED
    BY <1>2, <1>14, <1>15, <1>16

\* The user's choice among the handlers.
LEMMA DocumentChoiceInv ==
  ASSUME SessionInv(session), NEW p \in Slots, NEW id, DocumentChoice(p, id)
  PROVE  SessionInv(session')
  <1> DEFINE s == session
             chosen == [s EXCEPT !.choosing = 0]
  <1>1. /\ Registry(s) /\ Launching(s) /\ Parked(s) /\ DocumentNames(s) /\ Accounted(s)
        /\ s \in SessionType /\ s.generation \in Nat /\ s.documents \in Nat
    BY DEF SessionInv, Registry, SessionType
  <1>2. /\ s.document.request # 0 /\ s.choosing = s.document.request
        /\ session' \in {DocumentResult(chosen, "cancelled"), OpenDocumentWith(chosen, id)}
    BY DEF DocumentChoice
  <1> HIDE DEF s
  <1>3. /\ Around(s, chosen) /\ chosen.document = s.document
        /\ chosen.documents = s.documents /\ chosen.choosing = 0
    BY <1>1 DEF Around, SessionType
  <1> HIDE DEF chosen
  <1>4. Registry(chosen) /\ Launching(chosen) /\ Parked(chosen) /\ chosen \in SessionType
    BY <1>1, <1>3, DocumentFrame DEF Around
  <1>5. Still(s, chosen)
    BY <1>1, <1>3 DEF Still, SameDocument, Around, App
  <1>6. DocumentNames(chosen) /\ SessionInv(chosen)
    BY <1>1, <1>4, <1>5, StillDocuments DEF SessionInv
  <1>7. s.document.serial = 0
    BY <1>1, <1>2 DEF DocumentNames
  <1>8. /\ chosen.document.request # 0 /\ chosen.document.handler = 0
        /\ ~chosen.document.restarting /\ chosen.choosing # chosen.document.request
    BY <1>1, <1>2, <1>3, <1>7 DEF DocumentNames
  <1> QED
    BY <1>2, <1>4, <1>6, <1>8, DocumentResultInv, OpenDocumentWithInv

\* close_for_restart(): the loop that closes every task.
LEMMA CloseForRestartInv ==
  ASSUME SessionInv(session), NEW p \in Slots, CloseForRestart(p)
  PROVE  SessionInv(session')
  <1> DEFINE Closed(f) ==
        f = [q \in 0 .. TaskMax + 1 |->
                IF q = 0 THEN session
                ELSE IF q = p THEN f[q - 1] ELSE RequestClose(f[q - 1], q)]
  <1>1. TaskMax + 1 \in Nat
    BY SessionAssumption DEF SessionAssumption
  <1>2. \A f : Loop("close", session, p, f, TaskMax + 1) <=> Closed(f)
    BY DEF Loop, Body
  <1>3. \E f : Closed(f)
    BY <1>1, <1>2, LoopExists
  <1>4. session' = (CHOOSE f : Closed(f))[TaskMax + 1]
    BY Zenon DEF CloseForRestart
  <1> HIDE DEF Closed
  <1>5. PICK f : Closed(f) /\ session' = f[TaskMax + 1]
    BY <1>3, <1>4, Zenon
  <1> QED
    BY <1>2, <1>5, LoopInv

-----------------------------------------------------------------------------
(* The invariant holds, and with it what the runs check.                    *)

StateInv == SessionInv(session) /\ bound \in Bounds /\ cover \subseteq bound.covers

\* Nothing runs at first.
LEMMA StateInit == Init => StateInv
  <1> SUFFICES ASSUME Init PROVE StateInv
    OBVIOUS
  <1>1. bound \in Bounds /\ cover \subseteq bound.covers
    BY SessionAssumption DEF Init, SessionAssumption
  <1>2. NoProcess \in ProcessType /\ NoLaunch \in LaunchType /\ NoDocument \in DocumentType
    BY DEF NoProcess, ProcessType, NoLaunch, LaunchType, NoDocument, DocumentType
  <1>3. /\ session.task = [p \in Records |-> NoProcess] /\ session.app = Idle
        /\ session.launch = NoLaunch /\ session.document = NoDocument
        /\ session.generation = 0 /\ session.nextToken = 0
        /\ session.documents = 0 /\ session.choosing = 0
    BY DEF Init
  <1>4. session \in SessionType
    BY <1>2 DEF Init, SessionType
  <1>5. \A p \in Records : session.task[p] = NoProcess
    BY <1>3
  <1>6. ~NoProcess.up /\ Greeted(NoProcess)
    BY DEF NoProcess, Greeted
  <1>7. \A p \in Slots : session.task[p] = NoProcess
    BY <1>5, RecordSets
  <1>8. Registry(session)
    BY <1>4, <1>5, <1>6, <1>7, RecordSets DEF Registry
  <1>9. Launching(session) /\ Parked(session)
    BY <1>3 DEF Launching, LaunchInProgress, Parked, NoLaunch
  <1>10. DocumentNames(session) /\ Accounted(session)
    BY <1>3 DEF DocumentNames, Accounted, Settled, Carried, NoDocument
  <1> QED
    BY <1>1, <1>8, <1>9, <1>10 DEF StateInv, SessionInv

\* Every message, key, commit, exit and timer keeps the invariant.
LEMMA StateNext == StateInv /\ [Next]_vars => StateInv'
  <1> SUFFICES ASSUME StateInv, [Next]_vars PROVE StateInv'
    OBVIOUS
  <1>1. /\ SessionInv(session) /\ bound \in Bounds /\ cover \subseteq bound.covers
        /\ Registry(session) /\ session \in SessionType
    BY DEF StateInv, SessionInv, Registry
  <1>2. ASSUME UNCHANGED <<cover, bound>>, SessionInv(session') PROVE StateInv'
    BY <1>1, <1>2 DEF StateInv
  <1>3. ASSUME NEW p \in Processes,
               \/ Hello(p) \/ Ready(p) \/ Exit(p) \/ Hangup(p) \/ HomeMessage(p) \/ Die(p)
        PROVE  StateInv'
    <2>1. UNCHANGED <<cover, bound>>
      BY <1>3 DEF Hello, Ready, Exit, Hangup, HomeMessage, Die
    <2>2. CASE HomeMessage(p)
      BY <1>1, <1>2, <2>1, <2>2, ReturnHomeInv DEF HomeMessage
    <2> QED
      BY <1>1, <1>2, <1>3, <2>1, <2>2, HelloInv, ReadyInv, ExitInv, HangupInv, DieInv
  <1>4. ASSUME NEW p \in Slots, Activate(p) \/ CloseTask(p) PROVE StateInv'
    <2>1. /\ UNCHANGED <<cover, bound>> /\ session.task[p].up
          /\ session' \in {LaunchApp(session, session.task[p].id, "resume"),
                           PrepareUserClose(session, p)}
      BY <1>4 DEF Activate, CloseTask, TaskAvailable, IsRunning
    <2>2. session.task[p].id \in Apps
      BY <1>1, <2>1 DEF Registry
    <2> QED
      BY <1>1, <1>2, <2>1, <2>2, LaunchAppInv, PrepareUserCloseInv
  <1>5. ASSUME NEW p \in Slots, CloseForRestart(p) \/ SurfaceCommitted(p) PROVE StateInv'
    <2>1. UNCHANGED <<cover, bound>>
      BY <1>5 DEF CloseForRestart, SurfaceCommitted
    <2> QED
      BY <1>1, <1>2, <1>5, <2>1, CloseForRestartInv, SurfaceCommittedInv
  <1>6. ASSUME NEW p \in Slots, NEW enabled \in BOOLEAN, Busy(p, enabled) PROVE StateInv'
    BY <1>1, <1>2, <1>6, SetBusyInv DEF Busy
  <1>7. ASSUME NEW p \in Slots, NEW serial, NEW value \in {"ready", "cancel", "wait"},
               CloseReplyMessage(p, serial, value)
        PROVE  StateInv'
    BY <1>1, <1>2, <1>7, CloseReplyInv DEF CloseReplyMessage
  <1>8. ASSUME NEW p \in Slots, NEW serial, ActivationAck(p, serial) PROVE StateInv'
    <2>1. /\ UNCHANGED <<cover, bound>> /\ session.launch.pending = NoApp
          /\ session' = FinishActivation([session EXCEPT !.launch.acked = TRUE])
      BY <1>8 DEF ActivationAck
    <2>2. SessionInv([session EXCEPT !.launch.acked = TRUE])
      BY <1>1, <2>1, AckedInv
    <2>3. SessionInv(session')
      BY <2>1, <2>2, FinishActivationInv
    <2> QED
      BY <1>2, <2>1, <2>3
  <1>9. ASSUME NEW p \in Slots, NEW candidates, OpenFile(p, candidates) PROVE StateInv'
    <2>1. UNCHANGED <<cover, bound>>
      BY <1>9 DEF OpenFile
    <2>2. SessionInv(session')
      BY <1>1, <1>9, OpenFileInv
    <2> QED
      BY <1>2, <2>1, <2>2
  <1>10. ASSUME NEW p \in Slots, NEW id, DocumentChoice(p, id) PROVE StateInv'
    BY <1>1, <1>2, <1>10, DocumentChoiceInv DEF DocumentChoice
  <1>11. ASSUME NEW p \in Slots, NEW status \in Statuses, HandlerResult(p, status)
         PROVE  StateInv'
    <2>1. /\ UNCHANGED <<cover, bound>> /\ session.task[p].up /\ ~session.task[p].closing
          /\ session.document.request # 0
          /\ session.document.handler = session.task[p].token
          /\ session' = HandlerDocumentResult(session, p, status)
      BY <1>11 DEF HandlerResult, Connected
    <2> QED
      BY <1>1, <1>2, <2>1, HandlerDocumentResultInv
  <1>12. ASSUME NEW id \in bound.apps, LaunchMessage(id) PROVE StateInv'
    <2>1. id \in Apps
      BY <1>1 DEF Bounds
    <2> QED
      BY <1>1, <1>2, <1>12, <2>1, LaunchAppInv DEF LaunchMessage
  <1>13. ASSUME HomeKey PROVE StateInv'
    <2>1. UNCHANGED <<cover, bound>>
      BY <1>13 DEF HomeKey
    <2>2. PICK s \in {CancelLaunch(session), ReturnHome(session)} : Advances(s)
      BY <1>13 DEF HomeKey
    <2>3. SessionInv(s)
      BY <1>1, CancelLaunchInv, ReturnHomeInv
    <2> QED
      BY <1>2, <2>1, <2>2, <2>3, AdvancesInv
  <1>14. ASSUME CancelMessage PROVE StateInv'
    BY <1>1, <1>2, <1>14, CancelLaunchInv DEF CancelMessage
  <1>15. ASSUME NEW c \in SUBSET bound.covers, ChangeCover(c) PROVE StateInv'
    BY <1>1, <1>15 DEF ChangeCover, StateInv
  <1>16. ASSUME Advance PROVE StateInv'
    BY <1>1, <1>2, <1>16, AdvancesInv DEF Advance
  <1>17. ASSUME UNCHANGED vars PROVE StateInv'
    BY <1>1, <1>17 DEF vars, StateInv
  <1> QED
    BY <1>3, <1>4, <1>5, <1>6, <1>7, <1>8, <1>9, <1>10, <1>11, <1>12, <1>13, <1>14, <1>15,
       <1>16, <1>17 DEF Next

\* The inductive invariant holds of every reachable session: a launch has its
\* application, a document its processes and its carrier (session-core.c).
THEOREM SessionInvAlways == Spec => []StateInv
  <1>1. Init => StateInv
    BY StateInit
  <1>2. StateInv /\ [Next]_vars => StateInv'
    BY StateNext
  <1> QED
    BY <1>1, <1>2, PTL DEF Spec

\* An application runs at most once and only the selected one has the screen,
\* for every number of applications and of tasks.
THEOREM RegistryIsOK == Spec => []RegistryOK
  <1>1. StateInv => RegistryOK
    <2> SUFFICES ASSUME StateInv PROVE RegistryOK
      OBVIOUS
    <2>1. Registry(session) /\ session \in SessionType /\ cover \subseteq bound.covers
      BY DEF StateInv, SessionInv, Registry
    <2>2. TypeOK
      BY <2>1 DEF TypeOK, Registry, SessionType, LaunchType, DocumentType
    <2>3. OneInstance /\ OnlyApp
      BY <2>1 DEF Registry, OneInstance, OnlyApp
    <2> QED
      BY <2>2, <2>3 DEF RegistryOK
  <1> QED
    BY <1>1, SessionInvAlways, PTL

\* The launch card always belongs to an application that waits to be started or
\* to the selected process, so something can take it away.
THEOREM LaunchIsOwned == Spec => []LaunchHasOwner
  <1>1. StateInv => LaunchHasOwner
    BY DEF StateInv, SessionInv, Launching, LaunchHasOwner
  <1> QED
    BY <1>1, SessionInvAlways, PTL

\* A document never names a reaped process, and one that was given to a handler
\* always has somebody who will end it.
THEOREM DocumentIsOK == Spec => []DocumentOK
  <1>1. StateInv => DocumentOK
    <2> SUFFICES ASSUME StateInv PROVE DocumentOK
      OBVIOUS
    <2>1. DocumentNames(session) /\ Accounted(session)
      BY DEF StateInv, SessionInv
    <2>2. ASSUME NEW token, Live(session, token) PROVE TaskForToken(session, token) # Nobody
      <3> DEFINE T == {p \in Slots : /\ token # 0 /\ session.task[p].up
                                     /\ session.task[p].token = token}
      <3>1. T # {} /\ T \in SUBSET Slots
        BY <2>2 DEF Live
      <3>2. TaskForToken(session, token) = Least(T)
        BY DEF TaskForToken
      <3> HIDE DEF T
      <3>3. \E p \in T : \A q \in T : p <= q
        <4>1. T \in SUBSET Nat
          BY <3>1, SessionAssumption DEF SessionAssumption, Slots
        <4> QED
          BY <3>1, <4>1, LeastNatural
      <3>4. Least(T) \in T
        BY <3>1, <3>3 DEF Least
      <3> QED
        BY <3>1, <3>2, <3>4, RecordSets
    <2>3. DocumentNamesLive
      BY <2>1, <2>2 DEF DocumentNames, DocumentNamesLive
    <2>4. DocumentAccounted
      BY <2>1 DEF Accounted, Carried, Settled, DocumentAccounted
    <2> QED
      BY <2>3, <2>4 DEF DocumentOK
  <1> QED
    BY <1>1, SessionInvAlways, PTL
=============================================================================
