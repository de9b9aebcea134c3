----------------------------- MODULE ClockModel -----------------------------
(***************************************************************************)
(* Alarms, snoozes and the countdown (fplinux-clocks/clock-model.c), and    *)
(* the checkpoint that the session keeps of them                            *)
(* (fplinux-session/session-clock.c over fplinux-ui-prefs.c).               *)
(*                                                                         *)
(* The wall clock may be set; monotonic time only grows.  A unit of either  *)
(* is a minute.  A day has DayLength units and a week WeekLength days.      *)
(* C functions are operators from the model to the model.  An event's ID    *)
(* is only compared with the active event's, so requests name that event.   *)
(* Every dispatch of the session's loop ends in advance(), which ticks (or    *)
(* starts the clock, as long as it has not) and arms the wall clock's timer. *)
(* Left out: the stopwatch, world clocks, labels and the exhaustion of      *)
(* 32-bit generations and identifiers; `view' stands for all persistent     *)
(* preferences, and setting it to what it is for SAVE.                      *)
(***************************************************************************)
EXTENDS Integers, Sequences, SequencesExt, FiniteSetsExt

CONSTANTS
    DayLength, WeekLength,
    WallMax,         \* CLOCK_WALL_MAX
    MonoMax,         \* bound: monotonic time
    Steps,           \* bound: how far monotonic time may advance at once
    WallSettings,    \* bound: what the wall clock may be set to
    Schedules,       \* bound: the schedules that users choose
    Durations,       \* bound: countdown durations
    SnoozeTimes,     \* bound: snooze durations
    AlarmLimit, QueueLimit, MissedLimit,
    Grace,           \* CLOCK_ALARM_GRACE_SECONDS
    RingTimeout,     \* CLOCK_RING_TIMEOUT_MS
    RetryInitial, RetryMax,
    Scenarios        \* bounds: see Bounds

\* What may happen in a behaviour: requests that change the configuration and
\* other requests, settings of the wall clock, storage failures, and ends of the
\* process or of power.
Bounds == [edits : Nat, others : Nat, jumps : Nat, failures : Nat, restarts : Nat]

\* ONCE: an absolute time; WEEKLY: a time of the day and a set of weekdays.
Once(t) == [kind |-> "once", at |-> t, days |-> {}]
Weekly(t, days) == [kind |-> "weekly", at |-> t, days |-> days]

ValidSpec(spec) ==
    \/ spec.kind = "once" /\ spec.at \in 1 .. WallMax /\ spec.days = {}
    \/ /\ spec.kind = "weekly" /\ spec.at \in 0 .. DayLength - 1
       /\ spec.days \subseteq 0 .. WeekLength - 1 /\ spec.days # {}

ASSUME ClockAssumption ==
    /\ {DayLength, WeekLength, WallMax, AlarmLimit, QueueLimit, MissedLimit} \subseteq Nat \ {0}
    /\ {MonoMax, Grace, RingTimeout, RetryInitial, RetryMax} \subseteq Nat
    /\ Steps \subseteq Nat /\ Durations \subseteq Nat /\ SnoozeTimes \subseteq Nat \ {0}
    /\ WallSettings \subseteq 1 .. WallMax
    /\ RingTimeout > 0 /\ RetryInitial > 0 /\ RetryMax >= RetryInitial
    /\ \A schedule \in Schedules : ValidSpec(schedule)
    /\ Scenarios \subseteq Bounds

VARIABLES
    model,           \* struct clock_model
    store,           \* storage state and retry of struct fplinux_session_clock,
                     \* struct fplinux_ui_prefs and the file; ready: clock_ready
    wakeup,          \* the timer of the wall clock: what the session takes it to
                     \* be set to (alarm_due_utc, Cancelled) and what it is set to
    rung,            \* history: occurrences that came, as <<alarm, due>>
    replayed,        \* history: one of them came again
    used, bound      \* the scenario

vars == <<model, store, wakeup, rung, replayed, used, bound>>

-----------------------------------------------------------------------------
(* Schedules.                                                              *)

\* The occurrences of the eight days from `after' on.
Candidates(spec, after) ==
    {day * DayLength + spec.at :
        day \in {d \in (after \div DayLength) .. (after \div DayLength) + WeekLength :
                    d % WeekLength \in spec.days}}

Future(spec, after) ==
    {t \in IF spec.kind = "once" THEN {spec.at} ELSE Candidates(spec, after) :
        t > after /\ t <= WallMax}

\* The next occurrence, 0 when there is none.
NextDue(spec, after) ==
    IF Future(spec, after) = {} THEN 0 ELSE Min(Future(spec, after))

-----------------------------------------------------------------------------
(* Events.                                                                 *)

Timer == 0           \* the source of the countdown's events; alarms start at 1

\* promote_event(), after the active event has gone.
Promote(m) ==
    IF m.queue = <<>> THEN [m EXCEPT !.active = <<>>, !.started = 0]
    ELSE [m EXCEPT !.active = <<Head(m.queue)>>, !.queue = Tail(@), !.started = m.mono]

RecordMissed(m, event) ==
    [m EXCEPT !.missed = Append(IF Len(@) = MissedLimit THEN Tail(@) ELSE @, event),
              !.total = @ + 1]

SubmitEvent(m, event, late) ==
    IF late THEN RecordMissed(m, event)
    ELSE IF m.active = <<>> THEN [m EXCEPT !.active = <<event>>, !.started = m.mono]
    ELSE IF Len(m.queue) < QueueLimit THEN [m EXCEPT !.queue = Append(@, event)]
    ELSE RecordMissed(m, event)

Pending(m) == ToSet(m.active) \cup ToSet(m.queue)

RingingAlarm(m, source) == \E e \in ToSet(m.active) : e.source = source

\* Only the active event goes, the queued ones stay.
CancelRinging(m, source) == IF RingingAlarm(m, source) THEN Promote(m) ELSE m

CancelEvents(m, source) ==
    LET kept == [m EXCEPT !.queue = SelectSeq(@, LAMBDA e : e.source # source)]
    IN IF RingingAlarm(m, source) THEN Promote(kept) ELSE kept

-----------------------------------------------------------------------------
(* clock_model_tick().                                                     *)

DueAlarms(m) ==
    {i \in DOMAIN m.alarms : m.alarms[i].enabled /\ m.alarms[i].next <= m.wall}

DueSnoozes(m) ==
    {i \in DOMAIN m.alarms : m.alarms[i].snooze # 0 /\ m.alarms[i].snooze <= m.mono}

\* Sorted by due time, then by ID.
Sorted(ids, Key(_)) ==
    SetToSortSeq(ids, LAMBDA i, j : Key(i) < Key(j) \/ (Key(i) = Key(j) /\ i < j))

AlarmEvent(m, i, due, snoozed) ==
    [source |-> i, generation |-> m.alarms[i].generation, due |-> due, snoozed |-> snoozed]

TickAlarm(m, i) ==
    LET alarm == m.alarms[i]
        next == IF alarm.spec.kind = "once" THEN 0 ELSE NextDue(alarm.spec, m.wall)
        consumed == [alarm EXCEPT !.last = alarm.next, !.next = next, !.enabled = next # 0]
    IN SubmitEvent([m EXCEPT !.alarms[i] = consumed],
                   AlarmEvent(m, i, alarm.next, FALSE), m.wall - alarm.next > Grace)

TickSnooze(m, i) ==
    SubmitEvent([m EXCEPT !.alarms[i].snooze = 0], AlarmEvent(m, i, m.wall, TRUE),
                m.mono - m.alarms[i].snooze > RingTimeout)

TickAlarms(m) ==
    FoldLeft(TickAlarm, m, Sorted(DueAlarms(m), LAMBDA i : m.alarms[i].next))

TickSnoozes(m) ==
    FoldLeft(TickSnooze, m, Sorted(DueSnoozes(m), LAMBDA i : m.alarms[i].snooze))

TimerRemaining(m) ==
    IF m.timer.state # "running" THEN m.timer.remaining
    ELSE Max({0, m.timer.deadline - m.mono})

TimerDone(m) == m.timer.state = "running" /\ TimerRemaining(m) = 0

TickTimer(m) ==
    LET event == [source |-> Timer, generation |-> m.timer.generation, due |-> m.wall,
                  snoozed |-> FALSE]
        told == IF m.timer.state = "running"
                THEN [m EXCEPT !.timer.remaining = TimerRemaining(m)] ELSE m
    IN IF TimerDone(m)
       THEN SubmitEvent([told EXCEPT !.timer.state = "finished"], event, FALSE) ELSE told

Expires(m) == m.active # <<>> /\ m.mono - m.started >= RingTimeout

Expire(m) == IF Expires(m) THEN Promote(RecordMissed(m, m.active[1])) ELSE m

At(m, wall, mono) == [m EXCEPT !.wall = wall, !.mono = mono]

TickModel(m, wall, mono) ==
    TickTimer(TickSnoozes(TickAlarms(Expire(At(m, wall, mono)))))

-----------------------------------------------------------------------------
(* The requests.  {} means that the request is refused.                    *)

Later(a, b) == IF a > b THEN a ELSE b

Configured(m, spec, enabled, generation, last) ==
    [spec |-> spec, enabled |-> enabled, generation |-> generation, last |-> last,
     next |-> IF enabled THEN NextDue(spec, Later(m.wall, last)) ELSE 0, snooze |-> 0]

AlarmAdd(m, spec, enabled) ==
    LET alarm == Configured(m, spec, enabled, 1, 0)
    IN IF (enabled /\ alarm.next = 0) \/ Cardinality(DOMAIN m.alarms) = AlarmLimit THEN {}
       ELSE {[m EXCEPT !.alarms = (m.nextId :> alarm) @@ @, !.nextId = @ + 1]}

AlarmEdit(m, i, spec, enabled, cancel) ==
    LET old == m.alarms[i]
        alarm == Configured(m, spec, enabled, old.generation + 1, old.last)
    IN IF (RingingAlarm(m, i) /\ ~cancel) \/ (enabled /\ alarm.next = 0) THEN {}
       ELSE {CancelEvents([m EXCEPT !.alarms[i] = alarm], i)}

AlarmEnable(m, i, enabled, cancel) ==
    LET alarm == m.alarms[i]
        idle == alarm.snooze = 0 /\ \A e \in Pending(m) : e.source # i
    IN IF ~enabled /\ RingingAlarm(m, i) /\ ~cancel THEN {}
       ELSE IF alarm.enabled = enabled /\ (enabled \/ idle) THEN {m}
       ELSE AlarmEdit(m, i, alarm.spec, enabled, cancel)

AlarmDelete(m, i, cancel) ==
    IF RingingAlarm(m, i) /\ ~cancel THEN {}
    ELSE {[CancelEvents(m, i) EXCEPT !.alarms = [j \in DOMAIN @ \ {i} |-> @[j]]]}

CancelSnooze(m, i) == {[m EXCEPT !.alarms[i].snooze = 0]}

Dismiss(m) == IF m.active = <<>> THEN {} ELSE {Promote(m)}

Snooze(m, minutes) ==
    LET event == m.active[1]
        stale == \/ event.source = Timer \/ event.source \notin DOMAIN m.alarms
                 \/ m.alarms[event.source].generation # event.generation
    IN IF m.active = <<>> \/ stale THEN {}
       ELSE {Promote([m EXCEPT !.alarms[event.source].snooze = m.mono + minutes])}

ClearMissed(m) == {[m EXCEPT !.missed = <<>>, !.total = 0]}

TimerSet(m, duration) ==
    {CancelEvents([m EXCEPT !.timer = [state |-> "stopped", generation |-> @.generation + 1,
                                       duration |-> duration, remaining |-> duration,
                                       deadline |-> 0]], Timer)}

Running(m) ==
    [m EXCEPT !.timer.state = "running", !.timer.deadline = m.mono + m.timer.remaining]

TimerStart(m) ==
    IF m.timer.duration = 0 \/ m.timer.state # "stopped" THEN {} ELSE {Running(m)}

TimerPause(m) ==
    IF m.timer.state # "running" THEN {}
    ELSE {[m EXCEPT !.timer.state = "paused", !.timer.remaining = TimerRemaining(m),
                    !.timer.deadline = 0]}

TimerResume(m) == IF m.timer.state # "paused" THEN {} ELSE {Running(m)}

TimerStop(m) == TimerSet(m, m.timer.duration)

TimerRestart(m) ==
    IF m.timer.duration = 0 THEN {} ELSE UNION {TimerStart(n) : n \in TimerStop(m)}

SetView(m, view) == {[m EXCEPT !.view = view]}

-----------------------------------------------------------------------------
(* The checkpoint.                                                         *)

Empty == [alarms |-> <<>>, nextId |-> 1, duration |-> 0, view |-> FALSE]

\* clock_wire_preferences_encode()
Encoded(m) ==
    [alarms |-> [i \in DOMAIN m.alarms |->
                    [spec |-> m.alarms[i].spec, enabled |-> m.alarms[i].enabled,
                     generation |-> m.alarms[i].generation, last |-> m.alarms[i].last]],
     nextId |-> m.nextId, duration |-> m.timer.duration, view |-> m.view]

NewModel(wall, mono) ==
    [wall |-> wall, mono |-> mono, alarms |-> <<>>, nextId |-> 1, active |-> <<>>,
     started |-> 0, queue |-> <<>>, missed |-> <<>>, total |-> 0, view |-> FALSE,
     timer |-> [state |-> "stopped", generation |-> 1, duration |-> 0, remaining |-> 0,
                deadline |-> 0]]

\* clock_wire_preferences_decode(): occurrences that came do not come again, and
\* an alarm without an occurrence ahead is disabled.
ReadAlarmAnew(base, a) ==
    LET alarm == Configured(base, a.spec, a.enabled, a.generation, 0)
    IN [alarm EXCEPT !.enabled = alarm.next # 0]

ReadAlarm(base, a) ==
    LET alarm == Configured(base, a.spec, a.enabled, a.generation, a.last)
    IN [alarm EXCEPT !.enabled = alarm.next # 0]

Decoded(c, wall, mono) ==
    LET base == NewModel(wall, mono)
    IN [base EXCEPT !.alarms = [i \in DOMAIN c.alarms |-> ReadAlarm(base, c.alarms[i])],
                    !.nextId = c.nextId, !.view = c.view,
                    !.timer.duration = c.duration, !.timer.remaining = c.duration]

\* What fplinux_ui_prefs_set() and fplinux_ui_prefs_save() may come to: an
\* unchanged file needs no more than the directory's fsync(), if that.
Changes(st, c) == st.changed \/ c # st.value

Results(st, c) ==
    IF Changes(st, c) THEN {"DURABLE", "UNSYNCED", "UNPUBLISHED"}
    ELSE IF st.pending THEN {"DURABLE", "UNSYNCED"} ELSE {"DURABLE"}

\* disk: the contents that a loss of power may leave.
Written(st, c, r) ==
    LET published == [st EXCEPT !.value = c, !.changed = FALSE, !.pending = r = "UNSYNCED",
                                !.file = c,
                                !.disk = IF r = "DURABLE" THEN {c} ELSE @ \cup {c},
                                !.inherited = @ /\ r # "DURABLE"]
    IN IF r = "UNPUBLISHED"
       THEN [st EXCEPT !.value = c, !.changed = TRUE]
       ELSE IF Changes(st, c) \/ st.pending THEN published ELSE st

\* saved(): the outcome, and when to try again.
Saved(st, c, r, mono) ==
    [Written(st, c, r) EXCEPT
        !.state = r,
        !.retry = IF r = "DURABLE" THEN 0 ELSE mono + st.delay,
        !.delay = IF r = "DURABLE" THEN RetryInitial
                  ELSE IF st.delay > RetryMax \div 2 THEN RetryMax ELSE 2 * st.delay]

RetryDue(st, mono) == st.retry # 0 /\ mono >= st.retry

-----------------------------------------------------------------------------
(* The wall clock's timer.                                                 *)

Cancelled == -1      \* the wall clock was set: ECANCELED

AlarmDues(m) ==
    {m.alarms[i].next : i \in {j \in DOMAIN m.alarms : m.alarms[j].enabled}} \ {0}

\* fplinux_session_clock_alarm_deadline()
AlarmDeadline(m) == IF AlarmDues(m) = {} THEN 0 ELSE Min(AlarmDues(m))

\* fplinux_session_dispatch(): the timer goes off once.
ReadAlarmTimer(timer, wall, jumped) ==
    [due |-> IF jumped THEN Cancelled ELSE timer.due,
     set |-> IF timer.set <= wall THEN 0 ELSE timer.set]

\* arm_alarm()
ArmAlarm(timer, m) ==
    IF AlarmDeadline(m) = timer.due THEN timer
    ELSE [due |-> AlarmDeadline(m), set |-> AlarmDeadline(m)]

-----------------------------------------------------------------------------
(* fplinux_session_clock_tick(), _apply() and _init().  r is the outcome of  *)
(* the checkpoint that the tick writes, q of the one of the request.         *)

\* Monotonic time goes on and the wall clock with it, unless it is set.
Advances(mono, wall) ==
    \E step \in Steps :
        /\ mono = model.mono + step /\ mono <= MonoMax
        /\ \/ wall = model.wall + step
           \/ used.jumps < bound.jumps /\ wall \in WallSettings

Times == {<<m, w>> \in (0 .. MonoMax) \X (1 .. WallMax) : Advances(m, w)}

Jumps(time) == IF time[2] - model.wall = time[1] - model.mono THEN 0 ELSE 1

Failed(r) == IF r = "DURABLE" THEN 0 ELSE 1

Ticked(time) == TickModel(model, time[2], time[1])

TickSaves(m) == Encoded(m) # Encoded(model) \/ RetryDue(store, m.mono)

TickResults(m) == IF TickSaves(m) THEN Results(store, Encoded(m)) ELSE {"DURABLE"}

TickStored(m, r) ==
    IF TickSaves(m) THEN Saved(store, Encoded(m), r, m.mono) ELSE store

\* Scheduled occurrences that m has consumed.
Came(m) ==
    {<<i, m.alarms[i].last>> :
        i \in {j \in DOMAIN m.alarms : m.alarms[j].last # model.alarms[j].last}}

Remember(m) ==
    /\ rung' = rung \cup Came(m)
    /\ replayed' = (replayed \/ Came(m) \cap rung # {})

Counts(time, failures, request) ==
    /\ used.failures + failures <= bound.failures
    /\ used' = [used EXCEPT !.jumps = @ + Jumps(time), !.failures = @ + failures,
                            ![request] = @ + 1]
    /\ used[request] < bound[request]
    /\ bound' = bound

Tick ==
    \E time \in Times : \E r \in TickResults(Ticked(time)) :
        /\ store.ready
        /\ model' = Ticked(time)
        /\ store' = TickStored(Ticked(time), r)
        /\ wakeup' = ArmAlarm(ReadAlarmTimer(wakeup, time[2], Jumps(time) = 1), model')
        /\ Remember(Ticked(time))
        /\ used.failures + Failed(r) <= bound.failures
        /\ used' = [used EXCEPT !.jumps = @ + Jumps(time), !.failures = @ + Failed(r)]
        /\ bound' = bound

\* A rejected edit must not become the next checkpoint.
Rejected(st, m) == [st EXCEPT !.value = Encoded(m), !.changed = TRUE]

Applied(m, st, n, q, configuration) ==
    IF Encoded(m) = Encoded(n)
    THEN /\ model' = n
         /\ IF configuration /\ st.state # "DURABLE"
            THEN q \in Results(st, Encoded(n)) /\ store' = Saved(st, Encoded(n), q, n.mono)
            ELSE q = "DURABLE" /\ store' = st
    ELSE /\ q \in Results(st, Encoded(n))
         /\ model' = IF q = "UNPUBLISHED" THEN m ELSE n
         /\ store' = IF q = "UNPUBLISHED" THEN Rejected(st, m)
                     ELSE Saved(st, Encoded(n), q, n.mono)

\* fplinux_session_clock_apply() ticks first.  A request is taken at the moment
\* of a tick here, one that comes later is a Tick and then the request: ticking
\* twice at one moment changes nothing (EveryEventCounts).  Operation(m) is empty
\* when the request is refused.
Request(Operation(_), request) ==
    \E n \in Operation(model), q \in {"DURABLE", "UNSYNCED", "UNPUBLISHED"} :
        /\ store.ready
        /\ Counts(<<model.mono, model.wall>>, Failed(q), request)
        /\ Applied(model, store, n, q, request = "edits")
        /\ wakeup' = ArmAlarm(wakeup, model')
        /\ UNCHANGED <<rung, replayed>>

\* configuration_request()
Edit(Operation(_)) == Request(Operation, "edits")
Control(Operation(_)) == Request(Operation, "others")

Alarms == DOMAIN model.alarms

EditAlarm ==
    \/ \E spec \in Schedules, enabled \in BOOLEAN :
          \/ Edit(LAMBDA m : AlarmAdd(m, spec, enabled))
          \/ \E i \in Alarms, cancel \in BOOLEAN :
                Edit(LAMBDA m : AlarmEdit(m, i, spec, enabled, cancel))
    \/ \E i \in Alarms, enabled, cancel \in BOOLEAN :
          Edit(LAMBDA m : AlarmEnable(m, i, enabled, cancel))
    \/ \E i \in Alarms, cancel \in BOOLEAN : Edit(LAMBDA m : AlarmDelete(m, i, cancel))

EditOther ==
    \/ \E duration \in Durations : Edit(LAMBDA m : TimerSet(m, duration))
    \/ \E view \in BOOLEAN : Edit(LAMBDA m : SetView(m, view))

Ring ==
    \/ Control(Dismiss)
    \/ \E minutes \in SnoozeTimes : Control(LAMBDA m : Snooze(m, minutes))
    \/ \E i \in Alarms : Control(LAMBDA m : CancelSnooze(m, i))
    \/ Control(ClearMissed)

Countdown ==
    \/ Control(TimerStart) \/ Control(TimerPause) \/ Control(TimerResume)
    \/ Control(TimerStop) \/ Control(TimerRestart)

\* fplinux_session_clock_init(): a process reads content c; what an earlier one
\* has renamed and not synchronized it takes for durable.
Reads(c, wall, mono, disk, r) ==
    LET m == Decoded(c, wall, mono)
        fresh == [state |-> "DURABLE", retry |-> 0, delay |-> RetryInitial, value |-> c,
                  changed |-> FALSE, pending |-> FALSE, file |-> c, disk |-> disk,
                  inherited |-> disk # {c}, ready |-> TRUE]
    IN /\ model' = m
       /\ IF Encoded(m) # c
          THEN r \in Results(fresh, Encoded(m)) /\ store' = Saved(fresh, Encoded(m), r, mono)
          ELSE r = "DURABLE" /\ store' = fresh

\* The preferences cannot be opened, or their content cannot be decoded: there
\* is no checkpoint to write and no retry, and the clock stays empty.
CannotRead(c, wall, mono, disk) ==
    /\ model' = NewModel(wall, mono)
    /\ \E state \in {"UNPUBLISHED", "DURABLE"} :
          store' = [state |-> state, retry |-> 0, delay |-> RetryInitial, value |-> c,
                    changed |-> FALSE, pending |-> FALSE, file |-> c, disk |-> disk,
                    inherited |-> disk # {c}, ready |-> FALSE]

\* r is "UNREAD", or the outcome of the checkpoint of the normalized content.
Starts == {"DURABLE", "UNSYNCED", "UNPUBLISHED", "UNREAD"}

Start(c, wall, mono, disk, timer, r) ==
    /\ IF r = "UNREAD" THEN CannotRead(c, wall, mono, disk) ELSE Reads(c, wall, mono, disk, r)
    /\ wakeup' = ArmAlarm(timer, model')
    /\ replayed' = replayed

NoAlarm == [due |-> 0, set |-> 0]

\* The supervisor starts the session again.
Restart ==
    \E time \in Times, r \in Starts :
        /\ Start(store.file, time[2], time[1], store.disk, NoAlarm, r)
        /\ rung' = IF store.ready /\ store.state = "UNPUBLISHED" THEN {} ELSE rung
        /\ Counts(time, Failed(r), "restarts")

PowerLoss ==
    \E time \in Times, r \in Starts, c \in store.disk :
        /\ Start(c, time[2], 0, {c}, NoAlarm, r)
        /\ rung' = IF (store.ready => store.state = "DURABLE") /\ ~store.inherited
                   THEN rung ELSE {}
        /\ Counts(time, Failed(r), "restarts")

\* The next advance() of a session without a clock.
StartAgain ==
    \E time \in Times, r \in Starts :
        /\ ~store.ready
        /\ Start(store.file, time[2], time[1], store.disk,
                 ReadAlarmTimer(wakeup, time[2], Jumps(time) = 1), r)
        /\ rung' = rung
        /\ used.failures + Failed(r) <= bound.failures
        /\ used' = [used EXCEPT !.jumps = @ + Jumps(time), !.failures = @ + Failed(r)]
        /\ bound' = bound

-----------------------------------------------------------------------------
Init ==
    /\ model = NewModel(1, 0)
    /\ store = [state |-> "DURABLE", retry |-> 0, delay |-> RetryInitial,
                value |-> Encoded(NewModel(1, 0)), changed |-> FALSE, pending |-> FALSE,
                file |-> Encoded(NewModel(1, 0)), disk |-> {Encoded(NewModel(1, 0))},
                inherited |-> FALSE, ready |-> TRUE]
    /\ wakeup = NoAlarm
    /\ rung = {} /\ replayed = FALSE
    /\ used = [edits |-> 0, others |-> 0, jumps |-> 0, failures |-> 0, restarts |-> 0]
    /\ bound \in Scenarios

Next == Tick \/ EditAlarm \/ EditOther \/ Ring \/ Countdown \/ Restart \/ PowerLoss
        \/ StartAgain

Spec == Init /\ [][Next]_vars

-----------------------------------------------------------------------------
(* When the session wakes up for the clock.                                *)

\* fplinux_session_clock_deadline(), 0 for never.
Deadlines ==
    ({store.retry} \ {0})
    \cup {model.started + RingTimeout : e \in ToSet(model.active)}
    \cup {model.timer.deadline : s \in {model.timer.state} \cap {"running"}}
    \cup ({model.alarms[i].snooze : i \in Alarms} \ {0})

\* The timers of the session, of which the wall clock's also goes off when that
\* clock is set.
Wakes(time) ==
    \/ \E d \in Deadlines : d <= time[1]
    \/ wakeup.set # 0 /\ (wakeup.set <= time[2] \/ Jumps(time) = 1)

-----------------------------------------------------------------------------
(* Properties.                                                             *)

EventType ==
    [source : Nat, generation : Nat, due : 1 .. WallMax, snoozed : BOOLEAN]

TypeOK ==
    /\ model.wall \in 1 .. WallMax /\ model.mono \in 0 .. MonoMax
    /\ \A i \in Alarms : i \in 1 .. model.nextId - 1 /\ ValidSpec(model.alarms[i].spec)
    /\ Cardinality(Alarms) <= AlarmLimit
    /\ \A e \in Pending(model) \cup ToSet(model.missed) : e \in EventType
    /\ Len(model.active) <= 1 /\ Len(model.queue) <= QueueLimit
    /\ Len(model.missed) = Min({model.total, MissedLimit})
    /\ model.timer.state \in {"stopped", "running", "paused", "finished"}
    /\ store.state \in {"DURABLE", "UNSYNCED", "UNPUBLISHED"}

Occurrences(spec) ==
    {t \in 1 .. WallMax : IF spec.kind = "once" THEN t = spec.at
                          ELSE /\ (t \div DayLength) % WeekLength \in spec.days
                               /\ t % DayLength = spec.at}

\* After every call nothing is overdue, what comes next is in the future of
\* what came last, and no occurrence is passed over unless the wall clock was
\* set.
NothingOverdue ==
    /\ \A i \in Alarms :
          LET alarm == model.alarms[i]
          IN /\ alarm.enabled => alarm.next > model.wall /\ alarm.next > alarm.last
             /\ ~alarm.enabled => alarm.next = 0
             /\ alarm.enabled /\ used.jumps = 0 =>
                   \A t \in Occurrences(alarm.spec) :
                      t <= model.wall \/ t <= alarm.last \/ t >= alarm.next
             /\ alarm.snooze # 0 => alarm.snooze > model.mono
    /\ model.timer.state = "running" => model.timer.deadline > model.mono
    /\ model.active # <<>> => model.mono - model.started < RingTimeout

\* An event that rings or waits is of an alarm that still has the schedule it
\* came from, or of the countdown that finished; it can be snoozed or dismissed.
PendingCurrent ==
    /\ model.queue # <<>> => model.active # <<>>
    /\ \A e \in Pending(model) :
          IF e.source = Timer
          THEN model.timer.state = "finished" /\ model.timer.generation = e.generation
          ELSE e.source \in Alarms /\ model.alarms[e.source].generation = e.generation
    /\ Cardinality({e \in Pending(model) : e.source = Timer})
          = Len(SelectSeq(model.active \o model.queue, LAMBDA e : e.source = Timer))

\* Whenever the next tick comes, and however far the wall clock has been set,
\* every alarm, snooze and countdown that is due rings, waits or counts as
\* missed, once; and if there is one, a timer of the session goes off for it.
EveryEventCounts(time) ==
    LET moved == At(model, time[2], time[1])
        due == Cardinality(DueAlarms(moved)) + Cardinality(DueSnoozes(moved))
               + IF TimerDone(moved) THEN 1 ELSE 0
        after == Ticked(time)
        Waiting(m) == Len(m.active) + Len(m.queue) + m.total
    IN /\ Waiting(after) = Waiting(model) + due
       /\ Pending(after) # Pending(model) \/ due > 0 => Wakes(time)

\* Reminders are kept: see the four parts.  A clock that could not be started has
\* none, until a later advance() reads them.
RemindersKept ==
    TypeOK /\ NothingOverdue /\ PendingCurrent /\ \A time \in Times : EveryEventCounts(time)

\* The checkpoint tells the truth about the disk: DURABLE means that every loss
\* of power leaves the present configuration (or what an earlier process did
\* not synchronize), UNSYNCED that a restart does; otherwise a retry is set.
\* Edits that were rejected are not there.  So no occurrence of an alarm comes
\* twice, whatever happens to the wall clock and to the session, as long as the
\* checkpoint of the first time was written.  A clock that could not be started
\* has no checkpoint: it leaves the file alone, and answers no request.
CheckpointTrue ==
    /\ store.ready =>
          /\ store.state # "UNPUBLISHED" => store.file = Encoded(model)
          /\ store.state = "DURABLE" => store.disk = {store.file} \/ store.inherited
          /\ (store.state = "DURABLE") = (store.retry = 0)
    /\ ~replayed
=============================================================================
