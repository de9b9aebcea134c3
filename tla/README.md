# A TLA+ model of FPLinux

FPLinux turns feature phones into small Linux computers: a session manager, an
audio service, applications, a UI library, kernel drivers and a boot chain.
This project specifies the parts in which processes, threads, a file system or
two clocks share state and must survive each other's failures:

* **audio**: the service `fplinux-audiod`, its client library and the session
  manager's client of it;
* **session**: the manager's registry of applications and the swap of an
  application and the launcher on the screen;
* **files**: the file manager's retryable operations under power loss, and the
  worker thread that runs them under its user interface;
* **terminal**: the supervisor that empties a shell's session;
* **clock**: alarms, snoozes and the countdown, with the checkpoint the session
  keeps of them.

Source paths below are relative to the repository; `session-core.c`,
`session-clock.c` and `session-audio.c` are in `alpine/aports/fplinux-session/`.

## Inventory

| Component | State | Operations | Talks to | What is hard |
|---|---|---|---|---|
| **audiod policy and loop** (`alpine/aports/fplinux-audiod/audio-streams.c`, `audiod.c`) | process table (5), gone ring (5), connections (16), stream slots (8 + 1 reserved), resynchronization deadline, one timerfd | control commands APP, CLOCK, GONE, AUDIBLE, VOLUME; stream messages HELLO, OPEN, CLOSE, KICK; accept, hang-up, expire, refresh | manager (control socket), applications (stream socket) | HELLO before APP, manager reconnects, role and uid changes, full tables, deadlines |
| **shared ring** (`audiod.c`, `lib/fplinux/fplinux-audio-client.c`) | `write`, `read`, `sleeping`, the client's `kicked`/`kick_read`, audiod's output state and retry time | write; refresh, mix, publish, open, release | shared memory and KICK messages | lock-free hand-off, stale loads, 32-bit positions, card failures |
| **output** (`audiod.c`, `audio-mixer.c`, `audio-device.c`) | mixed and written counters, pending frames, marks, heard position | fill, recover, close, publish | ALSA | short writes, underruns, releases between periods |
| **control client** (`session-audio.c`) | connection, backoff, volume triple, process entries | app, clock, gone, audible, set_volume, dispatch | audiod | sends that fail half-way, overlapping links, restarts of both sides |
| **audio client** (`lib/fplinux/fplinux-audio-client.c`) | connection, late counter, streams | open, write, close, dispatch | audiod | answers that come after their call gave up |
| **session manager: tasks** (`session-core.c`) | the launcher, a bounded registry of tasks, the launch under way, the document, close decisions | messages of launcher and applications, keys, commits, `manage_processes()` | applications, launcher, compositor | processes dying in every phase, timers racing answers, tokens that outlive their process |
| **session manager: hand-off** (`session-core.c`, ACTIVE_ACK in `lib/fplinux/`) | ACTIVE serials, leaving and shown applications, modes, held scenes, the hand-off timer | ACTIVE, ACTIVE_ACK, MODE, commit, cover, `hand_off()` | launcher, compositor | late answers, a replaced or hung launcher, a frozen screen |
| **file operations** (`alpine/aports/fplinux-files/files-core.c`) | step, publication and source state, cross-device flag, identity of the source | open, run, retry, close; mkdir, rename, remove, copy, move | the file system, other processes | power loss between the steps of a move, retries, races for a name |
| **file worker** (`files-job.c`, `fplinux-files.c`) | worker thread, status, cancel flag, notification pipe; the UI's wait, question and close request | read, mutate, retry, cancel, collect, storage results, prepare close | UI thread, session storage | wake-ups lost between drain and status, stale cancellation, closing over work |
| **PTY supervisor** (`alpine/aports/fplinux-terminal/terminal-pty-supervisor.c`, `terminal-pty.c`) | shell, its session, owner and report pipes | start, watch, sweep, report | terminal, /proc, the shell's jobs | forks behind the sweep, wrapped process IDs, orphans |
| **clock** (`alpine/aports/fplinux-clocks/clock-model.c`, `clock-wire.c`, `session-clock.c`) | alarms, snoozes, countdown, active event, bounded queue and missed list; checkpoint state and retry | tick, edit, snooze, dismiss, countdown, checkpoint, restart | session manager, storage | wall-clock settings, events due together, storage that fails before or after its rename |
| **CM4 mailbox** (`platforms/ums9117/linux/overlay/drivers/bluetooth/ums9117/`) | shared rings, doorbells, queued events | prepare, poll, H4 and FM reads and writes, suspend | CM4 firmware | coalesced doorbells, suspend |
| session storage, power, wireless, settings; UI library, launcher, applications, brightness and Bluetooth daemons, media/USB/storage drivers, boot chain, host tools | — | — | — | see "Not modelled" |

What makes the modelled components correct:

* *audiod policy*: a stream slot belongs to exactly one admitted connection of
  the right process, user and role, and only as long as the manager vouches for
  it; every connection is answered;
* *ring*: frames are never overwritten, and are left without a wake-up only for the
  two reasons under Findings;
* *output*: every mixed frame is accounted for, and the position reported as
  heard is right;
* *control*: audiod's table equals the manager's, whatever fails in between;
* *audio client*: a call gets its own answer, and a stream leaks in audiod only when
  the socket refused its CLOSE;
* *tasks*: one instance of an application, one application in the foreground;
  a launch card and a document always belong to somebody who will end them;
* *hand-off*: no frame shows neither application nor launcher, an answer means
  the newest frame, and every swap ends;
* *file operations*: a power loss at any moment leaves the file somewhere, whole,
  and the reported state is true; nobody else's file is replaced;
* *file worker*: no wake-up is lost, every wait ends, a change is shown;
* *PTY*: the supervisor ends, with an empty session and the shell's own status as
  far as /proc could be read and nobody left the session;
* *clock*: every due event rings, waits or counts as missed exactly once and has
  a timer that goes off for it; the checkpoint is on the disk when it is said to be.

`PROJECT.json` lists the hazards behind these properties at their source lines.

## Modules

| Module | Models | State and actions |
|---|---|---|
| `AudioStreams` | `audio-streams.c`, `serve()` | The variables are the fields of `struct fplinux_audio_streams` and the manager fields of `struct audio_service`. `round` walks through the phases of one `serve()` iteration: `manager`, `control`, `connections` (with `cursor` and `packet` for the read loops), `streams`, `expire`, `advance`, `poll`. One action per command, message, accept and phase. The manager and the applications may send anything: audiod may not trust them. `alarm` is the timerfd and `timer` what `arm()` remembers of it: `Advance` sets the timerfd only when the first deadline is another one, and `Wake` forgets it, as the code does. |
| `AudioRing` | one stream's ring | Every load and store of the ring header is its own step: `LoadRead`, `StoreWrite`, `LoadSleeping`, `SendKick` for the application; `RefreshPolicy`, `Mix`, `FillDone`, `Silence`, `StoreSleeping`, `LoadWrite`, `OpenDevice`, `LoadWriteAgain` for `advance()`. Positions are compared as the code does, modulo `Words` (2^32 in the code): `Apart`. The card may fail in either fill. Two history variables name the causes of stranded frames: `withheld` (the last write held its KICK back for a position audiod had moved) and `unsaid` (the card failed in the fill after its open). |
| `AudioOutput` | `fill()`, `recover()`, `close_device()`, marks | `fill` is the place inside `fill()`; the card is external and plays at any time. One stream opens and ends around it. The heard position is compared as the mixer does, by the sign of a difference modulo `Words` (`Later`). |
| `AudioControl` | `session-audio.c` and audiod's end | `manager` is `struct fplinux_session_audio`; `links` are the connections audiod has not dropped. `Transmit(k, …)` is a call whose first `k` sends succeed: `k` less than all of them is a failure in the middle. |
| `AudioClient` | open/close/dispatch of the client | `requests` and `answers` are the two directions of the socket. Calls are numbered, which the code does not do: it lets `OwnAnswer` say which answer belongs to which call. A CLOSE may be refused by a full socket, which the client ignores; `lost` remembers the streams audiod then keeps. |
| `SessionTasks` | the registry, launches, documents, close preparation and process supervision of `session-core.c` | `session` is `struct fplinux_session`; each C function is an operator from a session to a session, composed in the order of the code. One action per message, key, commit, exit and cover; `Advance` is one `manage_processes()` with any set of expired timers. |
| `SessionHandOff` | ACTIVE, its acknowledgement and `hand_off()` of `session-core.c`, the launcher's frame acknowledgement | As above; `session.client` is the launcher behind its socket: messages it has not read, the frame it drew, the one it committed, the answers under way. A full socket refuses (`refused`), starts may fail, and an application may be BUSY. |
| `FileTransfer` | — | The abstract specification of a file operation: the set of places at which a power loss would leave the whole file. |
| `FilesOperation` | `files-core.c` | The variables are the fields of `struct fplinux_files_operation`; `pc` is the place in `run()`, and every system call is a step that may fail. `seen` is the file system as processes see it, `disk` what a power loss leaves. It implements `FileTransfer` (`TransferSpec`). |
| `FilesJob` | `files-job.c`, the waits and the close handling of `fplinux-files.c` | One action per callback of the UI loop and per step of the worker; `Drain` and `Collect` are the two halves of `collect()`. A file operation is only its outcome. |
| `PtySupervisor` | `terminal-pty-supervisor.c`, `terminal-pty.c` | `proc` is the kernel's process table; `pc` the place in `main()` and `close_session()`, whose walks of /proc visit one process ID per step while processes fork, exit, wait and call setsid(). A visit is two steps, `Look` (getsid) and `Kill` (kill), a killed process takes its time to end, and a walk may fail to open /proc. |
| `ClockModel` | `clock-model.c`, the checkpoint of `session-clock.c` and `fplinux-ui-prefs.c` | `model` is `struct clock_model`, `store` the checkpoint: what was last encoded, the file, what the disk may hold, the retry. `wakeup` is the alarm timer of `session-core.c` as `arm_alarm()` sets it. One action per tick and kind of request; `Restart` and `PowerLoss` read the checkpoint back, which may fail (`store.ready`); `StartAgain` is the later attempt. |
| `XProofs` | | theorems about `X`; `AudioClientProofs` is also about `AudioRing`, and `FilesProofs` about `FilesOperation` and `FilesJob`. Every module but `ClockModel` has one. |
| `MC…` | | the instances TLC checks. Three of them hold two components that share no state, with a variable `part` for the one that moves: the state spaces are added, not multiplied. |

How they fit together. In `AudioStreams` audiod's peers are unconstrained, so what
it shows holds for any manager and any client; `AudioControl` and `AudioClient`
carry an abstraction of audiod (its table, and one connection) with peers that
behave as their code does; `AudioRing` keeps only the frames of one stream and
`AudioOutput` only the periods. `SessionTasks` and `SessionHandOff` are the same
event loop seen twice: in the first a swap may happen at any time after it was
asked for, in the second there is one process per application and the swap is
followed frame by frame. `FilesJob` takes from `FilesOperation` only that a run ends
with or without an error and published or not.

Abstractions worth knowing:

* user IDs and process IDs are model values; `Nobody` is pid 0; in
  `PtySupervisor` process IDs are numbers, because a walk visits them in order;
* deadlines count down in ticks (audio), are flags that become true at any time
  (session), or are times of one of the two clocks (clock);
* samples, gains and resampling ratios are dropped: a period takes any number
  of a stream's frames up to a period's worth;
* refusals that depend on data (format, memory, table, a system call) are one
  failure, possible at any time;
* a device writes its metadata back in order, and a directory's fsync brings the
  device up to date, as a journalling file system does; file data are written
  back separately;
* in `SessionTasks` `policy.framed` (`session-core.c:4317-4325`) comes with the first
  buffer of a task, and with READY of the launcher; `SessionHandOff` leaves out the guards of
  `submit_frame()` (`lib/fplinux/fplinux-ui.c:1154-1159`), so its launcher may commit
  more often than the real one;
* in `PtySupervisor` `opendir` may fail in every walk, `readdir` never does; in
  `ClockModel` `timerfd_settime` never fails;
* calendar arithmetic is over short days and weeks; texts, titles and notices are
  left out;
* the mutated forms next to some definitions (`OwnedByAppSlots`,
  `StoreSleepingFirst`, …) are not used by any specification: they state the
  slip each property guards against.

## Runs

Bounds are in the `.cfg` files; each is small enough for minutes and large
enough that the cases named here occur. The `TypeOK` of a module is a conjunct of one
of its properties.

| Run | Checks | Bounds and why they suffice |
|---|---|---|
| `streams` | `StreamTable`, `RolesAgree`, `ManagerCovers`, `Admission`, `TimerCovers`, `HelloAnswered` | 2 processes × 2 users × 2 connections, 2 + 1 slots, one stream per process, 2 table entries and 1 gone entry: two connections of one process, two processes on one slot pool, refusals and reuse of an entry, and all kinds of deadlines occur (`CardTicks`: the card's own). With one stream per connection the uniqueness of IDs has no work to do here; it is proved. |
| `client` | `AnswersMatch`, `StreamsMatch`; `NoOverwrite`, `SleepingTold`, `RingHeals`, `FramesTaken` | `AudioClient`: 6 calls, 2 streams, so that several calls time out on one connection, which is then used again, and CLOSEs are lost. `AudioRing`: a ring of 2 frames, positions modulo 7 (the least the proofs allow), 8 frames written: the ring fills and empties, the index and the positions wrap, the card fails in both fills. |
| `ring_kick` | `HandOff` (violated) | the same ring; see Findings |
| `ring_sleeping` | `SleepingExact` (violated) | the same ring; see Findings |
| `control` | `TablesAgree`, `VolumeAgrees`, `EventuallySettled`; `HeardOK`, `Accounting`, `HistorySuffices` | `AudioControl`: 1 process, 2 levels, 2 overlapping links, 3 packets per link, a backoff that doubles once: an announcement fails at each point, and a volume is acknowledged, timed out or overtaken. `AudioOutput`: periods of 2 frames, a buffer of 2 periods, the least history for it, 4 periods, which fill the history; positions modulo 21 (the least the assumption allows). |
| `files` | `Durable`, `NothingLost`, `TransferSpec`, `NoReplace`; `JobAccounted`, `ChangeShown`, `WaitEnds`, `Leaves` | `FilesOperation`: files of 3 chunks, 4 runs: every step of a move over two devices is retried; each operation on one and on two devices. `FilesJob`: a pipe of 2 bytes, so that it fills. |
| `pty` | `SessionGone`, `StatusKept`, `Finishes` | 3 process IDs, 3 forks, any free ID for a new process (`AnyPid`), processes that leave the session (`Escapes`), walks that cannot open /proc (`Faults`): forks behind every walk, orphans of orphans, reuse of the shell's ID. |
| `pty_guardian` | `GuardianExitsLast` (violated) | nobody leaves the session and IDs are not chosen freely; see Findings |
| `session_tasks` | `RegistryOK`, `LaunchHasOwner`, `DocumentOK`, `OperationEnds` | 3 applications for a registry of 2 (so that it is full), one of them fullscreen; five scenarios: two launches in any order with a BUSY application, a document, a document whose handler restarts while its origin is BUSY, a close preparation with a crash, covers. |
| `session_fullscreen_handler` | `DocumentReachesHandler` (violated) | see Findings |
| `session_handoff` | `AnswerMeansDrawn`, `CleanSwap`, `SwapEnds` | an integrated and a fullscreen application; seven scenarios: two launches, a change of mode, BUSY, starts that fail, covers, news for the launcher, a crash; in the last two the launcher may hang. Its socket takes 6 messages: a launcher that does not read fills it, and an ACTIVE is refused. |
| `clock` | `RemindersKept`, `CheckpointTrue` | days of 2 units, weeks of 2 days, 2 alarms, one queued and one missed event, so that events due together overflow both; steps of time of 0, 1 and 4 with a ringing of 2, so that a snooze may be found too late; three scenarios: edits with snoozes and a countdown, with a setting of the wall clock, and with a failing checkpoint, a restart that cannot read it or power loss. |

Deadlock is checked except in `streams`, where SIGTERM stops audiod, in `client` and
`files`, where nobody has to make another call, and in the two runs of
`PtySupervisor`, which ends.

### Fairness

* audiod's own steps are weakly fair: it is a single thread that, once `poll()`
  has returned, always completes the round. In `AudioStreams` this includes
  leaving a read loop, i.e. peers do not send faster than audiod reads for
  ever (`receive` is also bounded by `PACKETS_PER_ROUND`). An armed timerfd that
  expires ends `poll()`, and time passes: `Tick` is strongly fair where the model
  confines it to the blocked state.
* The application's `write` call completes once it started; nothing requires
  another call. The manager's loop is fair in `AudioControl`.
* `FilesJob`: the worker ends and notifies (what it does is finite), the UI loop
  serves a readable pipe and an ended wait, the session answers a storage request,
  and `fplinux_files_job_close` joins a thread that ends.
* `PtySupervisor`: the supervisor's own steps, and the kernel, which ends a killed
  process at last; the jobs may do anything.
* `SessionTasks`: `FairAdvance` and the launch timer, with their enabling conditions
  written out. `advance()` follows every message, and 100 ms later itself as long as it
  asks for a tick (`needs_tick`), so that what it has to do without a timer is done. No
  application, launcher or user has to do anything.
* `SessionHandOff`: the manager's timers and `advance()`; a process told to close
  dies, because the manager kills it in the end; the launcher answers, except in
  the scenarios in which it hangs.
* The runs of two components have the fairness of the one with a liveness property
  (`MCSpec`); it asks nothing of a ring or a job at rest, and behaviours of
  `AudioOutput`, which are checked for safety only, do not satisfy `AudioControl`'s.
* Nothing requires a card to be free or working, managers to announce, or links
  to stay up: where a property needs that, it says so in its premise
  (`FramesTaken`, `EventuallySettled`).

## Findings

**The launcher's end takes a document away from a fullscreen handler**
(`session_fullscreen_handler`). A document that goes to an application which is not
running has no handler token yet, and 0 stands for that; a fullscreen handler
starts only after the launcher has ended, and the launcher's token is 0 too. The reap
of the launcher is then taken for the end of the handler (`session-core.c:3309`),
and the request is answered with an error although its launch goes on.
`include/fplinux/fplinux-ui-session.h:195-196` says what should happen instead: "Cold and
retained handlers receive DOCUMENT after CONFIG, independently of OPEN and RESUME."

**A suppressed KICK strands frames** (`ring_kick`). `fplinux_audio_stream_write()` skips
the KICK when the read position it loaded *before* the copy equals the one of its last
KICK (`lib/fplinux/fplinux-audio-client.c:414`). audiod may play those frames, move
`read`, release the card and set `sleeping` between that load and the load of
`sleeping`; it has then looked at `write` too early.
`include/fplinux/fplinux-audio-protocol.h:176-181` promises a KICK by the next write and
that "at least one of them sees the other". `RingHeals` shows that the next write that
adds frames repairs it: only the end of a sound can stay unplayed.

**A card that fails in its first fill** (`ring_sleeping`). `advance()` stores
`sleeping = 0`, computes that no stream waits for the open card, and only then fills it
(`alpine/aports/fplinux-audiod/audiod.c:398-402`). When that fill fails, audiod blocks
without the card, with `sleeping = 0` and no retry armed, until something else wakes it:
frames written meanwhile bring no KICK. `fplinux-audio-protocol.h:174-176` says that
`sleeping` is nonzero "while audiod does not look at the ring every period, because the
output is closed or the stream is paused", and `audiod.c:44` that "While something wants
to play, a busy card is tried again this often." `SleepingTold` and `FramesTaken` show that
there is no other case (`unsaid`).

**A walk that cannot open /proc ends the sweeps** (`pty_guardian`). `signal_session()`
returns -1 when `opendir` fails, and `close_session()` stops on `<= 0`
(`alpine/aports/fplinux-terminal/terminal-pty-supervisor.c:203`): FINISHED is
reported and the supervisor exits over jobs that live on. `terminal-pty.c:178` says "The
guardian exits only after the PTY session is empty and reaped." `SessionGone` shows that
only the walk that counts can do this (`blind`), or a job that left the session.

## Observations

Met while modelling; each is reproducible with the constant, the exception or the
definition named.

* **A CLOSE that the socket refuses** leaks its stream in audiod until the connection
  ends: `send_message()` does not block, and its result is ignored
  (`lib/fplinux/fplinux-audio-client.c:48-54`, 173, 287, 458). `NoLeak` says what is left
  then: exactly the streams of `lost`.
* **A job that leaves the shell's session.** One that forks behind the last walk and
  calls setsid() ahead of it leaves its child in the session unseen; `SessionGone`
  excepts it (`escaped`). One that never waits for a zombie in the session keeps the
  sweep going for ever, and so does an `opendir` that fails in every killing walk
  (premises of `Finishes`). One whose child is given the reaped shell's process ID has
  that child's status taken for the shell's (`terminal-pty-supervisor.c:147-148`; the
  exception in `StatusReal`).
* **Between getsid and kill** (`terminal-pty-supervisor.c:129` and 133) a process may
  leave the session, or end and its ID be reused. Both are in the model (`Look`, `Kill`), so a
  process outside the session can be stopped or killed, which the comment at 128 does
  not consider; no property says otherwise.
* **The launch timer stands still while any document waits for a decision**
  (`session-core.c:3548`; the repository's test at `fplinux-session-core-test.c:1835-1841`
  has one case of it). `LaunchEnds` excepts it.
* **BUSY has no timer.** A handler that restarts for a document waits while another
  application is BUSY (`session-core.c:3548`, 3569-3570), and so does the held frame
  (`session-core.c:3754`, 661-665): the exceptions in `DocumentDecided` and `SwapEnds`.
* **An ACTIVE that a full socket refuses** is not repeated until something else
  changes (`session-core.c:1149-1151`): a held HOME frame may stay (without
  `session.refused` TLC refutes `SwapEnds`), and an application may appear between bars
  drawn for another one (`CleanSwap` excepts it).
* **A DOCUMENT_CHOICE that arrives after Home** is still taken
  (`session-core.c:2935`).
* **A clock that could not be started** (preferences that cannot be opened or decoded,
  `session-clock.c:103-122`) rings no alarm and refuses requests until a later
  `advance()` tries again (`session-core.c:3797-3803`); nothing sets a timer for that.
  `CheckpointTrue` speaks of a clock that has started.
* **A restarted session takes a rename that was not synchronized for durable**
  (`session-clock.c:96`): `store.inherited` excepts it from `CheckpointTrue`.
* **A wall clock set far ahead and back** leaves weekly alarms at the occurrence after
  the far date. `NothingOverdue` says that no occurrence is passed over only as long as
  the clock was not set.
* **An error alert over a wait that ends** (`fplinux-files.c:1496-1497`) is not in
  `FilesJob`: its waits end under no alert but the questions it models.

## Proofs

A module `XProofs` extends `X` and proves its theorems for every value of the
constants that `X`'s ASSUME allows. Two of them extend two components, whose
definitions therefore have names of their own (`RingInit`, `JobSpec`, …). The assumptions are that the limits are
counts (`RingAssumption`, `LimitsAssumption`, `ClientAssumption`, `ControlAssumption`,
`ChunksAssumption`, `PipeAssumption`, `PidAssumption`), that
ring positions distinguish more than three rings of frames (`RingAssumption`: a ring
has at most 2^14 frames and a position 32 bits), that pid 0 is no process
(`PidsAssumption`), that the special applications are applications
(`SessionAssumption`, `HandOffAssumption`), and in `OutputAssumption` the two inequalities that `main()` of
`audiod.c` checks before it serves and that half of the values of a position exceed
the frames mixed beyond those published (`MaxAhead`) and a period. Nothing else is assumed; the bounds on counters
(`MaxFrames`, `MaxMixed`, `IdMax`, `MaxCalls`, `MaxRuns`, `MaxForks`) are arbitrary
naturals in the proofs, and so are the bounds of every scenario of `SessionTasks`.

Facts about loops and nonempty sets come from the least-element principle of
`WellFoundedInduction`: the least counterexample is refuted with the step before it.
That is how the two loops of `SessionTasks` over all processes, written as recursive
functions, are shown to keep an invariant (`LoopExists` says that such a function
exists, the lemma after it that every round keeps the invariant).

**`AudioRing` (in `AudioClientProofs`).** `RingNeverOverrun` (`NoOverwrite`): the application decides
how much it may copy with a read position that may be arbitrarily old. `NoOverwrite`
is not inductive: after a step of audiod nothing relates the frames in flight to
the position they were counted from. `RingInv` adds the order
`loaded <= read <= mixer_read <= write = written` and that the frames fit even when
counted from `loaded`; audiod only moves the later positions, so an old position is
a safe one. Because those distances stay below `Words`, the wrapped differences the
code computes are the true ones (`ApartExact`, `RingApart`). `SleepingIsTold`
(`SleepingTold`): in `poll()` the flag is wrong only after a card that failed in the fill
after its open (`unsaid`); its invariant `SleepInv` says that it is right at every place of
a round after its store, up to that fill. `StrandedFramesHeal` (`RingHeals`) shows that
this and a suppressed KICK are the only causes of stranded frames, and that the next write
finds those of the second. Its invariant `HealInv` follows the
position `kick_read` of the last KICK: when audiod sleeps over frames it has not seen
and no KICK is unread, the write was one that had loaded `kick_read` again and held its
KICK back (`Suppressed`), while the position published since is a later one. To conclude that
the application sees the difference in 32 bits, `KickLag` bounds how far the positions
run ahead of the last KICK: an unread KICK lets audiod go through the ring twice,
and the next write through it once more, so three rings of frames and not one must fit
below `Words`. With fewer values the comparison at
`lib/fplinux/fplinux-audio-client.c:414` could take a new position for the old one;
the proof showed that the assumption had to say so.

**`AudioOutputProofs`.** `OutputInv` joins the type, the accounting of frames, that
no frames are pending when `fill()` asks the card for room, and `MarksSpaced`:
mark `i` is `i` periods older than the newest. From it: `AccountingAlways` (each
mixed frame is written, pending or dropped once), `HistoryIsEnough` (a full history
reaches back past what the card can hold; this is where the inequality on the
buffer size is used, and nonlinear arithmetic on marks and periods is kept in
lemmas of its own). `HeardIsRight`
(`HeardOK`) needs `HeardInv` besides: the read positions of the marks do not rise
towards the older ones and the newest is the stream's, so that the interpolated
position lies between its two neighbours, and the mark it is interpolated from, the
newest that was played, exists because there is a least index. `LagInv` bounds how far
the heard position lags behind the read position, so that the signed comparison modulo
`Words` is the comparison of the positions (`SignedExact`).

**`AudioStreamsProofs`.** `TypesKept`, `StreamTableKept` (`StreamTable`: slots are
owned and IDs unique), `RolesAlwaysAgree` and `ManagerAlwaysCovers` follow from one
inductive invariant, `StreamsInv`: the three parts of the type invariant,
`PeersKnown` (a connection in use has a pid the kernel reported, needed because a
free entry shares pid 0) and the properties together. They need one another. That a
HELLO admitted late cannot give a process two roles (`RolesAgree`) rests on the READY
connections having agreed with the table entry it is admitted by; that it cannot
adopt a stream rests on `StreamsOwned`; and a new ID is unused because every live ID
is at most the connection's `last_id`. Most actions only take away: `Shrinks` says
that what is READY or in use afterwards was so before, `Withdraws` the same of the
announcements, and the lemma `Shrinking` discharges those actions at once. Only an
announcement, an admitted HELLO and a successful OPEN need arguments of their own, and
`Expire` one for `ManagerCovers`: the orphans end in the step that forgets the
deadline. `AdmissionKept` (`Admission`) rests on `AdmissionInv`, which speaks of single
entries where `Admission` counts: each gone process is in one place of the ring and
in no other table, and the application slots of a process are bounded whatever its
role, since a process that becomes the clock helper has to give them up.
`TimerAlwaysCovers` (`TimerCovers`): whenever audiod blocks, the timerfd goes off no later
than the first deadline. `arm()` sets it only when the deadline is not the remembered one,
so the invariant (`Armed`) adds that what is remembered is what the timerfd has: time moves
both, and a timerfd that was read is remembered as disarmed.

**`AudioClientProofs`.** `AnswersAlwaysMatch` (`AnswersMatch`) and `StreamsAlwaysMatch`
(`StreamsMatch`). The protocol has no call numbers; the client counts the answers it
gave up on (`late`). `ClientInv` says why that is enough: the answers on their way are
those of the oldest calls that are owed one, in order, and the OPENs still unread are
those of the others (`AnswersInOrder`, `OpensInOrder`); at most an ERROR of the whole
connection may follow. For the streams, `Distinct`, `HandedOut` and `LiveAll` say that
what audiod holds is divided, without overlap, among the client's streams, the answers
under way, the CLOSE requests under way and the CLOSEs that were lost: an answer that is
dropped moves its stream from the second to the third or the fourth.

**`AudioControlProofs`.** `TablesCorrect` (`TablesAgree`) and `VolumeCorrect`
(`VolumeAgrees`), for any processes, sizes of the table and of the socket's buffer and
number of overlapping links. `TablesAgree` speaks of the moment at which nothing is left
to read; in between, audiod's table is neither the manager's old nor its new one.
`ControlInv` therefore carries what the packets under way will do: `Leads(q, t, u)` says
that there is a sequence of tables from `t` to `u`, one per packet of `q`, such that each
packet is acceptable to the table before it and makes the next one. The sequence is a
witness, as the ages are in `PtySupervisorProofs`: reading a packet drops its first table,
sending one appends a table, and nothing has to be computed by recursion over the queue.
`OwnRuns` says that the packets on the manager's own link lead from audiod's table (an
empty one while an older link is still served) to what the manager believes it has
announced, and `QueuesRun` that those on abandoned links, which end in the middle of an
announcement, are never refused either. That a full table refuses nobody rests on
`GoodManager`: the manager has at most `NProcesses` processes, at most one clock, and its
`announced` and `told` flags are true exactly while its volume is confirmed, so that a
send that fails half-way drops the connection together with every flag set on it. For the
volume, `OneVolume` counts: one VOLUME is unread, or one reply is, or none is awaited,
and a level that is called applied is audiod's `master`.

**`FilesOperation` (in `FilesProofs`).** `Implements` (`Spec => TransferSpec`) is the refinement of
`FileTransfer`; `DurableAlways`, `NothingIsLost` and `NothingIsReplaced` are the other
properties of the run. None of them is inductive alone. The invariant has five
parts: `StepInv` ties the place in the code to `step`; `DoneInv` says what each
step has done that the later ones rely on, retries included; `DiskInv` says what may
be seen and what may be on the disk (`Held`, the same predicate for both), and that the
disk is never ahead of what is seen; `DurableInv` what the result has called durable;
`OthersInv` what other processes did and which temporary file is left. The key fact is
in `Held`: a source that is gone in a move over two devices has a destination whose
*name* is on the disk and whose *data* were synchronized before it was published. For
the refinement, `PlacesAre` expresses the abstract places by the two names on the disk,
and `FlushTransfers` shows that a device that is written back makes one of
`FileTransfer`'s steps; every other action leaves the places alone.

**`FilesJob` (in `FilesProofs`).** `JobIsAccounted` (`JobAccounted`) and `ChangeIsShown`
(`ChangeShown`). The properties speak of the states between callbacks; `JobInv` says
the same within `collect()`, between the drain of the pipe and the look at the status,
and adds that an active job always has a wait of its own (`ActiveWaits`) and that a
storage answer is awaited in one wait for one reason (`StorageWaits`): without that, the
answer of the storage could end the wait of a job that still runs. That a full pipe drops a byte is harmless because of `WakePending`.

**`SessionTasksProofs`.** `RegistryIsOK` (`RegistryOK`), `LaunchIsOwned`
(`LaunchHasOwner`) and `DocumentIsOK` (`DocumentOK`), for any number of applications
and of task records, any handlers, covers and scenario. The C functions are operators
on a session, so nearly every lemma says that one of them keeps `SessionInv`; an action
composes them. The invariant has five parts, and they need one another:

* `Registry`: besides the property, that tokens tell the registered processes apart, and
  that only a process that has said HELLO was ever shown;
* `Launching` and `Parked`: a pending application is the launch's own and the
  application before it is on its way out; once it was started the launch is the
  selected process's. Without `Parked` a launch could find its predecessor still
  in the foreground after it replaced it;
* `DocumentNames`: whom a document names, and what the launch that carries it has told
  it. It leaves room for one corner: a handler that is closing may still say HELLO and
  take a document that waits for its successor; such a process is the only one a
  document with a pending application may name, and its reap gives the document back;
* `Accounted`: the launch carries the document (`Carried`) or it is settled
  (`Settled`). Each function may end one only after the other holds, which is where
  the order of the calls in the code matters: `document_launch_result()` precedes
  `cancel_launch()`, and `reap_process()` settles documents before it clears the
  record.

Most functions leave most of a session alone. `Kept` (processes keep their identity)
and `Still` (a document cannot tell the difference) discharge those at once.

**`SessionHandOffProofs`.** `AnswersMeanDrawn` (`AnswerMeansDrawn`), for any
applications, size of the launcher's socket and scenario. The launcher reads ACTIVE,
draws, commits and answers in four places, a newer ACTIVE may be sent at each of them,
and its process may be replaced. `HandOffInv` follows the newest ACTIVE through them:
`NewestLast` says that it is the last message in the socket, or on the canvas with nothing
unread behind it; `AnswersTrue` that a commit under way or an answer with the newest
serial means that it is on the surface and nothing can overwrite it, so that the
acknowledgement is true when it is taken and stays true until the next ACTIVE.
`LauncherOK` says that what a launcher was told is gone with its process, which is why an
answer that an earlier launcher owed cannot arrive. `SameTold` discharges the steps that
do not concern the launcher. `reap_process()` for all ended applications is written
without a fold (`ReapedApps`), which equals the sequence of calls because only the
application in front is part of ACTIVE.

The action property `SwapsAreClean` (`CleanSwap`) needs one more fact, that hand_off() is
asked about the application that the launcher was told of. `Named` says so: after every
step the newest ACTIVE names the application that `app_announced()` names now, which
holds because every operation that may change the answer ends in `send_active()`. That
function drops what a full socket refuses: then `refused` is set, which the property
excepts; within a step, an ACTIVE that was refused still finds the socket full when it is
tried again (`Stuck`), so that the flag after the step tells of the refusal in it. From there on: every
function that `advance()` calls before `hand_off()` is `Steady` (it shows nothing, parks
nothing that was leaving, lets go of no scene, and expires no timer), so that the swap judges the surface that was there when the step
began; `Swaps` says what `hand_off()` and `settle_held_scene()` have waited for; and
`HandOffInv` turns the answer they waited for into what is on the surface.

**`PtySupervisorProofs`.** `SessionIsGone` (`SessionGone`): why may the sweep stop after a
walk that met nobody, although processes fork behind it? `SweepInv` rests on the shape of
the process table: processes form a forest (`Forest`: parents live and are older than
their children), so that if anybody exists, somebody is a child of the supervisor
(`ForestRoot`, by well-founded induction on age). In the counting walk nobody reaps the
supervisor's children, a new orphan only adds one, and a fork adds none: as long as
somebody exists, one of the supervisor's children is *ahead* of a walk that has met
nobody. The age of a process is not part of the model; it is a witness that every step
renews. The exceptions are the cases in which the property is false: a walk that counted
without /proc, and a job that left the session. `StatusIsKept` (`StatusKept`): until the
status is known the shell is the supervisor's own child and cannot be reaped by others, and
a counting walk that could look has met it, so that the sweep goes on until the reap finds
it (`StatusInv`). Its ID is given away only to a child of somebody who outlived it, and
nobody does without having left the session. `ReportInv` follows the status through
FINISHED to the terminal.

## Only model-checked

Liveness (`HelloAnswered`, `FramesTaken`, `EventuallySettled`, `WaitEnds`, `Leaves`,
`Finishes`, `OperationEnds`, `SwapEnds`) under fairness is beyond the proof system. On
small instances only: `ClockModel` (`RemindersKept`, `CheckpointTrue`). It is built on folds over
sorted sequences of events (`TickAlarms`, `TickSnoozes`, as the loops of
`clock_model_tick()` are), and what a fold computes for every input is an induction over
data that no installed prover can do; it would first have to say one event at a time
what a tick does.

## Not modelled, and the plan

In this order:

1. Session storage (`session-storage.c`): the worker process for removable media, with
   requests, timeouts and a retry; it is the other end of `FilesJob`'s storage request.
2. A composition of `AudioControl` with the table and connections of
   `AudioStreams`, with `AudioControl`'s table as a refinement of
   `AudioStreams`' process table; and `SessionTasks` as the caller of `AudioControl`.
3. Session power and wake (`session-power.c`): display and suspend timers against keys,
   covers and the clock's deadlines.
4. The CM4 mailbox: byte rings shared with a firmware that is not in the repository and
   whose side has to be assumed.
5. Parts of `session-core.c` still left out: settings, wireless, notices, key routing,
   and the scenes of REDRAW and PREPARE_CLOSE.
6. Proofs about `ClockModel`, with a tick of one event per step.

Left out for good: drawing and layout (`lib/fplinux/fplinux-ui*.c`) and screens, which
are most of the repository's lines and hold no state that two parties share; wire
formats of the UI; register-level drivers whose difficulty is in undocumented
hardware; BlueZ and D-Bus clients; vendored code; the boot chain's one-shot
download; build and host tools.
