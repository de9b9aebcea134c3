------------------------------ MODULE AudioRing ------------------------------
(***************************************************************************)
(* One stream's shared ring: the application's writes                       *)
(* (lib/fplinux/fplinux-audio-client.c) against audiod's round, which mixes *)
(* the ring while the card is open and sleeps while it is not               *)
(* (advance() and fill() of audiod.c, update() and refresh() of             *)
(* audio-streams.c).                                                        *)
(*                                                                         *)
(* Every load and store of the ring header is a step of its own: these are  *)
(* the points where the two processes interleave.  Positions count frames   *)
(* without end; the code keeps them modulo Words and only ever subtracts    *)
(* and compares them so (Apart).  The application stops at MaxFrames.       *)
(***************************************************************************)
EXTENDS Integers

CONSTANTS
    Capacity,         \* frames in the ring
    Words,            \* 2^32, the values of a position
    Period,           \* frames of the stream that a period takes
    BufferPeriods,    \* periods the card takes at most in one fill
    IdleTicks,        \* IDLE_MS in ticks
    RetryTicks,       \* RETRY_MS in ticks
    MaxFrames         \* bound: frames the application writes

\* A ring has at most FPLINUX_AUDIO_RING_FRAMES_MAX = 2^14 frames.
ASSUME RingAssumption ==
    /\ {Capacity, Period, BufferPeriods, IdleTicks, RetryTicks} \subseteq Nat \ {0}
    /\ Words \in Nat /\ Words > 3 * Capacity
    /\ MaxFrames \in Nat

VARIABLES
    \* struct fplinux_audio_ring
    write, read, sleeping,
    \* the application: its place in fplinux_audio_stream_write, the read it
    \* loaded, the frames it takes, and the fields of its stream
    app, loaded, taken, written, kicked, kick_read,
    withheld, \* history: the last write held its KICK back for a read position
              \* that audiod had moved since the write loaded it
    kicks,    \* KICKs in the socket (more than one is one wake-up)
    \* audiod: its place in serve(), the policy and the output
    daemon, audible, output, mixer_read, wanted,
    room,     \* periods the card still takes in this fill
    ready,    \* the card woke this round
    idle,     \* ticks until IDLE_MS of silence
    retry,    \* ticks until retry_ms
    unsaid,   \* history: the card failed in the fill that followed its open,
              \* after the last refresh of the round
    busy      \* another program holds the card

ring == <<write, read, sleeping>>
application == <<app, loaded, taken, written, kicked, kick_read, withheld>>
service == <<daemon, audible, output, mixer_read, wanted, room, ready, idle, retry, unsaid>>
ringVars == <<ring, application, kicks, service, busy>>

-----------------------------------------------------------------------------
(* The application: fplinux_audio_stream_write. *)

Least(a, b) == IF a < b THEN a ELSE b

\* a - b for positions of 32 bits.
Apart(a, b) == (a - b) % Words

\* Frames that fit behind position r: Capacity less the used ones.
RoomAndOne(r) == Capacity + 1 - Apart(written, r)
Room(r) == IF Apart(written, r) >= Capacity THEN 0 ELSE Capacity - Apart(written, r)

\* Loads read and decides how many of `count' frames fit.
LoadRead(count) ==
    /\ app = "idle"
    /\ written + count <= MaxFrames
    /\ loaded' = read
    /\ taken' = Least(Room(read), count)
    /\ app' = IF Room(read) = 0 THEN "idle" ELSE "store"
    /\ UNCHANGED <<ring, written, kicked, kick_read, withheld, kicks, service, busy>>

\* The frames are copied and published.
StoreWrite ==
    /\ app = "store"
    /\ written' = written + taken
    /\ write' = written + taken
    /\ app' = "check"
    /\ UNCHANGED <<read, sleeping, loaded, taken, kicked, kick_read, withheld, kicks, service,
                   busy>>

\* Loads sleeping: a KICK goes out unless one did for the same read position.
SameRead == kicked /\ Apart(loaded, kick_read) = 0
LoadSleepingOnce ==
    /\ app = "check"
    /\ app' = IF sleeping /\ ~kicked THEN "kick" ELSE "idle"
    /\ withheld' = (sleeping /\ SameRead /\ loaded # read)
    /\ UNCHANGED <<ring, loaded, taken, written, kicked, kick_read, kicks, service, busy>>
LoadSleepingNever ==
    /\ app = "check"
    /\ app' = "idle"
    /\ withheld' = FALSE
    /\ UNCHANGED <<ring, loaded, taken, written, kicked, kick_read, kicks, service, busy>>
LoadSleeping ==
    /\ app = "check"
    /\ kicked' = (kicked /\ sleeping)
    /\ app' = IF sleeping /\ ~SameRead THEN "kick" ELSE "idle"
    /\ withheld' = (sleeping /\ SameRead /\ loaded # read)
    /\ UNCHANGED <<ring, loaded, taken, written, kick_read, kicks, service, busy>>

\* A full socket loses the KICK; the next write that adds frames tries again.
SendKick(sent) ==
    /\ app = "kick"
    /\ sent \/ kicks > 0
    /\ IF sent THEN kicked' = TRUE /\ kick_read' = loaded /\ kicks' = 1
       ELSE UNCHANGED <<kicked, kick_read, kicks>>
    /\ app' = "idle"
    /\ UNCHANGED <<ring, loaded, taken, written, withheld, service, busy>>

-----------------------------------------------------------------------------
(* audiod: a round of serve(). *)

\* The deadlines arm() keeps: the end of the silence while the card is open,
\* the next try while a stream waits for the card.
TimerDue ==
    \/ output = "OPEN" /\ idle = 0
    \/ output = "UNAVAILABLE" /\ wanted /\ retry = 0

\* poll() returns: a KICK, the timer, the card, a command of the manager, or
\* anything of another connection.
Wake(card, policy) ==
    /\ daemon = "poll"
    /\ card => output = "OPEN"
    /\ kicks' = 0
    /\ audible' = policy
    /\ ready' = card
    /\ daemon' = "policy"
    /\ UNCHANGED <<ring, application, output, mixer_read, wanted, room, idle, retry, unsaid, busy>>

\* update(): sleeping while the stream is paused or the card is not open.
Asleep == ~audible \/ output # "OPEN"

\* The first refresh of advance(), whose result is not used.  A fill takes no
\* period when the card has no room, a write is short or an underrun ends it.
RefreshPolicy ==
    /\ daemon = "policy"
    /\ sleeping' = Asleep
    /\ IF output = "OPEN" /\ ready
       THEN daemon' = "fill" /\ room' \in 0 .. BufferPeriods
       ELSE daemon' = "silence" /\ UNCHANGED room
    /\ unsaid' = FALSE
    /\ UNCHANGED <<write, read, application, kicks, audible, output, mixer_read, wanted,
                   ready, idle, retry, busy>>

\* fill() mixes a period: write is loaded once, and the silence starts again
\* when the stream played frames.
Mix ==
    /\ daemon \in {"fill", "refill"}
    /\ room > 0
    /\ room' = room - 1
    /\ LET made == IF audible THEN Least(Apart(write, mixer_read), Period) ELSE 0 IN
       /\ mixer_read' = mixer_read + made
       /\ idle' = IF made > 0 THEN IdleTicks ELSE idle
    /\ UNCHANGED <<ring, application, kicks, daemon, audible, output, wanted, ready, retry, unsaid, busy>>

\* The card is full: fill() publishes the read position.
FillDone ==
    /\ daemon \in {"fill", "refill"}
    /\ room = 0
    /\ read' = mixer_read
    /\ daemon' = IF daemon = "fill" THEN "silence" ELSE "poll"
    /\ UNCHANGED <<write, sleeping, application, kicks, audible, output, mixer_read, wanted,
                   room, ready, idle, retry, unsaid, busy>>

\* recover() fails: close_device() publishes, and the card is unavailable.  The
\* fill after an open is the last call of advance(): no refresh follows it.
CardFails ==
    /\ daemon \in {"fill", "refill"}
    /\ read' = mixer_read
    /\ output' = "UNAVAILABLE"
    /\ retry' = RetryTicks
    /\ room' = 0
    /\ daemon' = IF daemon = "fill" THEN "silence" ELSE "poll"
    /\ unsaid' = (daemon = "refill")
    /\ UNCHANGED <<write, sleeping, application, kicks, audible, mixer_read, wanted, ready,
                   idle, busy>>

\* The card closes after IDLE_MS of silence; then the rings are looked at.
Silence ==
    /\ daemon = "silence"
    /\ IF output = "OPEN" /\ idle = 0
       THEN output' = "CLOSED" /\ read' = mixer_read
       ELSE UNCHANGED <<output, read>>
    /\ daemon' = "refresh"
    /\ UNCHANGED <<write, sleeping, application, kicks, audible, mixer_read, wanted, room, ready,
                   idle, retry, unsaid, busy>>

\* refresh(): sleeping is stored, then write is loaded again.
StoreSleepingFirst ==
    /\ daemon \in {"refresh", "reopened"}
    /\ sleeping' = IF daemon = "refresh" THEN Asleep ELSE sleeping
    /\ daemon' = IF daemon = "refresh" THEN "look" ELSE "lookagain"
    /\ UNCHANGED <<write, read, application, kicks, audible, output, mixer_read, wanted, room,
                   ready, idle, retry, unsaid, busy>>
StoreSleeping ==
    /\ daemon \in {"refresh", "reopened"}
    /\ sleeping' = Asleep
    /\ daemon' = IF daemon = "refresh" THEN "look" ELSE "lookagain"
    /\ UNCHANGED <<write, read, application, kicks, audible, output, mixer_read, wanted, room,
                   ready, idle, retry, unsaid, busy>>

\* A stream that may play and has frames needs the card.
Waits == audible /\ output # "OPEN" /\ Apart(write, mixer_read) # 0

LoadWrite ==
    /\ daemon = "look"
    /\ wanted' = Waits
    /\ daemon' = IF Waits /\ ~(output = "UNAVAILABLE" /\ retry > 0) THEN "open" ELSE "poll"
    /\ UNCHANGED <<ring, application, kicks, audible, output, mixer_read, room, ready, idle,
                   retry, unsaid, busy>>

OpenDevice ==
    /\ daemon = "open"
    /\ IF busy
       THEN output' = "UNAVAILABLE" /\ retry' = RetryTicks /\ UNCHANGED idle
       ELSE output' = "OPEN" /\ idle' = IdleTicks /\ UNCHANGED retry
    /\ daemon' = "reopened"
    /\ UNCHANGED <<ring, application, kicks, audible, mixer_read, wanted, room, ready, unsaid, busy>>

\* The last refresh of advance(): its result is what the timer is armed by.
LoadWriteAgain ==
    /\ daemon = "lookagain"
    /\ wanted' = Waits
    /\ IF output = "OPEN"
       THEN daemon' = "refill" /\ room' \in 0 .. BufferPeriods
       ELSE daemon' = "poll" /\ UNCHANGED room
    /\ UNCHANGED <<ring, application, kicks, audible, output, mixer_read, ready, idle, retry, unsaid, busy>>

Down(t) == IF t > 0 THEN t - 1 ELSE 0
Tick ==
    /\ daemon = "poll"
    /\ idle' = Down(idle)
    /\ retry' = Down(retry)
    /\ UNCHANGED <<ring, application, kicks, daemon, audible, output, mixer_read, wanted, room,
                   ready, unsaid, busy>>

\* FM radio or a root tool takes or releases the card.
TakeCard ==
    /\ output # "OPEN"
    /\ busy' = ~busy
    /\ UNCHANGED <<ring, application, kicks, service>>

-----------------------------------------------------------------------------
(* The specification. *)

\* open_stream: an empty ring, to which update() has given its state.
RingInit ==
    /\ write = 0 /\ read = 0 /\ sleeping = TRUE
    /\ app = "idle" /\ loaded = 0 /\ taken = 0 /\ written = 0
    /\ kicked = FALSE /\ kick_read = 0 /\ withheld = FALSE /\ kicks = 0
    /\ daemon = "poll" /\ audible \in BOOLEAN /\ output = "CLOSED"
    /\ mixer_read = 0 /\ wanted = FALSE /\ room = 0 /\ ready = FALSE
    /\ idle = 0 /\ retry = 0 /\ unsaid = FALSE
    /\ busy \in BOOLEAN

AppStep == StoreWrite \/ LoadSleeping \/ SendKick(TRUE)

Round ==
    \/ RefreshPolicy \/ Mix \/ FillDone \/ Silence \/ StoreSleeping \/ LoadWrite
    \/ OpenDevice \/ LoadWriteAgain

RingNext ==
    \/ \E count \in 1 .. Capacity : LoadRead(count)
    \/ AppStep
    \/ SendKick(FALSE)
    \/ \E card, policy \in BOOLEAN : Wake(card, policy)
    \/ Round
    \/ CardFails
    \/ Tick
    \/ TakeCard

RingSpec == RingInit /\ [][RingNext]_ringVars

\* Both processes run; an expired timer, a KICK and an open card that wants a
\* period each end poll(); time passes.
WakeDue == (kicks > 0 \/ TimerDue) /\ Wake(FALSE, audible)
WakeCard == Wake(TRUE, audible)
Fairness ==
    /\ WF_ringVars(AppStep)
    /\ WF_ringVars(Round)
    /\ WF_ringVars(WakeDue)
    /\ SF_ringVars(WakeCard)
    /\ SF_ringVars(Tick)

FairSpec == RingSpec /\ Fairness

-----------------------------------------------------------------------------
(* Properties. *)

\* The ring, the client's stream and audiod's round keep their types.
RingTypeOK ==
    /\ write \in Nat /\ read \in Nat /\ sleeping \in BOOLEAN
    /\ app \in {"idle", "store", "check", "kick"}
    /\ loaded \in Nat /\ taken \in Nat /\ written \in Nat
    /\ kicked \in BOOLEAN /\ kick_read \in Nat /\ withheld \in BOOLEAN /\ kicks \in 0 .. 1
    /\ daemon \in {"poll", "policy", "fill", "silence", "refresh", "look", "open",
                   "reopened", "lookagain", "refill"}
    /\ audible \in BOOLEAN /\ output \in {"CLOSED", "OPEN", "UNAVAILABLE"}
    /\ mixer_read \in Nat /\ wanted \in BOOLEAN /\ room \in 0 .. BufferPeriods
    /\ ready \in BOOLEAN /\ idle \in 0 .. IdleTicks /\ retry \in 0 .. RetryTicks
    /\ unsaid \in BOOLEAN /\ busy \in BOOLEAN

\* audiod never finds more than Capacity frames in an honest application's
\* ring, which would end the stream, and the frames being copied never
\* overwrite one that audiod has still to read.  The differences of 32 bits
\* that both decide by are the true ones, also after a position wrapped.
NoOverwrite ==
    /\ mixer_read <= write
    /\ write - mixer_read <= Capacity
    /\ Apart(write, mixer_read) = write - mixer_read
    /\ Apart(written, read) = written - read
    /\ app = "store" => written + taken - mixer_read <= Capacity

\* Whenever audiod blocks in poll(), the ring's sleeping flag says whether
\* audiod looks at the ring every period, so that an application which reads 0
\* may rely on its frames being taken without a KICK; the one exception is a
\* card that failed in the fill that followed its open.
SleepingTold ==
    daemon = "poll" => sleeping = Asleep \/ unsaid

\* What the protocol says of the flag, without the exception: nonzero while
\* audiod does not look at the ring every period.
SleepingExact ==
    daemon = "poll" => sleeping = Asleep

\* Nobody will wake for the frames in the ring: the application has returned
\* from its write, audiod is blocked without the card, and neither a KICK nor
\* the retry timer is on its way.
Stranded ==
    /\ daemon = "poll" /\ app = "idle"
    /\ audible /\ write # mixer_read /\ output # "OPEN"
    /\ kicks = 0
    /\ ~(output = "UNAVAILABLE" /\ wanted)

\* The hand-off the protocol promises: the application stores write and then
\* loads sleeping, audiod stores sleeping and then loads write, so that one of
\* them sees the other and no frames are stranded while the flag is right.
HandOff == sleeping /\ ~unsaid => ~Stranded

\* The frames a suppressed KICK stranded are not lost for a stream that goes
\* on: the ring has room, and the next write that adds frames sends a KICK.
NextWriteKicks ==
    /\ sleeping
    /\ written - read < Capacity
    /\ ~kicked \/ Apart(read, kick_read) # 0

\* Only two things strand frames: the card failing in the fill that followed
\* its open, and a KICK held back for a read position that audiod had already
\* moved; the second heals with the next write.
StrandedHeals == Stranded => unsaid \/ (withheld /\ NextWriteKicks)

\* The state is well formed, and stranded frames have one of the two causes.
RingHeals == RingTypeOK /\ StrandedHeals

\* With the card free and working (if it keeps being open, it keeps taking
\* periods) and the application audible from some time on, frames written are
\* taken, unless one of the two causes stops them: no other order of the two
\* processes' loads and stores stops the sound.
CardWorks == <>[][~CardFails]_ringVars /\ ([]<>(output = "OPEN") => []<>(room > 0))
FramesTaken ==
    (<>[]~busy /\ <>[]audible /\ CardWorks) =>
        (write # mixer_read ~> (write = mixer_read \/ (Stranded /\ (withheld \/ unsaid))))
=============================================================================
