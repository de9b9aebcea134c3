----------------------------- MODULE AudioOutput -----------------------------
(***************************************************************************)
(* audiod's output: the periods it mixes, what of them the card has taken,  *)
(* and the `heard' position it derives for a stream (fill(), recover() and  *)
(* close_device() of audiod.c, audio-device.c, and the marks of             *)
(* audio-mixer.c).                                                          *)
(*                                                                         *)
(* The card is external: it holds up to Buffer frames and plays them while  *)
(* audiod runs.  One stream comes and goes; a period takes any number of    *)
(* its frames up to Period, as its rate and its ring allow.  Positions are *)
(* kept whole, and compared as the code does, by the sign of their          *)
(* difference modulo Words.                                                 *)
(***************************************************************************)
EXTENDS Integers

CONSTANTS
    Period,     \* frames in a period
    Buffer,     \* frames the card holds
    History,    \* FPLINUX_AUDIO_MIXER_HISTORY
    Words,      \* 2^32: a stream's positions are kept modulo this
    MaxAhead,   \* bound: output frames mixed beyond what was published
    MaxMixed    \* bound: output frames mixed

\* main() refuses other buffer sizes: 2 to History - 2 periods.  MaxAhead leaves
\* fill() a full card and a period more to mix, and is far below half of the words.
ASSUME OutputAssumption ==
    /\ Period \in Nat \ {0}
    /\ Buffer \in Nat
    /\ History \in Nat
    /\ 2 * Period <= Buffer
    /\ Buffer <= (History - 2) * Period
    /\ MaxMixed \in Nat
    /\ MaxAhead \in Nat /\ Buffer + 2 * Period <= MaxAhead
    /\ Words \in Nat /\ 2 * (MaxAhead + Period) < Words

Marks == 0 .. History - 1

VARIABLES
    fill,      \* the place in fill(), or "poll"
    output,    \* "CLOSED", "OPEN" or "UNAVAILABLE"
    mixed,     \* output frames mixed since the service started
    written,   \* output frames written or dropped
    pending,   \* mixed frames not yet written
    delay,     \* frames the card holds
    played,    \* the greatest output position published so far
    stream,    \* the stream exists
    read,      \* its read position
    heard,     \* its heard position
    count,     \* its marks in use
    marks      \* [Marks -> mark], the newest at 0: read after each period

card == <<output, mixed, written, pending, delay>>
position == <<stream, read, heard, count, marks>>
outputVars == <<fill, card, played, position>>

-----------------------------------------------------------------------------
(* The marks of audio-mixer.c. *)

Mark(at, frames) == [output |-> at, read |-> frames]

\* remember(): the newest mark takes the place of the oldest.
Remembered(mark) == [i \in Marks |-> IF i = 0 THEN mark ELSE marks[i - 1]]

MoreMarks == IF count < History THEN count + 1 ELSE count

\* The newest mark that has left the output.
IsHeardMark(i, at) ==
    /\ i < count /\ marks[i].output <= at
    /\ \A j \in Marks : j < i => at < marks[j].output

\* Between two marks the read position is interpolated linearly.
InterpolatedAhead(i, at) == IF i = 0 THEN marks[0].read ELSE marks[i - 1].read
Interpolated(i, at) ==
    IF i = 0 THEN marks[0].read
    ELSE marks[i].read +
         ((marks[i - 1].read - marks[i].read) * (at - marks[i].output))
            \div (marks[i - 1].output - marks[i].output)

\* (int32_t)(a - b) > 0.
Later(a, b) == LET ahead == (a - b) % Words IN ahead > 0 /\ 2 * ahead < Words

\* fplinux_audio_mixer_heard: a position behind the one told is not taken.
HeardAt(at) ==
    IF \E i \in Marks : IsHeardMark(i, at)
    THEN LET position_heard == Interpolated(CHOOSE i \in Marks : IsHeardMark(i, at), at)
         IN IF Later(position_heard, heard) THEN position_heard ELSE heard
    ELSE heard

\* fplinux_audio_streams_publish.
publish(at) ==
    /\ heard' = IF stream THEN HeardAt(at) ELSE heard
    /\ played' = IF at > played THEN at ELSE played

-----------------------------------------------------------------------------
(* The card and fill(). *)

\* close_device: what the card held and what was not written is dropped.
close_device ==
    /\ written' = mixed
    /\ pending' = 0
    /\ delay' = 0
    /\ publish(mixed)

\* fill() first writes what an earlier fill left pending.
FillingAnew == "avail"
Filling == IF pending > 0 THEN "write" ELSE "avail"

\* fplinux_audio_device_open.
OpenDevice ==
    /\ fill = "poll" /\ output # "OPEN"
    /\ output' = "OPEN"
    /\ fill' = Filling
    /\ UNCHANGED <<mixed, written, pending, delay, played, position>>

CardReady ==
    /\ fill = "poll" /\ output = "OPEN"
    /\ fill' = Filling
    /\ UNCHANGED <<card, played, position>>

\* fplinux_audio_device_write: the card takes some of the frames; a short
\* write (or none, EAGAIN) ends the loop.
Write(frames) ==
    /\ fill = "write"
    /\ frames <= pending /\ delay + frames <= Buffer
    /\ pending' = pending - frames
    /\ written' = written + frames
    /\ delay' = delay + frames
    /\ fill' = IF pending - frames > 0 THEN "publish" ELSE "avail"
    /\ UNCHANGED <<output, mixed, played, position>>

NoRoom ==
    /\ fill = "avail"
    /\ Buffer - delay < Period
    /\ fill' = "publish"
    /\ UNCHANGED <<card, played, position>>

\* fplinux_audio_streams_mix: every stream is marked, whether it played or not.
Mix(frames) ==
    /\ fill = "avail"
    /\ Buffer - delay >= Period
    /\ mixed + Period <= MaxMixed /\ mixed + Period <= played + MaxAhead
    /\ mixed' = mixed + Period
    /\ pending' = Period
    /\ IF stream
       THEN /\ read' = read + frames
            /\ marks' = Remembered(Mark(mixed + Period, read + frames))
            /\ count' = MoreMarks
       ELSE UNCHANGED <<read, marks, count>>
    /\ fill' = "write"
    /\ UNCHANGED <<output, written, delay, played, stream, heard>>

\* An underrun: the card is prepared again and has lost what it held.  The
\* pending frames are kept.
UnderrunDrops ==
    /\ fill \in {"write", "avail"}
    /\ delay' = 0 /\ pending' = 0
    /\ fill' = "publish"
    /\ UNCHANGED <<output, mixed, written, played, position>>
Underrun ==
    /\ fill \in {"write", "avail"}
    /\ delay' = 0
    /\ fill' = "publish"
    /\ UNCHANGED <<output, mixed, written, pending, played, position>>

\* recover() could not prepare the card.
CardFails ==
    /\ fill \in {"write", "avail"}
    /\ close_device
    /\ output' = "UNAVAILABLE"
    /\ fill' = "poll"
    /\ UNCHANGED <<mixed, stream, read, count, marks>>

\* fplinux_audio_device_played: a card that cannot tell its delay has played
\* everything.
PlayedWith(reported) == IF reported > written THEN 0 ELSE written - reported

Publish(reported) ==
    /\ fill = "publish"
    /\ publish(PlayedWith(reported))
    /\ fill' = "poll"
    /\ UNCHANGED <<card, stream, read, count, marks>>

\* advance() after IDLE_MS of silence.
CloseIdle ==
    /\ fill = "poll" /\ output = "OPEN"
    /\ close_device
    /\ output' = "CLOSED"
    /\ UNCHANGED <<fill, mixed, stream, read, count, marks>>

\* The card plays (external).
Play(frames) ==
    /\ output = "OPEN"
    /\ frames <= delay
    /\ delay' = delay - frames
    /\ UNCHANGED <<fill, output, mixed, written, pending, played, position>>

-----------------------------------------------------------------------------
(* The stream. *)

\* open_stream: fplinux_audio_mixer_stream_init at the output counter.
StreamOpen ==
    /\ fill = "poll" /\ ~stream
    /\ stream' = TRUE
    /\ read' = 0 /\ heard' = 0
    /\ marks' = [marks EXCEPT ![0] = Mark(mixed, 0)]
    /\ count' = 1
    /\ UNCHANGED <<fill, card, played>>

\* CLOSE, a hang-up or the policy between rounds, or a write counter that is
\* too far ahead, which the mixer finds.
StreamEnd ==
    /\ fill \in {"poll", "write"} /\ stream
    /\ stream' = FALSE
    /\ UNCHANGED <<fill, card, played, read, heard, count, marks>>

-----------------------------------------------------------------------------
OutputInit ==
    /\ fill = "poll" /\ output = "CLOSED"
    /\ mixed = 0 /\ written = 0 /\ pending = 0 /\ delay = 0 /\ played = 0
    /\ stream = FALSE /\ read = 0 /\ heard = 0 /\ count = 0
    /\ marks = [i \in Marks |-> Mark(0, 0)]

OutputNext ==
    \/ OpenDevice \/ CardReady \/ NoRoom \/ Underrun \/ CardFails \/ CloseIdle
    \/ \E frames \in 0 .. Period : Write(frames) \/ Mix(frames)
    \/ \E reported \in {0, delay} : Publish(reported)
    \/ \E frames \in 1 .. Buffer : Play(frames)
    \/ StreamOpen \/ StreamEnd

OutputSpec == OutputInit /\ [][OutputNext]_outputVars

-----------------------------------------------------------------------------
(* Properties. *)

\* The output's and the stream's fields keep their types; the marks stay in bounds.
OutputTypeOK ==
    /\ fill \in {"poll", "write", "avail", "publish"}
    /\ output \in {"CLOSED", "OPEN", "UNAVAILABLE"}
    /\ mixed \in Nat /\ written \in Nat /\ played \in Nat
    /\ pending \in 0 .. Period
    /\ delay \in 0 .. Buffer
    /\ stream \in BOOLEAN /\ read \in Nat /\ heard \in Nat
    /\ count \in 0 .. History
    /\ marks \in [Marks -> [output : Nat, read : Nat]]

\* Every output frame mixed is written, pending or dropped exactly once: the
\* write pointer into the period buffer and the played position stay right
\* over short writes, underruns, failures and releases of the card.
Accounting ==
    /\ written + pending = mixed
    /\ delay <= written
    /\ output # "OPEN" => pending = 0 /\ delay = 0 /\ fill = "poll"

\* The marks are long enough for the buffer: when audiod publishes, the oldest
\* one it keeps has left the output, so `heard' never gets stuck.
HistorySuffices ==
    stream /\ fill = "publish" /\ count = History =>
        marks[History - 1].output <= written - delay

\* The heard position never passes the read position, covers every period that
\* has left the output, and claims no frame of a period after the one that is
\* playing.
HeardRight ==
    stream =>
        /\ heard <= read
        /\ \A i \in Marks : i < count =>
             /\ marks[i].output <= played => marks[i].read <= heard
             /\ marks[i].output >= played => heard <= marks[i].read

\* The types above, and the heard position is right at every step.
HeardOK == OutputTypeOK /\ HeardRight
=============================================================================
