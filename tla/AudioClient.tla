----------------------------- MODULE AudioClient -----------------------------
(***************************************************************************)
(* The audio client's stream connection                                    *)
(* (lib/fplinux/fplinux-audio-client.c: open, close, dispatch) against      *)
(* audiod's handling of one connection (handle() of audio-streams.c).       *)
(*                                                                         *)
(* An OPEN is answered in order, but the client waits for an answer only    *)
(* FPLINUX_AUDIO_OPEN_TIMEOUT_MS, and a HELLO may wait longer than that for *)
(* its process to be announced.  Each OPEN carries the number of the call   *)
(* that sent it, which the code does not have: it says which answer belongs *)
(* to which call.                                                          *)
(***************************************************************************)
EXTENDS Integers, FiniteSets, Sequences

CONSTANTS
    ClientStreams,  \* FPLINUX_AUDIO_CLIENT_STREAMS
    MaxCalls        \* bound: calls of fplinux_audio_stream_open

ASSUME ClientAssumption == ClientStreams \in Nat \ {0} /\ MaxCalls \in Nat

Slots == 1 .. ClientStreams

VARIABLES
    \* struct fplinux_audio_client and the call in progress
    link,      \* "none", "up", or "cut": audiod closed it, the client has not noticed
    late,      \* answers of timed-out OPENs still to come
    slots,     \* [Slots -> stream]
    waiting,   \* fplinux_audio_stream_open waits for an answer
    fresh,     \* its connection was made by this call
    call,      \* the number of the latest call
    adopted,   \* [Slots -> call]: the call whose answer each stream came from
    \* the socket
    requests,  \* client to audiod
    answers,   \* audiod to client
    \* audiod's connection
    state,     \* "NEW", "WAITING" or "READY"
    last_id,
    live,      \* IDs of the streams audiod holds for the connection
    lost       \* history: IDs whose CLOSE this connection's full socket refused

client == <<late, slots, waiting, fresh, call, adopted>>
server == <<state, last_id, live>>
vars == <<link, client, requests, answers, server, lost>>

-----------------------------------------------------------------------------
(* Data *)

NoStream == [used |-> FALSE, ended |-> FALSE, id |-> 0]
Stream(id) == [used |-> TRUE, ended |-> FALSE, id |-> id]
HELLO == [type |-> "HELLO", of |-> 0]
OPEN(n) == [type |-> "OPEN", of |-> n]
CLOSE(id) == [type |-> "CLOSE", of |-> id]
OPENED(n, id) == [type |-> "OPENED", of |-> n, id |-> id]
ERROR(n) == [type |-> "ERROR", of |-> n, id |-> 0]

FirstFree(s) == ~slots[s].used /\ \A t \in Slots : t < s => slots[t].used

\* send_message() of CLOSE: the packet reaches audiod only while it holds the
\* other end, and a full socket (also of the KICKs that AudioRing models) refuses
\* it, which nobody notices.
SendClose(id, sent) ==
    /\ requests' = IF link = "up" /\ sent THEN Append(requests, CLOSE(id)) ELSE requests
    /\ lost' = IF link = "up" /\ ~sent THEN lost \cup {id} ELSE lost

\* hang_up(): every stream of the client ends.
Ended == [s \in Slots |-> [slots[s] EXCEPT !.ended = slots[s].used]]
HangUp ==
    /\ link' = "none"
    /\ late' = 0
    /\ slots' = Ended
    /\ requests' = <<>> /\ answers' = <<>>
    /\ state' = "NEW" /\ last_id' = 0 /\ live' = {} /\ lost' = {}

\* drop_answer(): a stream that nobody asked for any more is closed.
DropAnswerSilently(answer, sent) == UNCHANGED <<requests, lost>>
DropAnswer(answer, sent) ==
    IF answer.type = "OPENED" THEN SendClose(answer.id, sent) ELSE UNCHANGED <<requests, lost>>

-----------------------------------------------------------------------------
(* fplinux_audio_stream_open. *)

\* request_stream(): a fresh connection sends HELLO and OPEN together.  A
\* connection that audiod has closed refuses the OPEN, as one whose buffer is
\* full does; the call hangs up and starts over on a fresh one.
Request(kept) ==
    /\ ~waiting
    /\ call < MaxCalls
    /\ \E s \in Slots : ~slots[s].used
    /\ call' = call + 1
    /\ waiting' = TRUE
    /\ kept => link = "up"
    /\ fresh' = ~kept
    /\ link' = "up"
    /\ IF kept
       THEN requests' = requests \o <<OPEN(call + 1)>>
            /\ UNCHANGED <<late, slots, answers, server, lost>>
       ELSE /\ requests' = <<HELLO, OPEN(call + 1)>>
            /\ answers' = <<>>
            /\ late' = 0 /\ slots' = Ended
            /\ state' = "NEW" /\ last_id' = 0 /\ live' = {} /\ lost' = {}
    /\ UNCHANGED adopted

\* The OPEN was refused and audiod cannot be reached again.
RequestFails ==
    /\ ~waiting /\ link # "none"
    /\ \E s \in Slots : ~slots[s].used
    /\ HangUp
    /\ UNCHANGED <<waiting, fresh, call, adopted>>

\* The answer of an earlier call that timed out.
LateAnswerUncounted(sent) ==
    /\ waiting /\ answers # <<>> /\ late > 0
    /\ DropAnswer(Head(answers), sent)
    /\ answers' = Tail(answers)
    /\ UNCHANGED <<link, late, slots, waiting, fresh, call, adopted, server>>
LateAnswer(sent) ==
    /\ waiting /\ answers # <<>> /\ late > 0
    /\ late' = late - 1
    /\ DropAnswer(Head(answers), sent)
    /\ answers' = Tail(answers)
    /\ UNCHANGED <<link, slots, waiting, fresh, call, adopted, server>>

\* map_stream() may fail, which closes the stream again.
Adopt(mapped, sent) ==
    /\ waiting /\ answers # <<>> /\ late = 0
    /\ Head(answers).type = "OPENED"
    /\ waiting' = FALSE
    /\ answers' = Tail(answers)
    /\ IF mapped
       THEN \E s \in Slots :
              /\ FirstFree(s)
              /\ slots' = [slots EXCEPT ![s] = Stream(Head(answers).id)]
              /\ adopted' = [adopted EXCEPT ![s] = call]
              /\ UNCHANGED <<requests, lost>>
       ELSE SendClose(Head(answers).id, sent) /\ UNCHANGED <<slots, adopted>>
    /\ UNCHANGED <<link, late, fresh, call, server>>

\* ERROR: a fresh connection is given up, an older one is kept.
Refused ==
    /\ waiting /\ answers # <<>> /\ late = 0
    /\ Head(answers).type = "ERROR"
    /\ waiting' = FALSE
    /\ IF fresh
       THEN HangUp
       ELSE answers' = Tail(answers) /\ UNCHANGED <<link, late, slots, requests, server, lost>>
    /\ UNCHANGED <<fresh, call, adopted>>

\* The deadline passed with nothing to read.
Timeout ==
    /\ waiting /\ answers = <<>> /\ link = "up"
    /\ waiting' = FALSE
    /\ late' = late + 1
    /\ UNCHANGED <<link, slots, fresh, call, adopted, requests, answers, server, lost>>

\* The connection ended before the answer.
Broken ==
    /\ waiting /\ answers = <<>> /\ link = "cut"
    /\ waiting' = FALSE
    /\ HangUp
    /\ UNCHANGED <<fresh, call, adopted>>

-----------------------------------------------------------------------------
(* fplinux_audio_client_dispatch and fplinux_audio_stream_close. *)

DispatchAnswer(sent) ==
    /\ ~waiting /\ answers # <<>>
    /\ late' = IF late > 0 THEN late - 1 ELSE 0
    /\ DropAnswer(Head(answers), sent)
    /\ answers' = Tail(answers)
    /\ UNCHANGED <<link, slots, waiting, fresh, call, adopted, server>>

DispatchEnd ==
    /\ ~waiting /\ answers = <<>> /\ link = "cut"
    /\ HangUp
    /\ UNCHANGED <<waiting, fresh, call, adopted>>

StreamClose(s, sent) ==
    /\ ~waiting /\ slots[s].used
    /\ IF slots[s].ended THEN UNCHANGED <<requests, lost>> ELSE SendClose(slots[s].id, sent)
    /\ slots' = [slots EXCEPT ![s] = NoStream]
    /\ adopted' = [adopted EXCEPT ![s] = 0]
    /\ UNCHANGED <<link, late, waiting, fresh, call, answers, server>>

\* fplinux_audio_client_close; the next client starts afresh.
ClientClose ==
    /\ ~waiting /\ link # "none"
    /\ link' = "none" /\ late' = 0
    /\ slots' = [s \in Slots |-> NoStream]
    /\ adopted' = [s \in Slots |-> 0]
    /\ requests' = <<>> /\ answers' = <<>>
    /\ state' = "NEW" /\ last_id' = 0 /\ live' = {} /\ lost' = {}
    /\ UNCHANGED <<waiting, fresh, call>>

-----------------------------------------------------------------------------
(* audiod: handle() and the ends of a connection. *)

Reading(type) ==
    /\ link = "up" /\ state # "WAITING"
    /\ requests # <<>> /\ Head(requests).type = type

\* The process is announced, or may yet be.
ReadHello(known) ==
    /\ Reading("HELLO")
    /\ requests' = Tail(requests)
    /\ state' = IF known THEN "READY" ELSE "WAITING"
    /\ UNCHANGED <<link, client, answers, last_id, live, lost>>

\* APP or CLOCK admits a HELLO that waits.
Announce ==
    /\ link = "up" /\ state = "WAITING"
    /\ state' = "READY"
    /\ UNCHANGED <<link, client, requests, answers, last_id, live, lost>>

\* The connection's next stream ID; 0 is none.
NextId == last_id + 1

\* open_stream(): EMFILE at the limit, EBUSY or ENOMEM at any time.
ReadOpen(granted) ==
    /\ Reading("OPEN")
    /\ granted => Cardinality(live) < ClientStreams
    /\ requests' = Tail(requests)
    /\ IF granted
       THEN /\ last_id' = last_id + 1
            /\ live' = live \cup {NextId}
            /\ answers' = Append(answers, OPENED(Head(requests).of, NextId))
       ELSE /\ answers' = Append(answers, ERROR(Head(requests).of))
            /\ UNCHANGED <<last_id, live>>
    /\ UNCHANGED <<link, client, state, lost>>

\* An ID the connection does not have is ignored.
ReadClose ==
    /\ Reading("CLOSE")
    /\ requests' = Tail(requests)
    /\ live' = live \ {Head(requests).of}
    /\ UNCHANGED <<link, client, answers, state, last_id, lost>>

\* disconnect(): a HELLO that is refused, late or of a process that left is told
\* so with ERROR, if it can be sent; everything queued is thrown away.
Disconnect(told) ==
    /\ link = "up"
    /\ told => state # "READY"
    /\ link' = "cut"
    /\ answers' = IF told THEN Append(answers, ERROR(0)) ELSE answers
    /\ requests' = <<>>
    /\ live' = {} /\ lost' = {}
    /\ UNCHANGED <<client, state, last_id>>

-----------------------------------------------------------------------------
Init ==
    /\ link = "none" /\ late = 0
    /\ slots = [s \in Slots |-> NoStream]
    /\ waiting = FALSE /\ fresh = FALSE /\ call = 0
    /\ adopted = [s \in Slots |-> 0]
    /\ requests = <<>> /\ answers = <<>>
    /\ state = "NEW" /\ last_id = 0 /\ live = {} /\ lost = {}

Next ==
    \/ \E kept \in BOOLEAN : Request(kept)
    \/ RequestFails \/ ClientClose \/ Refused \/ Timeout \/ Broken \/ DispatchEnd
    \/ \E sent \in BOOLEAN : LateAnswer(sent) \/ DispatchAnswer(sent)
    \/ \E mapped, sent \in BOOLEAN : Adopt(mapped, sent)
    \/ \E s \in Slots, sent \in BOOLEAN : StreamClose(s, sent)
    \/ \E known \in BOOLEAN : ReadHello(known)
    \/ \E granted \in BOOLEAN : ReadOpen(granted)
    \/ \E told \in BOOLEAN : Disconnect(told)
    \/ Announce \/ ReadClose

Spec == Init /\ [][Next]_vars

-----------------------------------------------------------------------------
(* Properties. *)

\* The client's record and audiod's connection keep their types and limits.
TypeOK ==
    /\ link \in {"none", "up", "cut"}
    /\ late \in 0 .. MaxCalls /\ call \in 0 .. MaxCalls
    /\ slots \in [Slots -> [used : BOOLEAN, ended : BOOLEAN, id : 0 .. MaxCalls]]
    /\ waiting \in BOOLEAN /\ fresh \in BOOLEAN
    /\ adopted \in [Slots -> 0 .. MaxCalls]
    /\ state \in {"NEW", "WAITING", "READY"}
    /\ last_id \in 0 .. MaxCalls
    /\ live \subseteq 1 .. MaxCalls /\ lost \subseteq 0 .. MaxCalls

\* The OPENs and answers on their way are the timed-out calls and the one that
\* waits: the late counter is exact as long as audiod keeps the connection.
Count(queue, types) == Cardinality({i \in DOMAIN queue : queue[i].type \in types})
LateExact ==
    link = "up" =>
        late + (IF waiting THEN 1 ELSE 0)
            = Count(requests, {"OPEN"}) + Count(answers, {"OPENED", "ERROR"})

\* A call takes its own answer: a stream is never opened in the format of an
\* earlier call that timed out, and an earlier refusal is not taken for this
\* call's.
OwnAnswer ==
    waiting /\ late = 0 /\ answers # <<>> => Head(answers).of \in {call, 0}

\* Nothing leaks but what a full socket made: with nothing on its way, audiod
\* holds exactly the streams the client has and those whose CLOSE was refused,
\* although answers were dropped and calls timed out; nothing the client still
\* plays is among the refused.
PlayingIds == {slots[s].id : s \in {t \in Slots : slots[t].used /\ ~slots[t].ended}}
NoLeak ==
    link = "up" /\ ~waiting /\ requests = <<>> /\ answers = <<>> =>
        live = PlayingIds \cup lost /\ PlayingIds \cap lost = {}

\* The client never writes to a ring that belongs to another of its streams: the
\* IDs of its open streams differ, and audiod holds each or has ended all.
StreamsDistinct ==
    \A s \in Slots : slots[s].used /\ ~slots[s].ended =>
        /\ link = "up" => slots[s].id \in live
        /\ \A t \in Slots \ {s} : slots[t].used /\ ~slots[t].ended => slots[t].id # slots[s].id

\* Answers go to the calls they belong to, although calls time out.
AnswersMatch == TypeOK /\ LateExact /\ OwnAnswer

\* The client's streams are audiod's streams.
StreamsMatch == NoLeak /\ StreamsDistinct
=============================================================================
