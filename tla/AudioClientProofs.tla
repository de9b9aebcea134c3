------------------------- MODULE AudioClientProofs --------------------------
(***************************************************************************)
(* An application's side of the audio service.  For any number of calls:    *)
(* every answer goes to the call it belongs to, and the client's streams    *)
(* are the ones audiod holds for it but for those whose CLOSE was refused,  *)
(* although calls time out, answers come late and the connection may end    *)
(* anywhere.  For every ring capacity, period and schedule: an honest       *)
(* application's ring is never overrun, the sleeping flag is right whenever *)
(* audiod blocks unless the card failed in the fill after its open, and     *)
(* frames that a suppressed KICK leaves behind are found by the next write. *)
(***************************************************************************)
EXTENDS AudioClient, AudioRing, FiniteSetTheorems, FunctionTheorems, SequenceTheorems, TLAPS

(* The connection: AudioClient. *)

RequestType == [type : {"HELLO", "OPEN", "CLOSE"}, of : 0 .. MaxCalls]
AnswerType == [type : {"OPENED", "ERROR"}, of : 0 .. MaxCalls, id : 0 .. MaxCalls]
StreamType == [used : BOOLEAN, ended : BOOLEAN, id : 0 .. MaxCalls]

\* The calls whose answers are still to come: those that timed out and the one
\* that waits.
Owed == late + (IF waiting THEN 1 ELSE 0)

\* A queue of requests holds the OPENs of the calls lo .. hi, in order.
OpensOf(q, lo, hi) ==
    /\ \A i \in DOMAIN q : q[i].type = "OPEN" => q[i].of \in lo .. hi
    /\ \A i, j \in DOMAIN q : q[i].type = "OPEN" /\ q[j].type = "OPEN" /\ i < j
                                => q[i].of < q[j].of
    /\ \A n \in lo .. hi : \E i \in DOMAIN q : q[i].type = "OPEN" /\ q[i].of = n

\* A stream the client has and that has not ended.
Playing(s) == slots[s].used /\ ~slots[s].ended

-----------------------------------------------------------------------------
(* The inductive invariant. *)

QueuesType == TypeOK /\ requests \in Seq(RequestType) /\ answers \in Seq(AnswerType)

\* Without a connection, and after audiod has closed it, nothing is on its way
\* to audiod and audiod holds nothing.
Unlinked ==
    /\ link # "up" => requests = <<>> /\ live = {} /\ lost = {}
    /\ link = "none" => /\ answers = <<>> /\ late = 0 /\ ~waiting
                        /\ \A s \in Slots : ~Playing(s)

\* The answers are those of the oldest calls that are owed one, in order; after
\* them may stand the ERROR with which audiod closes.
AnswersInOrder ==
    \A i \in DOMAIN answers :
        IF answers[i].of = 0
        THEN link = "cut" /\ i = Len(answers) /\ answers[i].type = "ERROR"
        ELSE i <= Owed /\ answers[i].of = call - Owed + i

\* The OPENs are those of the other calls that are owed an answer, in order.
OpensInOrder ==
    link = "up" =>
        /\ Len(answers) <= Owed
        /\ OpensOf(requests, call - Owed + Len(answers) + 1, call)

\* Every stream ID was handed out for a call.
IdsWithinCalls ==
    /\ Owed <= call /\ last_id <= call
    /\ link = "up" => last_id <= call - Owed + Len(answers)

\* The streams the client has, the ones in answers, the ones in CLOSE requests
\* and the ones whose CLOSE was refused: no two are the same,
Distinct ==
    /\ \A s, t \in Slots : Playing(s) /\ Playing(t) /\ slots[s].id = slots[t].id => s = t
    /\ \A i, j \in DOMAIN answers :
          /\ answers[i].type = "OPENED" /\ answers[j].type = "OPENED"
          /\ answers[i].id = answers[j].id
          => i = j
    /\ \A i, j \in DOMAIN requests :
          /\ requests[i].type = "CLOSE" /\ requests[j].type = "CLOSE"
          /\ requests[i].of = requests[j].of
          => i = j
    /\ \A s \in Slots, i \in DOMAIN answers :
          Playing(s) /\ answers[i].type = "OPENED" => slots[s].id # answers[i].id
    /\ \A s \in Slots, i \in DOMAIN requests :
          Playing(s) /\ requests[i].type = "CLOSE" => slots[s].id # requests[i].of
    /\ \A i \in DOMAIN answers, j \in DOMAIN requests :
          answers[i].type = "OPENED" /\ requests[j].type = "CLOSE" => answers[i].id # requests[j].of
    /\ \A s \in Slots : Playing(s) => slots[s].id \notin lost
    /\ \A i \in DOMAIN answers : answers[i].type = "OPENED" => answers[i].id \notin lost
    /\ \A i \in DOMAIN requests : requests[i].type = "CLOSE" => requests[i].of \notin lost

\* all were handed out by this connection,
HandedOut ==
    /\ \A s \in Slots : Playing(s) => slots[s].id \in 1 .. last_id
    /\ \A i \in DOMAIN answers : answers[i].type = "OPENED" => answers[i].id \in 1 .. last_id
    /\ live \subseteq 1 .. last_id

\* and together they are what audiod holds.
LiveAll ==
    link = "up" =>
        \A x : x \in live <=>
            \/ \E s \in Slots : Playing(s) /\ slots[s].id = x
            \/ \E i \in DOMAIN answers : answers[i].type = "OPENED" /\ answers[i].id = x
            \/ \E i \in DOMAIN requests : requests[i].type = "CLOSE" /\ requests[i].of = x
            \/ x \in lost

Numbering == AnswersInOrder /\ OpensInOrder /\ IdsWithinCalls
Holdings == Distinct /\ HandedOut /\ LiveAll
ClientInv == QueuesType /\ Unlinked /\ Numbering /\ Holdings

-----------------------------------------------------------------------------
(* Queues. *)

\* What is left of a queue when its first packet is taken.
LEMMA Taken ==
  ASSUME NEW S, NEW q \in Seq(S), q # <<>>
  PROVE  /\ Head(q) \in S /\ Head(q) = q[1] /\ 1 \in DOMAIN q
         /\ Tail(q) \in Seq(S) /\ Len(Tail(q)) = Len(q) - 1 /\ Len(q) \in Nat \ {0}
         /\ DOMAIN q = 1 .. Len(q)
         /\ DOMAIN Tail(q) = 1 .. Len(q) - 1
         /\ \A i \in DOMAIN Tail(q) : i \in Nat /\ i + 1 \in DOMAIN q /\ Tail(q)[i] = q[i + 1]
         /\ \A i \in DOMAIN q : i = 1 \/ (i - 1 \in DOMAIN Tail(q) /\ Tail(q)[i - 1] = q[i])
  <1>1. /\ Head(q) \in S /\ Tail(q) \in Seq(S) /\ Len(Tail(q)) = Len(q) - 1
        /\ \A i \in 1 .. Len(Tail(q)) : Tail(q)[i] = q[i + 1]
    BY HeadTailProperties
  <1>2. Len(q) \in Nat \ {0}
    BY EmptySeq
  <1>3. DOMAIN q = 1 .. Len(q) /\ DOMAIN Tail(q) = 1 .. Len(q) - 1
    BY <1>1, LenProperties
  <1>4. Head(q) = q[1]
    BY <1>2
  <1>5. \A i \in DOMAIN Tail(q) : i \in Nat /\ i + 1 \in DOMAIN q /\ Tail(q)[i] = q[i + 1]
    BY <1>1, <1>2, <1>3
  <1>6. \A i \in DOMAIN q : i = 1 \/ (i - 1 \in DOMAIN Tail(q) /\ Tail(q)[i - 1] = q[i])
    <2> TAKE i \in DOMAIN q
    <2>1. CASE i # 1
      <3>1. i \in Int /\ i - 1 \in 1 .. Len(q) - 1 /\ (i - 1) + 1 = i
        BY <1>2, <1>3, <2>1
      <3> QED
        BY <1>1, <1>3, <3>1
    <2> QED
      BY <2>1
  <1> QED
    BY <1>1, <1>2, <1>3, <1>4, <1>5, <1>6

\* A queue with one packet more.
LEMMA Added ==
  ASSUME NEW S, NEW q \in Seq(S), NEW x \in S
  PROVE  /\ Append(q, x) \in Seq(S) /\ q \o <<x>> = Append(q, x)
         /\ Len(Append(q, x)) = Len(q) + 1 /\ Len(q) \in Nat
         /\ DOMAIN q = 1 .. Len(q)
         /\ DOMAIN Append(q, x) = 1 .. Len(q) + 1
         /\ \A i \in DOMAIN q : i \in DOMAIN Append(q, x) /\ Append(q, x)[i] = q[i]
         /\ \A i \in DOMAIN Append(q, x) : i \in DOMAIN q \/ i = Len(q) + 1
         /\ Len(q) + 1 \in DOMAIN Append(q, x) /\ Append(q, x)[Len(q) + 1] = x
         /\ Len(q) + 1 \notin DOMAIN q
  <1>1. /\ Append(q, x) \in Seq(S) /\ Len(Append(q, x)) = Len(q) + 1
        /\ \A i \in 1 .. Len(q) : Append(q, x)[i] = q[i]
        /\ Append(q, x)[Len(q) + 1] = x
    BY AppendProperties
  <1>2. q \o <<x>> = Append(q, x)
    BY AppendIsConcat
  <1>3. Len(q) \in Nat /\ DOMAIN q = 1 .. Len(q)
    BY LenProperties
  <1>4. DOMAIN Append(q, x) = 1 .. Len(q) + 1
    BY <1>1, LenProperties
  <1> QED
    BY <1>1, <1>2, <1>3, <1>4

\* A packet that is not an OPEN leaves the OPENs as they are, at either end.
LEMMA OpensKept ==
  ASSUME NEW q \in Seq(RequestType), NEW lo \in Int, NEW hi \in Int, OpensOf(q, lo, hi)
  PROVE  /\ \A x \in RequestType : x.type # "OPEN" => OpensOf(Append(q, x), lo, hi)
         /\ q # <<>> /\ Head(q).type # "OPEN" => OpensOf(Tail(q), lo, hi)
  <1>1. ASSUME NEW x \in RequestType, x.type # "OPEN" PROVE OpensOf(Append(q, x), lo, hi)
    <2> DEFINE a == Append(q, x)
    <2>1. /\ \A i \in DOMAIN q : i \in DOMAIN a /\ a[i] = q[i]
          /\ \A i \in DOMAIN a : i \in DOMAIN q \/ i = Len(q) + 1
          /\ a[Len(q) + 1] = x
      BY Added
    <2> HIDE DEF a
    <2>2. \A i \in DOMAIN a : a[i].type = "OPEN" => i \in DOMAIN q /\ a[i] = q[i]
      BY <1>1, <2>1
    <2>3. OpensOf(a, lo, hi)
      BY <2>1, <2>2 DEF OpensOf
    <2> QED
      BY <2>3 DEF a
  <1>2. ASSUME q # <<>>, Head(q).type # "OPEN" PROVE OpensOf(Tail(q), lo, hi)
    <2> DEFINE t == Tail(q)
    <2>1. /\ Head(q) = q[1]
          /\ DOMAIN q = 1 .. Len(q) /\ Len(q) \in Nat
          /\ \A i \in DOMAIN t : i \in Nat /\ i + 1 \in DOMAIN q /\ t[i] = q[i + 1]
          /\ \A i \in DOMAIN q : i = 1 \/ (i - 1 \in DOMAIN t /\ t[i - 1] = q[i])
      BY <1>2, Taken
    <2> HIDE DEF t
    <2>2. \A i \in DOMAIN t : t[i].type = "OPEN" => t[i].of \in lo .. hi
      BY <2>1 DEF OpensOf
    <2>3. \A i, j \in DOMAIN t : t[i].type = "OPEN" /\ t[j].type = "OPEN" /\ i < j
                                   => t[i].of < t[j].of
      <3> SUFFICES ASSUME NEW i \in DOMAIN t, NEW j \in DOMAIN t,
                          t[i].type = "OPEN", t[j].type = "OPEN", i < j
                   PROVE  t[i].of < t[j].of
        OBVIOUS
      <3>1. i + 1 < j + 1
        BY <2>1
      <3> QED
        BY <2>1, <3>1 DEF OpensOf
    <2>4. \A n \in lo .. hi : \E i \in DOMAIN t : t[i].type = "OPEN" /\ t[i].of = n
      <3> TAKE n \in lo .. hi
      <3>1. PICK i \in DOMAIN q : q[i].type = "OPEN" /\ q[i].of = n
        BY DEF OpensOf
      <3>2. i # 1
        BY <1>2, <2>1, <3>1
      <3> QED
        BY <2>1, <3>1, <3>2
    <2>5. OpensOf(t, lo, hi)
      BY <2>2, <2>3, <2>4 DEF OpensOf
    <2> QED
      BY <2>5 DEF t
  <1> QED
    BY <1>1, <1>2

\* The OPEN of the next call goes to the end of the queue.
LEMMA OpensGrow ==
  ASSUME NEW q \in Seq(RequestType), NEW lo \in Int, NEW hi \in Int, OpensOf(q, lo, hi),
         lo <= hi + 1, NEW x \in RequestType, x.type = "OPEN", x.of = hi + 1
  PROVE  OpensOf(Append(q, x), lo, hi + 1)
  <1> DEFINE a == Append(q, x)
  <1>1. /\ \A i \in DOMAIN q : i \in DOMAIN a /\ a[i] = q[i] /\ i < Len(q) + 1
        /\ \A i \in DOMAIN a : i \in DOMAIN q \/ i = Len(q) + 1
        /\ Len(q) + 1 \in DOMAIN a /\ a[Len(q) + 1] = x
        /\ Len(q) \in Nat /\ DOMAIN q = 1 .. Len(q)
    BY Added
  <1> HIDE DEF a
  <1>2. \A i \in DOMAIN a : a[i].type = "OPEN" => a[i].of \in lo .. hi + 1
    BY <1>1 DEF OpensOf
  <1>3. \A i, j \in DOMAIN a : a[i].type = "OPEN" /\ a[j].type = "OPEN" /\ i < j
                                 => a[i].of < a[j].of
    <2> SUFFICES ASSUME NEW i \in DOMAIN a, NEW j \in DOMAIN a,
                        a[i].type = "OPEN", a[j].type = "OPEN", i < j
                 PROVE  a[i].of < a[j].of
      OBVIOUS
    <2>1. i \in DOMAIN q
      BY <1>1
    <2>2. q[i].of \in lo .. hi
      BY <1>1, <2>1 DEF OpensOf
    <2>3. CASE j \in DOMAIN q
      BY <1>1, <2>1, <2>3 DEF OpensOf
    <2>4. CASE j = Len(q) + 1
      BY <1>1, <2>1, <2>2, <2>4
    <2> QED
      BY <1>1, <2>3, <2>4
  <1>4. \A n \in lo .. hi + 1 : \E i \in DOMAIN a : a[i].type = "OPEN" /\ a[i].of = n
    <2> TAKE n \in lo .. hi + 1
    <2>1. CASE n = hi + 1
      BY <1>1, <2>1
    <2>2. CASE n # hi + 1
      <3>1. n \in lo .. hi
        BY <2>2
      <3>2. PICK i \in DOMAIN q : q[i].type = "OPEN" /\ q[i].of = n
        BY <3>1 DEF OpensOf
      <3> QED
        BY <1>1, <3>2
    <2> QED
      BY <2>1, <2>2
  <1>5. OpensOf(a, lo, hi + 1)
    BY <1>2, <1>3, <1>4 DEF OpensOf
  <1> QED
    BY <1>5 DEF a

\* The first packet, when it is an OPEN, is that of the first call.
LEMMA OpensTaken ==
  ASSUME NEW q \in Seq(RequestType), NEW lo \in Int, NEW hi \in Int, OpensOf(q, lo, hi),
         q # <<>>, Head(q).type = "OPEN"
  PROVE  /\ lo <= hi /\ Head(q).of = lo
         /\ OpensOf(Tail(q), lo + 1, hi)
  <1> DEFINE t == Tail(q)
  <1>1. /\ Head(q) = q[1] /\ 1 \in DOMAIN q
        /\ DOMAIN q = 1 .. Len(q) /\ Len(q) \in Nat
        /\ \A i \in DOMAIN t : i \in Nat /\ i + 1 \in DOMAIN q /\ t[i] = q[i + 1]
        /\ \A i \in DOMAIN q : i = 1 \/ (i - 1 \in DOMAIN t /\ t[i - 1] = q[i])
        /\ DOMAIN t = 1 .. Len(q) - 1
    BY Taken
  <1> HIDE DEF t
  <1>2. q[1].type = "OPEN" /\ q[1].of \in lo .. hi
    BY <1>1 DEF OpensOf
  <1>3. \A i \in DOMAIN q : q[i].type = "OPEN" /\ i # 1 => q[1].of < q[i].of
    <2>1. \A i \in DOMAIN q : i # 1 => 1 < i
      BY <1>1
    <2> QED
      BY <1>1, <1>2, <2>1 DEF OpensOf
  <1>4. q[1].of = lo
    <2>1. lo \in lo .. hi
      BY <1>2
    <2>2. PICK i \in DOMAIN q : q[i].type = "OPEN" /\ q[i].of = lo
      BY <2>1 DEF OpensOf
    <2>3. i = 1
      BY <1>2, <1>3, <2>2
    <2> QED
      BY <2>2, <2>3
  <1>5. \A i \in DOMAIN t : t[i].type = "OPEN" => t[i].of \in lo + 1 .. hi
    <2> SUFFICES ASSUME NEW i \in DOMAIN t, t[i].type = "OPEN" PROVE t[i].of \in lo + 1 .. hi
      OBVIOUS
    <2>1. i + 1 \in DOMAIN q /\ i + 1 # 1 /\ t[i] = q[i + 1]
      BY <1>1
    <2>2. q[i + 1].of \in lo .. hi
      BY <2>1 DEF OpensOf
    <2> QED
      BY <1>3, <1>4, <2>1, <2>2
  <1>6. \A i, j \in DOMAIN t : t[i].type = "OPEN" /\ t[j].type = "OPEN" /\ i < j
                                 => t[i].of < t[j].of
    <2> SUFFICES ASSUME NEW i \in DOMAIN t, NEW j \in DOMAIN t,
                        t[i].type = "OPEN", t[j].type = "OPEN", i < j
                 PROVE  t[i].of < t[j].of
      OBVIOUS
    <2>1. i + 1 < j + 1
      BY <1>1
    <2> QED
      BY <1>1, <2>1 DEF OpensOf
  <1>7. \A n \in lo + 1 .. hi : \E i \in DOMAIN t : t[i].type = "OPEN" /\ t[i].of = n
    <2> TAKE n \in lo + 1 .. hi
    <2>1. n \in lo .. hi /\ n # lo
      OBVIOUS
    <2>2. PICK i \in DOMAIN q : q[i].type = "OPEN" /\ q[i].of = n
      BY <2>1 DEF OpensOf
    <2>3. i # 1
      BY <1>4, <2>1, <2>2
    <2> QED
      BY <1>1, <2>2, <2>3
  <1>8. OpensOf(t, lo + 1, hi)
    BY <1>5, <1>6, <1>7 DEF OpensOf
  <1>9. lo <= hi /\ Head(q).of = lo
    BY <1>1, <1>2, <1>4
  <1> QED
    BY <1>8, <1>9 DEF t

\* There are as many OPENs as calls.
LEMMA OpensCounted ==
  ASSUME NEW q \in Seq(RequestType), NEW lo \in Int, NEW hi \in Int, OpensOf(q, lo, hi),
         lo <= hi + 1
  PROVE  Count(q, {"OPEN"}) = hi - lo + 1
  <1> DEFINE S == {i \in DOMAIN q : q[i].type \in {"OPEN"}}
             T == lo .. hi
             f == [i \in S |-> q[i].of]
  <1>1. DOMAIN q = 1 .. Len(q) /\ Len(q) \in Nat
    BY LenProperties
  <1>2. \A i \in S : i \in DOMAIN q /\ i \in Int /\ q[i].type = "OPEN" /\ q[i].of \in T
    BY <1>1 DEF OpensOf
  <1>3. f \in Surjection(S, T)
    <2>1. f \in [S -> T]
      BY <1>2
    <2>2. \A n \in T : \E i \in S : f[i] = n
      BY DEF OpensOf
    <2> QED
      BY <2>1, <2>2, Fun_IsSurj
  <1>4. f \in Injection(S, T)
    <2>1. f \in [S -> T]
      BY <1>2
    <2>2. \A i, j \in S : f[i] = f[j] => i = j
      <3> SUFFICES ASSUME NEW i \in S, NEW j \in S, q[i].of = q[j].of, i # j PROVE FALSE
        OBVIOUS
      <3>1. i < j \/ j < i
        BY <1>2
      <3>2. q[i].of \in Int /\ q[j].of \in Int
        BY <1>2
      <3> QED
        BY <1>2, <3>1, <3>2 DEF OpensOf
    <2> QED
      BY <2>1, <2>2, Fun_IsInj
  <1>5. IsFiniteSet(T) /\ Cardinality(T) = hi - lo + 1
    BY FS_Interval
  <1>6. Cardinality(S) = Cardinality(T)
    BY <1>3, <1>4, <1>5, FS_Injection
  <1> QED
    BY <1>5, <1>6 DEF Count

-----------------------------------------------------------------------------
(* Packets, streams and counters have their types. *)

\* The limits are counts.
LEMMA Limits == ClientStreams \in Nat \ {0} /\ MaxCalls \in Nat
  BY ClientAssumption DEF ClientAssumption

\* A packet or a stream has the fields it was made with.
LEMMA Packets ==
  /\ NoStream \in StreamType /\ HELLO \in RequestType /\ HELLO.type = "HELLO"
  /\ \A n \in 0 .. MaxCalls :
       /\ Stream(n) \in StreamType /\ Stream(n).used /\ ~Stream(n).ended /\ Stream(n).id = n
       /\ OPEN(n) \in RequestType /\ OPEN(n).type = "OPEN" /\ OPEN(n).of = n
       /\ CLOSE(n) \in RequestType /\ CLOSE(n).type = "CLOSE" /\ CLOSE(n).of = n
       /\ ERROR(n) \in AnswerType /\ ERROR(n).type = "ERROR" /\ ERROR(n).of = n
       /\ \A id \in 0 .. MaxCalls :
            /\ OPENED(n, id) \in AnswerType /\ OPENED(n, id).type = "OPENED"
            /\ OPENED(n, id).of = n /\ OPENED(n, id).id = id
  <1>1. 0 \in 0 .. MaxCalls
    BY Limits
  <1>2. NoStream \in StreamType /\ HELLO \in RequestType /\ HELLO.type = "HELLO"
    BY <1>1 DEF NoStream, StreamType, HELLO, RequestType
  <1> SUFFICES ASSUME NEW n \in 0 .. MaxCalls
               PROVE  /\ Stream(n) \in StreamType /\ Stream(n).used /\ ~Stream(n).ended
                      /\ Stream(n).id = n
                      /\ OPEN(n) \in RequestType /\ OPEN(n).type = "OPEN" /\ OPEN(n).of = n
                      /\ CLOSE(n) \in RequestType /\ CLOSE(n).type = "CLOSE" /\ CLOSE(n).of = n
                      /\ ERROR(n) \in AnswerType /\ ERROR(n).type = "ERROR" /\ ERROR(n).of = n
                      /\ \A id \in 0 .. MaxCalls :
                           /\ OPENED(n, id) \in AnswerType /\ OPENED(n, id).type = "OPENED"
                           /\ OPENED(n, id).of = n /\ OPENED(n, id).id = id
    BY <1>2
  <1>3. /\ Stream(n) \in StreamType /\ Stream(n).used /\ ~Stream(n).ended /\ Stream(n).id = n
    BY DEF Stream, StreamType
  <1>4. /\ OPEN(n) \in RequestType /\ OPEN(n).type = "OPEN" /\ OPEN(n).of = n
        /\ CLOSE(n) \in RequestType /\ CLOSE(n).type = "CLOSE" /\ CLOSE(n).of = n
    BY DEF OPEN, CLOSE, RequestType
  <1>5. ERROR(n) \in AnswerType /\ ERROR(n).type = "ERROR" /\ ERROR(n).of = n
    BY <1>1 DEF ERROR, AnswerType
  <1>6. \A id \in 0 .. MaxCalls : /\ OPENED(n, id) \in AnswerType /\ OPENED(n, id).type = "OPENED"
                                  /\ OPENED(n, id).of = n /\ OPENED(n, id).id = id
    BY DEF OPENED, AnswerType
  <1> QED
    BY <1>3, <1>4, <1>5, <1>6

\* The parts of the types, and what they give for the counters.
LEMMA Typed ==
  ASSUME QueuesType
  PROVE  /\ slots \in [Slots -> StreamType] /\ adopted \in [Slots -> 0 .. MaxCalls]
         /\ late \in Nat /\ call \in Nat /\ call <= MaxCalls /\ last_id \in Nat /\ last_id <= MaxCalls
         /\ waiting \in BOOLEAN /\ fresh \in BOOLEAN
         /\ Owed = IF waiting THEN late + 1 ELSE late
         /\ Owed \in Nat
         /\ Len(answers) \in Nat /\ DOMAIN answers = 1 .. Len(answers)
         /\ Len(requests) \in Nat /\ DOMAIN requests = 1 .. Len(requests)
  <1>1. /\ slots \in [Slots -> StreamType] /\ adopted \in [Slots -> 0 .. MaxCalls]
        /\ waiting \in BOOLEAN /\ fresh \in BOOLEAN
    BY DEF QueuesType, TypeOK, StreamType
  <1>2. /\ late \in Nat /\ call \in Nat /\ call <= MaxCalls /\ last_id \in Nat
        /\ last_id <= MaxCalls
    BY Limits DEF QueuesType, TypeOK
  <1>3. Owed = (IF waiting THEN late + 1 ELSE late) /\ Owed \in Nat
    BY <1>1, <1>2 DEF Owed
  <1>4. /\ Len(answers) \in Nat /\ DOMAIN answers = 1 .. Len(answers)
        /\ Len(requests) \in Nat /\ DOMAIN requests = 1 .. Len(requests)
    BY LenProperties DEF QueuesType
  <1> QED
    BY <1>1, <1>2, <1>3, <1>4

\* hang_up() leaves no stream that plays.
LEMMA EndedPlays ==
  ASSUME QueuesType
  PROVE  /\ Ended \in [Slots -> StreamType]
         /\ \A s \in Slots : ~(Ended[s].used /\ ~Ended[s].ended)
  <1>1. \A s \in Slots : slots[s] \in StreamType
    BY Typed
  <1>2. \A s \in Slots : /\ [slots[s] EXCEPT !.ended = slots[s].used] \in StreamType
                         /\ [slots[s] EXCEPT !.ended = slots[s].used].used = slots[s].used
                         /\ [slots[s] EXCEPT !.ended = slots[s].used].ended = slots[s].used
    BY <1>1 DEF StreamType
  <1> QED
    BY <1>2 DEF Ended

-----------------------------------------------------------------------------
(* The connection ends. *)

\* After the connection is given up everything starts from nothing.
LEMMA HungUp ==
  ASSUME ClientInv, link' = "none", late' = 0, requests' = <<>>, answers' = <<>>,
         state' = "NEW", last_id' = 0, live' = {}, lost' = {}, waiting' = FALSE,
         UNCHANGED <<fresh, call>>, adopted' \in [Slots -> 0 .. MaxCalls],
         slots' \in [Slots -> StreamType], \A s \in Slots : ~Playing(s)'
  PROVE  ClientInv'
  <1>1. QueuesType'
    <2>1. 0 \in 0 .. MaxCalls
      BY Limits
    <2>2. call' \in 0 .. MaxCalls /\ fresh' \in BOOLEAN /\ waiting' \in BOOLEAN
      BY DEF ClientInv, QueuesType, TypeOK
    <2>3. requests' \in Seq(RequestType) /\ answers' \in Seq(AnswerType)
      BY EmptySeq
    <2> QED
      BY <2>1, <2>2, <2>3 DEF QueuesType, TypeOK, StreamType
  <1>2. DOMAIN requests' = {} /\ DOMAIN answers' = {}
    BY <1>1, EmptySeq, LenProperties DEF QueuesType
  <1>3. Owed' = 0 /\ call' \in Nat
    BY <1>1, Limits DEF Owed, QueuesType, TypeOK
  <1>4. Unlinked' /\ Numbering'
    BY <1>2, <1>3 DEF Unlinked, Numbering, AnswersInOrder, OpensInOrder, IdsWithinCalls
  <1>5. Holdings'
    BY <1>2 DEF Holdings, Distinct, HandedOut, LiveAll
  <1> QED
    BY <1>1, <1>4, <1>5 DEF ClientInv

\* Every way in which the client gives up its connection.
LEMMA HangUpInv ==
  ASSUME ClientInv,
         RequestFails \/ (Refused /\ fresh) \/ Broken \/ DispatchEnd \/ ClientClose
  PROVE  ClientInv'
  <1>1. waiting' = FALSE /\ UNCHANGED <<fresh, call>>
    BY DEF RequestFails, Refused, Broken, DispatchEnd, ClientClose, ClientInv, QueuesType, TypeOK
  <1>2. QueuesType
    BY DEF ClientInv
  <1>3. CASE ClientClose
    <2>1. slots' = [s \in Slots |-> NoStream] /\ adopted' = [s \in Slots |-> 0]
      BY <1>3 DEF ClientClose
    <2>2. slots' \in [Slots -> StreamType] /\ adopted' \in [Slots -> 0 .. MaxCalls]
      BY <2>1, Packets, Limits
    <2>3. \A s \in Slots : ~Playing(s)'
      BY <2>1 DEF Playing, NoStream
    <2> QED
      BY <1>1, <1>3, <2>2, <2>3, HungUp DEF ClientClose
  <1>4. CASE HangUp /\ adopted' = adopted
    <2>1. slots' \in [Slots -> StreamType] /\ \A s \in Slots : ~Playing(s)'
      BY <1>2, <1>4, EndedPlays DEF HangUp, Playing
    <2>2. adopted' \in [Slots -> 0 .. MaxCalls]
      BY <1>2, <1>4, Typed
    <2> QED
      BY <1>1, <1>4, <2>1, <2>2, HungUp DEF HangUp
  <1> QED
    BY <1>3, <1>4 DEF RequestFails, Refused, Broken, DispatchEnd

\* audiod closes the connection: what it had answered stays to be read.
LEMMA DisconnectInv ==
  ASSUME ClientInv, NEW told \in BOOLEAN, Disconnect(told)
  PROVE  ClientInv'
  <1>1. /\ link = "up" /\ link' = "cut" /\ requests' = <<>> /\ live' = {} /\ lost' = {}
        /\ answers' = IF told THEN Append(answers, ERROR(0)) ELSE answers
        /\ UNCHANGED <<late, slots, waiting, fresh, call, adopted, state, last_id>>
    BY DEF Disconnect, client
  <1>2. QueuesType /\ Owed' = Owed
    BY <1>1 DEF ClientInv, Owed
  <1>3. requests' \in Seq(RequestType) /\ DOMAIN requests' = {}
    BY <1>1, EmptySeq, LenProperties
  <1>4. ERROR(0) \in AnswerType /\ ERROR(0).type = "ERROR" /\ ERROR(0).of = 0
    BY Packets, Limits
  <1>5. /\ answers' \in Seq(AnswerType)
        /\ \A i \in DOMAIN answers' :
             \/ i \in DOMAIN answers /\ answers'[i] = answers[i]
             \/ i = Len(answers') /\ answers'[i] = ERROR(0)
    BY <1>1, <1>2, <1>4, Added DEF QueuesType
  <1>6. QueuesType'
    BY <1>1, <1>2, <1>3, <1>5 DEF QueuesType, TypeOK
  <1>7. AnswersInOrder'
    BY <1>1, <1>2, <1>4, <1>5 DEF ClientInv, Numbering, AnswersInOrder
  <1>8. Numbering' /\ Unlinked'
    BY <1>1, <1>2, <1>7 DEF ClientInv, Numbering, OpensInOrder, IdsWithinCalls, Unlinked
  <1>9. Holdings'
    <2>1. \A s \in Slots : Playing(s)' <=> Playing(s)
      BY <1>1 DEF Playing
    <2>2. \A i \in DOMAIN answers' : answers'[i].type = "OPENED" =>
            i \in DOMAIN answers /\ answers'[i] = answers[i]
      BY <1>4, <1>5
    <2>3. Distinct'
      BY <1>1, <1>3, <2>1, <2>2 DEF ClientInv, Holdings, Distinct
    <2>4. HandedOut' /\ LiveAll'
      BY <1>1, <2>1, <2>2 DEF ClientInv, Holdings, HandedOut, LiveAll
    <2> QED
      BY <2>3, <2>4 DEF Holdings
  <1> QED
    BY <1>6, <1>8, <1>9 DEF ClientInv

-----------------------------------------------------------------------------
(* A call asks and times out. *)

\* A call on a fresh connection: HELLO and OPEN are all there is.
LEMMA FreshRequest ==
  ASSUME ClientInv, Request(FALSE)
  PROVE  ClientInv'
  <1>1. /\ call < MaxCalls /\ call' = call + 1 /\ waiting' = TRUE /\ fresh' = TRUE
        /\ link' = "up" /\ requests' = <<HELLO, OPEN(call + 1)>> /\ answers' = <<>>
        /\ late' = 0 /\ slots' = Ended /\ state' = "NEW" /\ last_id' = 0 /\ live' = {}
        /\ lost' = {} /\ adopted' = adopted
    BY DEF Request
  <1>2. QueuesType /\ call + 1 \in 0 .. MaxCalls
    BY <1>1, Typed, Limits DEF ClientInv
  <1>3. /\ HELLO \in RequestType /\ HELLO.type = "HELLO"
        /\ OPEN(call + 1) \in RequestType /\ OPEN(call + 1).type = "OPEN"
        /\ OPEN(call + 1).of = call + 1
    BY <1>2, Packets
  <1>4. /\ requests' \in Seq(RequestType) /\ DOMAIN requests' = {1, 2}
        /\ requests'[1] = HELLO /\ requests'[2] = OPEN(call + 1)
    BY <1>1, <1>3
  <1>5. answers' \in Seq(AnswerType) /\ Len(answers') = 0 /\ DOMAIN answers' = {}
    BY <1>1, EmptySeq, LenProperties
  <1>6. \A s \in Slots : ~Playing(s)'
    BY <1>1, <1>2, EndedPlays DEF Playing
  <1>7. QueuesType'
    <2>1. slots' \in [Slots -> StreamType] /\ adopted' \in [Slots -> 0 .. MaxCalls]
      BY <1>1, <1>2, EndedPlays, Typed
    <2>2. 0 \in 0 .. MaxCalls /\ waiting' \in BOOLEAN /\ fresh' \in BOOLEAN
      BY <1>1, Limits
    <2> QED
      BY <1>1, <1>2, <1>4, <1>5, <2>1, <2>2 DEF QueuesType, TypeOK, StreamType
  <1>8. Owed' = 1 /\ call \in Nat
    BY <1>1, <1>2, Typed DEF Owed
  <1>9. OpensOf(requests', call + 1, call + 1)
    BY <1>3, <1>4, <1>8 DEF OpensOf
  <1>10. Numbering' /\ Unlinked'
    BY <1>1, <1>5, <1>8, <1>9
       DEF Numbering, AnswersInOrder, OpensInOrder, IdsWithinCalls, Unlinked
  <1>11. \A i \in DOMAIN requests' : requests'[i].type # "CLOSE"
    BY <1>3, <1>4
  <1>12. Holdings'
    BY <1>1, <1>5, <1>6, <1>11 DEF Holdings, Distinct, HandedOut, LiveAll
  <1> QED
    BY <1>7, <1>10, <1>12 DEF ClientInv

\* The steps that leave the answers, the streams and what audiod holds alone.
LEMMA HoldingsStay ==
  ASSUME ClientInv, UNCHANGED <<answers, slots, live, last_id, link, lost>>,
         \A i \in DOMAIN requests' : requests'[i].type = "CLOSE" =>
            \E j \in DOMAIN requests : requests[j] = requests'[i],
         \A i \in DOMAIN requests : requests[i].type = "CLOSE" =>
            \E j \in DOMAIN requests' : requests'[j] = requests[i],
         \A i, j \in DOMAIN requests' :
            /\ requests'[i].type = "CLOSE" /\ requests'[j].type = "CLOSE"
            /\ requests'[i].of = requests'[j].of
            => i = j
  PROVE  Holdings'
  <1>1. \A s \in Slots : Playing(s)' <=> Playing(s)
    BY DEF Playing
  <1>2. Distinct'
    BY <1>1 DEF ClientInv, Holdings, Distinct
  <1>3. HandedOut'
    BY <1>1 DEF ClientInv, Holdings, HandedOut
  <1>4. LiveAll'
    BY <1>1 DEF ClientInv, Holdings, LiveAll
  <1> QED
    BY <1>2, <1>3, <1>4 DEF Holdings

\* A call on the connection of an earlier one.
LEMMA KeptRequest ==
  ASSUME ClientInv, Request(TRUE)
  PROVE  ClientInv'
  <1>1. /\ ~waiting /\ call < MaxCalls /\ call' = call + 1 /\ waiting' = TRUE /\ fresh' = FALSE
        /\ link = "up" /\ link' = "up" /\ requests' = requests \o <<OPEN(call + 1)>>
        /\ UNCHANGED <<late, slots, answers, state, last_id, live, adopted, lost>>
    BY DEF Request, server
  <1>2. QueuesType /\ call + 1 \in 0 .. MaxCalls
    BY <1>1, Typed, Limits DEF ClientInv
  <1>3. /\ OPEN(call + 1) \in RequestType /\ OPEN(call + 1).type = "OPEN"
        /\ OPEN(call + 1).of = call + 1
    BY <1>2, Packets
  <1>4. requests' = Append(requests, OPEN(call + 1)) /\ requests' \in Seq(RequestType)
    BY <1>1, <1>2, <1>3, Added DEF QueuesType
  <1>5. QueuesType'
    BY <1>1, <1>2, <1>4 DEF QueuesType, TypeOK
  <1>6. Owed' = Owed + 1 /\ Owed \in Nat /\ call \in Nat /\ Len(answers) \in Nat
    BY <1>1, <1>2, Typed DEF Owed
  <1>7. Len(answers) <= Owed /\ OpensOf(requests, call - Owed + Len(answers) + 1, call)
    BY <1>1 DEF ClientInv, Numbering, OpensInOrder
  <1>8. OpensOf(requests', call - Owed + Len(answers) + 1, call + 1)
    BY <1>2, <1>3, <1>4, <1>6, <1>7, OpensGrow DEF QueuesType
  <1>9. call' - Owed' = call - Owed /\ Len(answers') = Len(answers)
    BY <1>1, <1>6
  <1>10. AnswersInOrder'
    <2>1. ASSUME NEW i \in DOMAIN answers, answers[i].of # 0
          PROVE  i <= Owed' /\ answers[i].of = call' - Owed' + i
      <3>1. i \in Nat /\ i <= Owed /\ answers[i].of = call - Owed + i
        BY <1>2, <2>1, Typed DEF ClientInv, Numbering, AnswersInOrder
      <3> QED
        BY <1>6, <1>9, <3>1
    <2>2. \A i \in DOMAIN answers : answers[i].of # 0
      BY <1>1 DEF ClientInv, Numbering, AnswersInOrder
    <2> QED
      BY <1>1, <2>1, <2>2 DEF AnswersInOrder
  <1>11. OpensInOrder' /\ IdsWithinCalls'
    BY <1>1, <1>2, <1>6, <1>7, <1>8, <1>9, Typed
       DEF ClientInv, Numbering, OpensInOrder, IdsWithinCalls
  <1>12. Unlinked'
    BY <1>1 DEF Unlinked
  <1>13. Holdings'
    <2>1. /\ \A i \in DOMAIN requests : i \in DOMAIN requests' /\ requests'[i] = requests[i]
          /\ \A i \in DOMAIN requests' : i \in DOMAIN requests \/ requests'[i] = OPEN(call + 1)
      BY <1>2, <1>3, <1>4, Added DEF QueuesType
    <2>2. \A i \in DOMAIN requests' : requests'[i].type = "CLOSE" =>
            i \in DOMAIN requests /\ requests'[i] = requests[i]
      BY <1>3, <2>1
    <2>3. \A i, j \in DOMAIN requests' :
            /\ requests'[i].type = "CLOSE" /\ requests'[j].type = "CLOSE"
            /\ requests'[i].of = requests'[j].of
            => i = j
      BY <2>2 DEF ClientInv, Holdings, Distinct
    <2> QED
      BY <1>1, <2>1, <2>2, <2>3, HoldingsStay
  <1> QED
    BY <1>5, <1>10, <1>11, <1>12, <1>13 DEF ClientInv, Numbering

\* A timeout moves a call from the one that waits to the late ones.
LEMMA TimeoutInv ==
  ASSUME ClientInv, Timeout
  PROVE  ClientInv'
  <1>1. /\ waiting /\ waiting' = FALSE /\ late' = late + 1
        /\ link = "up"
        /\ UNCHANGED <<link, slots, fresh, call, adopted, requests, answers, state, last_id, live,
                       lost>>
    BY DEF Timeout, server
  <1>2. QueuesType
    BY DEF ClientInv
  <1>3. Owed' = Owed
    BY <1>1, <1>2, Typed DEF Owed
  <1>4. late + 1 \in 0 .. MaxCalls
    BY <1>1, <1>2, Typed, Limits DEF ClientInv, Numbering, IdsWithinCalls
  <1>5. QueuesType'
    BY <1>1, <1>2, <1>4 DEF QueuesType, TypeOK
  <1>6. Numbering' /\ Unlinked'
    BY <1>1, <1>3 DEF ClientInv, Numbering, AnswersInOrder, OpensInOrder, IdsWithinCalls, Unlinked
  <1>7. Holdings'
    BY <1>1, HoldingsStay DEF ClientInv, Holdings, Distinct
  <1> QED
    BY <1>5, <1>6, <1>7 DEF ClientInv

-----------------------------------------------------------------------------
(* The client takes an answer. *)

\* Taking the first answer pays the oldest call that is owed one.
LEMMA AnswerTaken ==
  ASSUME ClientInv, answers # <<>>, answers' = Tail(answers),
         Owed' = IF Owed > 0 THEN Owed - 1 ELSE 0, UNCHANGED <<link, call, last_id>>,
         \/ requests' = requests
         \/ \E x \in RequestType : x.type = "CLOSE" /\ requests' = Append(requests, x)
  PROVE  Numbering'
  <1>1. /\ Len(answers') = Len(answers) - 1 /\ Len(answers) \in Nat \ {0}
        /\ \A i \in DOMAIN answers' : i \in Nat /\ i + 1 \in DOMAIN answers
                                      /\ answers'[i] = answers[i + 1]
    BY Taken DEF ClientInv, QueuesType
  <1>2. Owed \in Nat /\ call \in Nat /\ last_id \in Nat
    BY Typed DEF ClientInv
  <1>3. AnswersInOrder'
    <2> SUFFICES ASSUME NEW i \in DOMAIN answers'
                 PROVE  IF answers'[i].of = 0
                        THEN link' = "cut" /\ i = Len(answers') /\ answers'[i].type = "ERROR"
                        ELSE i <= Owed' /\ answers'[i].of = call' - Owed' + i
      BY DEF AnswersInOrder
    <2>1. i \in Nat /\ i + 1 \in DOMAIN answers /\ answers'[i] = answers[i + 1]
      BY <1>1
    <2>2. IF answers[i + 1].of = 0
          THEN link = "cut" /\ i + 1 = Len(answers) /\ answers[i + 1].type = "ERROR"
          ELSE i + 1 <= Owed /\ answers[i + 1].of = call - Owed + (i + 1)
      BY <2>1 DEF ClientInv, Numbering, AnswersInOrder
    <2>3. CASE answers[i + 1].of = 0
      BY <1>1, <2>1, <2>2, <2>3
    <2>4. CASE answers[i + 1].of # 0
      BY <1>2, <2>1, <2>2, <2>4
    <2> QED
      BY <2>3, <2>4
  <1>4. OpensInOrder' /\ IdsWithinCalls'
    <2>1. CASE link # "up"
      BY <1>2, <2>1 DEF ClientInv, Numbering, OpensInOrder, IdsWithinCalls
    <2>2. CASE link = "up"
      <3>1. Len(answers) <= Owed /\ OpensOf(requests, call - Owed + Len(answers) + 1, call)
        BY <2>2 DEF ClientInv, Numbering, OpensInOrder
      <3>2. /\ Owed' = Owed - 1 /\ Len(answers') <= Owed'
            /\ call' - Owed' + Len(answers') = call - Owed + Len(answers)
        BY <1>1, <1>2, <3>1
      <3>3. requests \in Seq(RequestType) /\ call - Owed + Len(answers) + 1 \in Int /\ call \in Int
        BY <1>1, <1>2 DEF ClientInv, QueuesType
      <3>4. OpensOf(requests', call - Owed + Len(answers) + 1, call)
        BY <3>1, <3>3, OpensKept
      <3> QED
        BY <1>2, <2>2, <3>2, <3>4 DEF ClientInv, Numbering, OpensInOrder, IdsWithinCalls
    <2> QED
      BY <2>1, <2>2
  <1> QED
    BY <1>3, <1>4 DEF Numbering

\* drop_answer() hands a stream nobody asked for to the CLOSE that ends it.
LEMMA AnswerDropped ==
  ASSUME ClientInv, answers # <<>>, answers' = Tail(answers),
         NEW sent \in BOOLEAN, DropAnswer(Head(answers), sent),
         UNCHANGED <<link, slots, last_id, live>>
  PROVE  /\ Holdings' /\ requests' \in Seq(RequestType) /\ lost' \subseteq 0 .. MaxCalls
         /\ link # "up" => UNCHANGED <<requests, lost>>
         /\ \/ requests' = requests
            \/ \E x \in RequestType : x.type = "CLOSE" /\ requests' = Append(requests, x)
  <1> DEFINE id == answers[1].id
  <1>1. /\ Head(answers) = answers[1] /\ 1 \in DOMAIN answers /\ answers[1] \in AnswerType
        /\ \A i \in DOMAIN answers' : i \in Nat /\ i # 0 /\ i + 1 \in DOMAIN answers
                                      /\ answers'[i] = answers[i + 1]
        /\ \A i \in DOMAIN answers : i = 1 \/ (i - 1 \in DOMAIN answers' /\ answers'[i - 1] = answers[i])
        /\ DOMAIN answers \subseteq Nat
    BY Taken DEF ClientInv, QueuesType
  <1>0. /\ \A i \in DOMAIN answers' : \E j \in DOMAIN answers : j # 1 /\ answers'[i] = answers[j]
        /\ \A j \in DOMAIN answers : j = 1 \/ \E i \in DOMAIN answers' : answers'[i] = answers[j]
    <2>1. \A i \in DOMAIN answers' : i + 1 # 1
      BY <1>1
    <2> QED
      BY <1>1, <2>1
  <1>2. \A s \in Slots : Playing(s)' <=> Playing(s)
    BY DEF Playing
  <1>3. requests \in Seq(RequestType) /\ id \in 0 .. MaxCalls
    BY <1>1 DEF ClientInv, QueuesType, AnswerType
  <1>4. \A i, j \in DOMAIN answers' :
          /\ answers'[i].type = "OPENED" /\ answers'[j].type = "OPENED"
          /\ answers'[i].id = answers'[j].id
          => i = j
    <2> SUFFICES ASSUME NEW i \in DOMAIN answers', NEW j \in DOMAIN answers',
                        answers'[i].type = "OPENED", answers'[j].type = "OPENED",
                        answers'[i].id = answers'[j].id
                 PROVE  i = j
      OBVIOUS
    <2>1. i + 1 = j + 1
      BY <1>1 DEF ClientInv, Holdings, Distinct
    <2> QED
      BY <1>1, <2>1
  <1>5. HandedOut'
    BY <1>1, <1>2 DEF ClientInv, Holdings, HandedOut
  <1>8. ASSUME answers[1].type = "OPENED"
        PROVE  /\ \A s \in Slots : Playing(s) => slots[s].id # id
               /\ \A i \in DOMAIN requests : requests[i].type = "CLOSE" => requests[i].of # id
               /\ \A i \in DOMAIN answers' : answers'[i].type = "OPENED" => answers'[i].id # id
               /\ id \notin lost
    <2>1. \A i \in DOMAIN answers' : i + 1 # 1
      BY <1>1
    <2> HIDE DEF id
    <2> QED
      BY <1>1, <1>8, <2>1 DEF ClientInv, Holdings, Distinct, id
  <1>9. ASSUME answers[1].type = "OPENED", NEW x
        PROVE  (\E i \in DOMAIN answers : answers[i].type = "OPENED" /\ answers[i].id = x) <=>
                 \/ x = id
                 \/ \E i \in DOMAIN answers' : answers'[i].type = "OPENED" /\ answers'[i].id = x
    <2> HIDE DEF id
    <2>1. ASSUME NEW i \in DOMAIN answers, answers[i].type = "OPENED", answers[i].id = x, x # id
          PROVE  \E j \in DOMAIN answers' : answers'[j].type = "OPENED" /\ answers'[j].id = x
      <3>1. i - 1 \in DOMAIN answers' /\ answers'[i - 1] = answers[i]
        BY <1>1, <2>1 DEF id
      <3> QED
        BY <2>1, <3>1
    <2>2. ASSUME NEW i \in DOMAIN answers', answers'[i].type = "OPENED", answers'[i].id = x
          PROVE  \E j \in DOMAIN answers : answers[j].type = "OPENED" /\ answers[j].id = x
      BY <1>0, <1>1, <2>2
    <2>3. 1 \in DOMAIN answers /\ answers[1].type = "OPENED" /\ answers[1].id = id
      BY <1>0, <1>1, <1>9 DEF id
    <2> QED
      BY <2>1, <2>2, <2>3
  <1>10. lost \subseteq 0 .. MaxCalls
    BY DEF ClientInv, QueuesType, TypeOK
  <1>6. CASE answers[1].type = "OPENED" /\ link = "up" /\ sent
    <2>0. lost' = lost
      BY <1>1, <1>6 DEF DropAnswer, SendClose
    <2>1. /\ CLOSE(id) \in RequestType /\ CLOSE(id).type = "CLOSE" /\ CLOSE(id).of = id
      BY <1>3, Packets
    <2>2. requests' = Append(requests, CLOSE(id)) /\ requests' \in Seq(RequestType)
      <3>1. requests' = Append(requests, CLOSE(id))
        BY <1>1, <1>6 DEF DropAnswer, SendClose
      <3> QED
        BY <1>3, <2>1, <3>1, Added
    <2>3. /\ \A i \in DOMAIN requests : i \in DOMAIN requests' /\ requests'[i] = requests[i]
          /\ \A i \in DOMAIN requests' : i \in DOMAIN requests \/ i = Len(requests) + 1
          /\ Len(requests) + 1 \in DOMAIN requests' /\ requests'[Len(requests) + 1] = CLOSE(id)
      BY <1>3, <2>1, <2>2, Added
    <2> HIDE DEF id
    <2>5. Distinct'
      <3>1. \A i \in DOMAIN requests' : requests'[i].type = "CLOSE" =>
              \/ i \in DOMAIN requests /\ requests'[i] = requests[i]
              \/ i = Len(requests) + 1 /\ requests'[i].of = id
        BY <2>1, <2>3
      <3>2. \A i, j \in DOMAIN requests' :
              /\ requests'[i].type = "CLOSE" /\ requests'[j].type = "CLOSE"
              /\ requests'[i].of = requests'[j].of
              => i = j
        BY <1>6, <1>8, <3>1 DEF ClientInv, Holdings, Distinct
      <3>3. /\ \A s \in Slots, i \in DOMAIN answers' :
                 Playing(s) /\ answers'[i].type = "OPENED" => slots[s].id # answers'[i].id
            /\ \A s \in Slots, i \in DOMAIN requests' :
                 Playing(s) /\ requests'[i].type = "CLOSE" => slots[s].id # requests'[i].of
        BY <1>0, <1>6, <1>8, <3>1 DEF ClientInv, Holdings, Distinct
      <3>4. \A i \in DOMAIN answers', j \in DOMAIN requests' :
              answers'[i].type = "OPENED" /\ requests'[j].type = "CLOSE"
              => answers'[i].id # requests'[j].of
        BY <1>0, <1>6, <1>8, <3>1 DEF ClientInv, Holdings, Distinct
      <3>5. /\ \A i \in DOMAIN answers' : answers'[i].type = "OPENED" => answers'[i].id \notin lost
            /\ \A i \in DOMAIN requests' : requests'[i].type = "CLOSE" => requests'[i].of \notin lost
        BY <1>0, <1>6, <1>8, <3>1 DEF ClientInv, Holdings, Distinct
      <3> QED
        BY <1>2, <1>4, <2>0, <3>2, <3>3, <3>4, <3>5 DEF ClientInv, Holdings, Distinct
    <2>6. LiveAll'
      <3> SUFFICES ASSUME NEW x
                   PROVE  x \in live <=>
                     \/ \E s \in Slots : Playing(s) /\ slots[s].id = x
                     \/ \E i \in DOMAIN answers' : answers'[i].type = "OPENED" /\ answers'[i].id = x
                     \/ \E i \in DOMAIN requests' : requests'[i].type = "CLOSE" /\ requests'[i].of = x
                     \/ x \in lost
        BY <1>2, <2>0 DEF LiveAll
      <3>1. x \in live <=>
              \/ \E s \in Slots : Playing(s) /\ slots[s].id = x
              \/ \E i \in DOMAIN answers : answers[i].type = "OPENED" /\ answers[i].id = x
              \/ \E i \in DOMAIN requests : requests[i].type = "CLOSE" /\ requests[i].of = x
              \/ x \in lost
        BY <1>6 DEF ClientInv, Holdings, LiveAll
      <3>2. (\E i \in DOMAIN answers : answers[i].type = "OPENED" /\ answers[i].id = x) <=>
              \/ x = id
              \/ \E i \in DOMAIN answers' : answers'[i].type = "OPENED" /\ answers'[i].id = x
        BY <1>6, <1>9
      <3>3. (\E i \in DOMAIN requests' : requests'[i].type = "CLOSE" /\ requests'[i].of = x) <=>
              \/ x = id
              \/ \E i \in DOMAIN requests : requests[i].type = "CLOSE" /\ requests[i].of = x
        BY <2>1, <2>3
      <3> QED
        BY <3>1, <3>2, <3>3
    <2> QED
      BY <1>5, <1>6, <1>10, <2>0, <2>1, <2>2, <2>5, <2>6 DEF Holdings
  <1>11. CASE answers[1].type = "OPENED" /\ link = "up" /\ ~sent
    <2>1. requests' = requests /\ lost' = lost \cup {id}
      BY <1>1, <1>11 DEF DropAnswer, SendClose
    <2> HIDE DEF id
    <2>2. Distinct'
      <3>1. /\ \A s \in Slots, i \in DOMAIN answers' :
                 Playing(s) /\ answers'[i].type = "OPENED" => slots[s].id # answers'[i].id
            /\ \A i \in DOMAIN answers', j \in DOMAIN requests :
                 answers'[i].type = "OPENED" /\ requests[j].type = "CLOSE"
                 => answers'[i].id # requests[j].of
            /\ \A i \in DOMAIN answers' : answers'[i].type = "OPENED" => answers'[i].id \notin lost
        BY <1>0 DEF ClientInv, Holdings, Distinct
      <3> QED
        BY <1>2, <1>4, <1>8, <1>11, <2>1, <3>1 DEF ClientInv, Holdings, Distinct
    <2>3. LiveAll'
      BY <1>2, <1>9, <1>11, <2>1 DEF ClientInv, Holdings, LiveAll
    <2> QED
      BY <1>3, <1>5, <1>10, <1>11, <2>1, <2>2, <2>3 DEF Holdings
  <1>7. CASE ~(answers[1].type = "OPENED" /\ link = "up")
    <2>1. requests' = requests /\ lost' = lost
      BY <1>1, <1>7 DEF DropAnswer, SendClose
    <2>2. Distinct'
      BY <1>1, <1>2, <1>4, <2>1 DEF ClientInv, Holdings, Distinct
    <2>3. LiveAll'
      <3> SUFFICES ASSUME link = "up" PROVE LiveAll'
        BY DEF LiveAll
      <3>1. \A x : (\E i \in DOMAIN answers : answers[i].type = "OPENED" /\ answers[i].id = x) <=>
              \E i \in DOMAIN answers' : answers'[i].type = "OPENED" /\ answers'[i].id = x
        <4> TAKE x
        <4>1. ASSUME NEW i \in DOMAIN answers, answers[i].type = "OPENED", answers[i].id = x
              PROVE  \E j \in DOMAIN answers' : answers'[j].type = "OPENED" /\ answers'[j].id = x
          <5>1. i # 1
            BY <1>7, <4>1
          <5>2. i - 1 \in DOMAIN answers' /\ answers'[i - 1] = answers[i]
            BY <1>1, <5>1
          <5> QED
            BY <4>1, <5>2
        <4>2. ASSUME NEW i \in DOMAIN answers', answers'[i].type = "OPENED", answers'[i].id = x
              PROVE  \E j \in DOMAIN answers : answers[j].type = "OPENED" /\ answers[j].id = x
          BY <1>0, <4>2
        <4> QED
          BY <4>1, <4>2
      <3> QED
        BY <1>2, <2>1, <3>1 DEF ClientInv, Holdings, LiveAll
    <2> QED
      BY <1>3, <1>5, <1>10, <2>1, <2>2, <2>3 DEF Holdings
  <1> QED
    BY <1>6, <1>7, <1>11

\* An answer that no call waits for, or that cannot be mapped.
LEMMA DropInv ==
  ASSUME ClientInv, NEW sent \in BOOLEAN,
         LateAnswer(sent) \/ DispatchAnswer(sent) \/ Adopt(FALSE, sent)
  PROVE  ClientInv'
  <1>1. /\ answers # <<>> /\ answers' = Tail(answers) /\ DropAnswer(Head(answers), sent)
        /\ UNCHANGED <<link, slots, fresh, call, adopted, state, last_id, live>>
    BY DEF LateAnswer, DispatchAnswer, Adopt, server, DropAnswer
  <1>2. QueuesType
    BY DEF ClientInv
  <1>3. /\ waiting' \in BOOLEAN /\ late' \in 0 .. MaxCalls
        /\ Owed' = IF Owed > 0 THEN Owed - 1 ELSE 0
        /\ ~waiting => ~waiting' /\ (late = 0 => late' = 0)
    <2>1. late \in 0 .. MaxCalls
      BY <1>2 DEF QueuesType, TypeOK
    <2>2. CASE LateAnswer(sent)
      BY <1>2, <2>1, <2>2, Typed, Limits DEF LateAnswer, Owed
    <2>3. CASE DispatchAnswer(sent)
      BY <1>2, <2>1, <2>3, Typed, Limits DEF DispatchAnswer, Owed
    <2>4. CASE Adopt(FALSE, sent)
      <3>1. waiting /\ late = 0 /\ waiting' = FALSE /\ late' = late
        BY <2>4 DEF Adopt
      <3>2. waiting' \in BOOLEAN
        BY <3>1, Zenon
      <3>3. Owed = 1 /\ Owed' = 0
        BY <3>1 DEF Owed
      <3> QED
        BY <2>1, <3>1, <3>2, <3>3
    <2> QED
      BY <2>2, <2>3, <2>4
  <1>4. /\ Holdings' /\ requests' \in Seq(RequestType) /\ lost' \subseteq 0 .. MaxCalls
        /\ link # "up" => UNCHANGED <<requests, lost>>
        /\ \/ requests' = requests
           \/ \E x \in RequestType : x.type = "CLOSE" /\ requests' = Append(requests, x)
    BY <1>1, AnswerDropped
  <1>5. Numbering'
    BY <1>1, <1>3, <1>4, AnswerTaken
  <1>6. answers' \in Seq(AnswerType)
    BY <1>1, <1>2, Taken DEF QueuesType
  <1>7. QueuesType'
    BY <1>1, <1>2, <1>3, <1>4, <1>6 DEF QueuesType, TypeOK
  <1>8. Unlinked'
    <2>1. link # "none"
      BY <1>1 DEF ClientInv, Unlinked
    <2> QED
      BY <1>1, <1>4, <2>1 DEF ClientInv, Unlinked
  <1> QED
    BY <1>4, <1>5, <1>7, <1>8 DEF ClientInv

\* ERROR on an older connection.
LEMMA RefusedInv ==
  ASSUME ClientInv, Refused, ~fresh
  PROVE  ClientInv'
  <1>1. /\ answers # <<>> /\ answers' = Tail(answers) /\ Head(answers).type = "ERROR"
        /\ waiting /\ late = 0 /\ waiting' = FALSE
        /\ UNCHANGED <<link, late, slots, fresh, call, adopted, requests, state, last_id, live,
                       lost>>
    BY DEF Refused, server
  <1>2. QueuesType
    BY DEF ClientInv
  <1>3. Owed' = IF Owed > 0 THEN Owed - 1 ELSE 0
    BY <1>1, <1>2, Typed DEF Owed
  <1>4. Numbering'
    BY <1>1, <1>3, AnswerTaken
  <1>5. DropAnswer(Head(answers), TRUE)
    BY <1>1 DEF DropAnswer
  <1>6. Holdings'
    BY <1>1, <1>5, AnswerDropped
  <1>7. answers' \in Seq(AnswerType)
    BY <1>1, <1>2, Taken DEF QueuesType
  <1>8. QueuesType' /\ Unlinked'
    BY <1>1, <1>2, <1>7 DEF QueuesType, TypeOK, ClientInv, Unlinked
  <1> QED
    BY <1>4, <1>6, <1>8 DEF ClientInv

\* The call takes its stream: the first answer's, into a free slot.
LEMMA AdoptInv ==
  ASSUME ClientInv, NEW sent \in BOOLEAN, Adopt(TRUE, sent)
  PROVE  ClientInv'
  <1> DEFINE id == answers[1].id
  <1>1. /\ answers # <<>> /\ answers' = Tail(answers) /\ Head(answers).type = "OPENED"
        /\ waiting /\ late = 0 /\ waiting' = FALSE
        /\ UNCHANGED <<link, late, fresh, call, requests, state, last_id, live, lost>>
    BY DEF Adopt, server
  <1>2. PICK s \in Slots : /\ FirstFree(s)
                           /\ slots' = [slots EXCEPT ![s] = Stream(Head(answers).id)]
                           /\ adopted' = [adopted EXCEPT ![s] = call]
    BY DEF Adopt
  <1>3. QueuesType
    BY DEF ClientInv
  <1>4. /\ Head(answers) = answers[1] /\ 1 \in DOMAIN answers /\ answers[1] \in AnswerType
        /\ answers' \in Seq(AnswerType)
        /\ \A i \in DOMAIN answers' : i \in Nat /\ i # 0 /\ i + 1 \in DOMAIN answers
                                      /\ answers'[i] = answers[i + 1]
        /\ \A i \in DOMAIN answers : i = 1 \/ (i - 1 \in DOMAIN answers' /\ answers'[i - 1] = answers[i])
    BY <1>1, <1>3, Taken DEF QueuesType
  <1>5. id \in 0 .. MaxCalls /\ answers[1].type = "OPENED"
    BY <1>1, <1>4 DEF AnswerType
  <1>6. /\ Stream(id) \in StreamType /\ Stream(id).used /\ ~Stream(id).ended /\ Stream(id).id = id
    BY <1>5, Packets
  <1>7. /\ slots' \in [Slots -> StreamType] /\ adopted' \in [Slots -> 0 .. MaxCalls]
        /\ \A t \in Slots : slots'[t] = IF t = s THEN Stream(id) ELSE slots[t]
    <2>1. slots \in [Slots -> StreamType] /\ adopted \in [Slots -> 0 .. MaxCalls]
      BY <1>3, Typed
    <2>2. call \in 0 .. MaxCalls
      BY <1>3 DEF QueuesType, TypeOK
    <2> QED
      BY <1>2, <1>4, <1>6, <2>1, <2>2
  <1> HIDE DEF id
  <1>8. \A t \in Slots : Playing(t)' <=> (t = s \/ Playing(t))
    BY <1>6, <1>7 DEF Playing
  <1>9. ~Playing(s)
    BY <1>2 DEF FirstFree, Playing
  <1>10. QueuesType'
    <2>1. waiting' \in BOOLEAN /\ fresh' \in BOOLEAN
      BY <1>1, <1>3, Typed
    <2> QED
      BY <1>1, <1>3, <1>4, <1>7, <2>1 DEF QueuesType, TypeOK, StreamType
  <1>11. Owed' = IF Owed > 0 THEN Owed - 1 ELSE 0
    BY <1>1, <1>3, Typed DEF Owed
  <1>12. Numbering'
    BY <1>1, <1>11, AnswerTaken
  <1>13. Unlinked'
    BY <1>1 DEF ClientInv, Unlinked
  <1>14. /\ \A t \in Slots : Playing(t) => slots[t].id # id
         /\ \A i \in DOMAIN requests : requests[i].type = "CLOSE" => requests[i].of # id
         /\ \A i \in DOMAIN answers' : answers'[i].type = "OPENED" => answers'[i].id # id
         /\ id \notin lost
    <2>1. \A i \in DOMAIN answers' : i + 1 # 1
      BY <1>4
    <2> QED
      BY <1>4, <1>5, <2>1 DEF ClientInv, Holdings, Distinct, id
  <1>15. \A i, j \in DOMAIN answers' :
          /\ answers'[i].type = "OPENED" /\ answers'[j].type = "OPENED"
          /\ answers'[i].id = answers'[j].id
          => i = j
    <2> SUFFICES ASSUME NEW i \in DOMAIN answers', NEW j \in DOMAIN answers',
                        answers'[i].type = "OPENED", answers'[j].type = "OPENED",
                        answers'[i].id = answers'[j].id
                 PROVE  i = j
      OBVIOUS
    <2>1. i + 1 = j + 1
      BY <1>4 DEF ClientInv, Holdings, Distinct
    <2> QED
      BY <1>4, <2>1
  <1>16. Distinct'
    <2>1. \A i \in DOMAIN answers' : \E j \in DOMAIN answers : answers'[i] = answers[j]
      BY <1>4
    <2>2. \A t \in Slots : Playing(t)' =>
            \/ t = s /\ slots'[t].id = id
            \/ t # s /\ Playing(t) /\ slots'[t] = slots[t]
      <3> SUFFICES ASSUME NEW t \in Slots, Playing(t)'
                   PROVE  \/ t = s /\ slots'[t].id = id
                          \/ t # s /\ Playing(t) /\ slots'[t] = slots[t]
        OBVIOUS
      <3>1. slots'[t] = IF t = s THEN Stream(id) ELSE slots[t]
        BY <1>7
      <3> QED
        BY <1>6, <1>8, <3>1
    <2>3. \A t, u \in Slots : Playing(t)' /\ Playing(u)' /\ slots'[t].id = slots'[u].id => t = u
      BY <1>14, <2>2 DEF ClientInv, Holdings, Distinct
    <2>4. /\ \A t \in Slots, i \in DOMAIN answers' :
               Playing(t)' /\ answers'[i].type = "OPENED" => slots'[t].id # answers'[i].id
          /\ \A t \in Slots, i \in DOMAIN requests :
               Playing(t)' /\ requests[i].type = "CLOSE" => slots'[t].id # requests[i].of
      BY <1>14, <2>1, <2>2 DEF ClientInv, Holdings, Distinct
    <2>5. \A i \in DOMAIN answers', j \in DOMAIN requests :
            answers'[i].type = "OPENED" /\ requests[j].type = "CLOSE"
            => answers'[i].id # requests[j].of
      BY <2>1 DEF ClientInv, Holdings, Distinct
    <2>6. /\ \A t \in Slots : Playing(t)' => slots'[t].id \notin lost
          /\ \A i \in DOMAIN answers' : answers'[i].type = "OPENED" => answers'[i].id \notin lost
      BY <1>14, <2>1, <2>2 DEF ClientInv, Holdings, Distinct
    <2> QED
      BY <1>1, <1>15, <2>3, <2>4, <2>5, <2>6 DEF ClientInv, Holdings, Distinct
  <1>17. HandedOut'
    BY <1>1, <1>4, <1>5, <1>6, <1>7, <1>8, <1>9 DEF ClientInv, Holdings, HandedOut, id
  <1>18. LiveAll'
    <2> SUFFICES ASSUME link = "up", NEW x
                 PROVE  x \in live <=>
                   \/ \E t \in Slots : Playing(t)' /\ slots'[t].id = x
                   \/ \E i \in DOMAIN answers' : answers'[i].type = "OPENED" /\ answers'[i].id = x
                   \/ \E i \in DOMAIN requests : requests[i].type = "CLOSE" /\ requests[i].of = x
                   \/ x \in lost
      BY <1>1 DEF LiveAll
    <2>1. x \in live <=>
            \/ \E t \in Slots : Playing(t) /\ slots[t].id = x
            \/ \E i \in DOMAIN answers : answers[i].type = "OPENED" /\ answers[i].id = x
            \/ \E i \in DOMAIN requests : requests[i].type = "CLOSE" /\ requests[i].of = x
            \/ x \in lost
      BY DEF ClientInv, Holdings, LiveAll
    <2>2. (\E i \in DOMAIN answers : answers[i].type = "OPENED" /\ answers[i].id = x) <=>
            \/ x = id
            \/ \E i \in DOMAIN answers' : answers'[i].type = "OPENED" /\ answers'[i].id = x
      BY <1>4, <1>5 DEF id
    <2>3. (\E t \in Slots : Playing(t)' /\ slots'[t].id = x) <=>
            \/ x = id
            \/ \E t \in Slots : Playing(t) /\ slots[t].id = x
      BY <1>6, <1>7, <1>8, <1>9
    <2> QED
      BY <2>1, <2>2, <2>3
  <1> QED
    BY <1>10, <1>12, <1>13, <1>16, <1>17, <1>18 DEF ClientInv, Holdings

\* Closing a stream hands it to its CLOSE.
LEMMA StreamCloseInv ==
  ASSUME ClientInv, NEW s \in Slots, NEW sent \in BOOLEAN, StreamClose(s, sent)
  PROVE  ClientInv'
  <1> DEFINE id == slots[s].id
  <1>1. /\ slots[s].used
        /\ IF slots[s].ended THEN UNCHANGED <<requests, lost>> ELSE SendClose(id, sent)
        /\ slots' = [slots EXCEPT ![s] = NoStream]
        /\ adopted' = [adopted EXCEPT ![s] = 0]
        /\ UNCHANGED <<link, late, waiting, fresh, call, answers, state, last_id, live>>
    BY DEF StreamClose, server
  <1>2. QueuesType /\ Owed' = Owed
    BY <1>1 DEF ClientInv, Owed
  <1>3. slots \in [Slots -> StreamType] /\ adopted \in [Slots -> 0 .. MaxCalls]
    BY <1>2, Typed
  <1>4. /\ slots' \in [Slots -> StreamType] /\ adopted' \in [Slots -> 0 .. MaxCalls]
        /\ \A t \in Slots : slots'[t] = IF t = s THEN NoStream ELSE slots[t]
    BY <1>1, <1>3, Packets, Limits
  <1>5. \A t \in Slots : Playing(t)' <=> (t # s /\ Playing(t))
    BY <1>4 DEF Playing, NoStream
  <1>6. id \in 0 .. MaxCalls /\ requests \in Seq(RequestType)
    BY <1>2, <1>3 DEF StreamType, QueuesType
  <1>7. /\ CLOSE(id) \in RequestType /\ CLOSE(id).type = "CLOSE" /\ CLOSE(id).of = id
    BY <1>6, Packets
  <1>10. ASSUME Playing(s)
         PROVE  /\ \A t \in Slots : Playing(t) /\ t # s => slots[t].id # id
                /\ \A i \in DOMAIN requests : requests[i].type = "CLOSE" => requests[i].of # id
                /\ \A i \in DOMAIN answers : answers[i].type = "OPENED" => answers[i].id # id
                /\ id \notin lost
    BY <1>10 DEF ClientInv, Holdings, Distinct
  <1>11. ASSUME Playing(s), NEW x
         PROVE  (\E t \in Slots : Playing(t) /\ slots[t].id = x) <=>
                  \/ x = id
                  \/ \E t \in Slots : Playing(t)' /\ slots'[t].id = x
    <2> HIDE DEF id
    <2> QED
      BY <1>4, <1>5, <1>11 DEF id
  <1>12. HandedOut'
    BY <1>1, <1>4, <1>5 DEF ClientInv, Holdings, HandedOut
  <1>13. CASE Playing(s) /\ link = "up" /\ ~sent
    <2>1. requests' = requests /\ lost' = lost \cup {id}
      BY <1>1, <1>13 DEF SendClose, Playing
    <2>2. QueuesType'
      BY <1>1, <1>2, <1>4, <1>6, <2>1 DEF QueuesType, TypeOK, StreamType
    <2>3. Numbering' /\ Unlinked'
      BY <1>1, <1>2, <1>5, <1>13, <2>1
         DEF ClientInv, Numbering, AnswersInOrder, OpensInOrder, IdsWithinCalls, Unlinked
    <2> HIDE DEF id
    <2>4. Distinct'
      BY <1>1, <1>4, <1>5, <1>10, <1>13, <2>1 DEF ClientInv, Holdings, Distinct
    <2>5. LiveAll'
      BY <1>1, <1>11, <1>13, <2>1 DEF ClientInv, Holdings, LiveAll
    <2> QED
      BY <1>12, <2>2, <2>3, <2>4, <2>5 DEF ClientInv, Holdings
  <1>8. CASE Playing(s) /\ link = "up" /\ sent
    <2>0. lost' = lost
      BY <1>1, <1>8 DEF SendClose, Playing
    <2>1. requests' = Append(requests, CLOSE(id)) /\ requests' \in Seq(RequestType)
      BY <1>1, <1>6, <1>7, <1>8, Added DEF SendClose, Playing
    <2>2. /\ \A i \in DOMAIN requests : i \in DOMAIN requests' /\ requests'[i] = requests[i]
          /\ \A i \in DOMAIN requests' : i \in DOMAIN requests \/ i = Len(requests) + 1
          /\ Len(requests) + 1 \in DOMAIN requests' /\ requests'[Len(requests) + 1] = CLOSE(id)
      BY <1>6, <1>7, <2>1, Added
    <2>4. QueuesType'
      BY <1>1, <1>2, <1>4, <2>0, <2>1 DEF QueuesType, TypeOK, StreamType
    <2>5. Numbering' /\ Unlinked'
      <3>1. Len(answers) <= Owed /\ OpensOf(requests, call - Owed + Len(answers) + 1, call)
        BY <1>8 DEF ClientInv, Numbering, OpensInOrder
      <3>2. OpensOf(requests', call - Owed + Len(answers) + 1, call)
        BY <1>2, <1>6, <1>7, <2>1, <3>1, OpensKept, Typed
      <3> QED
        BY <1>1, <1>2, <1>8, <3>2
           DEF ClientInv, Numbering, AnswersInOrder, OpensInOrder, IdsWithinCalls, Unlinked
    <2> HIDE DEF id
    <2>6. Distinct'
      BY <1>1, <1>4, <1>5, <1>7, <1>8, <1>10, <2>0, <2>2 DEF ClientInv, Holdings, Distinct
    <2>8. LiveAll'
      <3> SUFFICES ASSUME NEW x
                   PROVE  x \in live <=>
                     \/ \E t \in Slots : Playing(t)' /\ slots'[t].id = x
                     \/ \E i \in DOMAIN answers : answers[i].type = "OPENED" /\ answers[i].id = x
                     \/ \E i \in DOMAIN requests' : requests'[i].type = "CLOSE" /\ requests'[i].of = x
                     \/ x \in lost
        BY <1>1, <2>0 DEF LiveAll
      <3>1. x \in live <=>
              \/ \E t \in Slots : Playing(t) /\ slots[t].id = x
              \/ \E i \in DOMAIN answers : answers[i].type = "OPENED" /\ answers[i].id = x
              \/ \E i \in DOMAIN requests : requests[i].type = "CLOSE" /\ requests[i].of = x
              \/ x \in lost
        BY <1>8 DEF ClientInv, Holdings, LiveAll
      <3>2. (\E t \in Slots : Playing(t) /\ slots[t].id = x) <=>
              \/ x = id
              \/ \E t \in Slots : Playing(t)' /\ slots'[t].id = x
        BY <1>8, <1>11
      <3>3. (\E i \in DOMAIN requests' : requests'[i].type = "CLOSE" /\ requests'[i].of = x) <=>
              \/ x = id
              \/ \E i \in DOMAIN requests : requests[i].type = "CLOSE" /\ requests[i].of = x
        BY <1>7, <2>2
      <3> QED
        BY <3>1, <3>2, <3>3
    <2> QED
      BY <1>12, <2>4, <2>5, <2>6, <2>8 DEF ClientInv, Holdings
  <1>9. CASE ~(Playing(s) /\ link = "up")
    <2>1. requests' = requests /\ lost' = lost
      BY <1>1, <1>9 DEF SendClose, Playing
    <2>2. QueuesType'
      BY <1>1, <1>2, <1>4, <2>1 DEF QueuesType, TypeOK, StreamType
    <2>3. Numbering' /\ Unlinked'
      BY <1>1, <1>2, <1>5, <2>1
         DEF ClientInv, Numbering, AnswersInOrder, OpensInOrder, IdsWithinCalls, Unlinked
    <2>4. Distinct' /\ HandedOut'
      BY <1>1, <1>4, <1>5, <2>1 DEF ClientInv, Holdings, Distinct, HandedOut
    <2>5. LiveAll'
      <3> SUFFICES ASSUME link = "up" PROVE LiveAll'
        BY <1>1 DEF LiveAll
      <3>1. \A t \in Slots : /\ Playing(t)' <=> Playing(t)
                             /\ Playing(t) => slots'[t] = slots[t]
        BY <1>4, <1>5, <1>9
      <3> QED
        BY <1>1, <2>1, <3>1 DEF ClientInv, Holdings, LiveAll
    <2> QED
      BY <2>2, <2>3, <2>4, <2>5 DEF ClientInv, Holdings
  <1> QED
    BY <1>8, <1>9, <1>13

-----------------------------------------------------------------------------
(* audiod reads a packet. *)

\* HELLO and its announcement change neither the OPENs nor the streams.
LEMMA HelloInv ==
  ASSUME ClientInv, Announce \/ \E known \in BOOLEAN : ReadHello(known)
  PROVE  ClientInv'
  <1>1. /\ state' \in {"NEW", "WAITING", "READY"} /\ link = "up"
        /\ UNCHANGED <<link, late, slots, waiting, fresh, call, adopted, answers, last_id, live,
                       lost>>
    BY DEF Announce, ReadHello, Reading, client
  <1>2. QueuesType /\ Owed' = Owed
    BY <1>1 DEF ClientInv, Owed
  <1>3. Len(answers) <= Owed /\ OpensOf(requests, call - Owed + Len(answers) + 1, call)
    BY <1>1 DEF ClientInv, Numbering, OpensInOrder
  <1>4. /\ requests' \in Seq(RequestType)
        /\ OpensOf(requests', call - Owed + Len(answers) + 1, call)
        /\ Holdings'
    <2>1. CASE Announce
      <3>1. requests' = requests
        BY <2>1 DEF Announce
      <3> QED
        BY <1>1, <1>2, <1>3, <3>1, HoldingsStay DEF QueuesType, ClientInv, Holdings, Distinct
    <2>2. CASE \E known \in BOOLEAN : ReadHello(known)
      <3>1. /\ requests # <<>> /\ requests' = Tail(requests) /\ Head(requests).type = "HELLO"
        BY <2>2 DEF ReadHello, Reading
      <3>2. /\ Head(requests) = requests[1] /\ requests' \in Seq(RequestType)
            /\ \A i \in DOMAIN requests' : i \in Nat /\ i + 1 \in DOMAIN requests
                                           /\ requests'[i] = requests[i + 1]
            /\ \A i \in DOMAIN requests : i = 1 \/ (i - 1 \in DOMAIN requests'
                                                    /\ requests'[i - 1] = requests[i])
        BY <1>2, <3>1, Taken DEF QueuesType
      <3>3. OpensOf(requests', call - Owed + Len(answers) + 1, call)
        <4>1. /\ call - Owed + Len(answers) + 1 \in Int /\ call \in Int
              /\ requests \in Seq(RequestType)
          BY <1>2, Typed DEF QueuesType
        <4> QED
          BY <1>3, <3>1, <4>1, OpensKept
      <3>4. \A i, j \in DOMAIN requests' :
              /\ requests'[i].type = "CLOSE" /\ requests'[j].type = "CLOSE"
              /\ requests'[i].of = requests'[j].of
              => i = j
        <4> SUFFICES ASSUME NEW i \in DOMAIN requests', NEW j \in DOMAIN requests',
                            requests'[i].type = "CLOSE", requests'[j].type = "CLOSE",
                            requests'[i].of = requests'[j].of
                     PROVE  i = j
          OBVIOUS
        <4>1. i + 1 = j + 1
          BY <3>2 DEF ClientInv, Holdings, Distinct
        <4> QED
          BY <3>2, <4>1
      <3>5. Holdings'
        BY <1>1, <3>1, <3>2, <3>4, HoldingsStay
      <3> QED
        BY <3>2, <3>3, <3>5
    <2> QED
      BY <2>1, <2>2
  <1>5. QueuesType'
    BY <1>1, <1>2, <1>4 DEF QueuesType, TypeOK
  <1>6. Numbering' /\ Unlinked'
    BY <1>1, <1>2, <1>3, <1>4
       DEF ClientInv, Numbering, AnswersInOrder, OpensInOrder, IdsWithinCalls, Unlinked
  <1> QED
    BY <1>4, <1>5, <1>6 DEF ClientInv

\* CLOSE ends the stream it names, and no other packet names that stream.
LEMMA ReadCloseInv ==
  ASSUME ClientInv, ReadClose
  PROVE  ClientInv'
  <1> DEFINE id == requests[1].of
  <1>1. /\ link = "up" /\ requests # <<>> /\ requests' = Tail(requests)
        /\ Head(requests).type = "CLOSE" /\ live' = live \ {Head(requests).of}
        /\ UNCHANGED <<link, late, slots, waiting, fresh, call, adopted, answers, state, last_id,
                       lost>>
    BY DEF ReadClose, Reading, client
  <1>2. QueuesType /\ Owed' = Owed
    BY <1>1 DEF ClientInv, Owed
  <1>3. /\ Head(requests) = requests[1] /\ 1 \in DOMAIN requests /\ requests' \in Seq(RequestType)
        /\ \A i \in DOMAIN requests' : i \in Nat /\ i # 0 /\ i + 1 \in DOMAIN requests
                                       /\ requests'[i] = requests[i + 1]
        /\ \A i \in DOMAIN requests : i = 1 \/ (i - 1 \in DOMAIN requests'
                                                /\ requests'[i - 1] = requests[i])
    BY <1>1, <1>2, Taken DEF QueuesType
  <1>4. requests[1].type = "CLOSE" /\ live' = live \ {id}
    BY <1>1, <1>3
  <1>5. /\ \A i \in DOMAIN requests' : \E j \in DOMAIN requests : j # 1 /\ requests'[i] = requests[j]
        /\ \A j \in DOMAIN requests : j = 1 \/ \E i \in DOMAIN requests' : requests'[i] = requests[j]
    <2>1. \A i \in DOMAIN requests' : i + 1 # 1
      BY <1>3
    <2> QED
      BY <1>3, <2>1
  <1>6. /\ \A s \in Slots : Playing(s) => slots[s].id # id
        /\ \A i \in DOMAIN answers : answers[i].type = "OPENED" => answers[i].id # id
        /\ \A i \in DOMAIN requests' : requests'[i].type = "CLOSE" => requests'[i].of # id
        /\ id \notin lost
    <2>1. \A i \in DOMAIN requests : requests[i].type = "CLOSE" /\ i # 1 => requests[i].of # id
      BY <1>3, <1>4 DEF ClientInv, Holdings, Distinct
    <2>2. /\ \A s \in Slots : Playing(s) => slots[s].id # id
          /\ \A i \in DOMAIN answers : answers[i].type = "OPENED" => answers[i].id # id
          /\ id \notin lost
      BY <1>3, <1>4 DEF ClientInv, Holdings, Distinct
    <2> HIDE DEF id
    <2> QED
      BY <1>5, <2>1, <2>2
  <1>7. \A s \in Slots : Playing(s)' <=> Playing(s)
    BY <1>1 DEF Playing
  <1>8. QueuesType'
    BY <1>1, <1>2, <1>3 DEF QueuesType, TypeOK
  <1>9. Numbering' /\ Unlinked'
    <2>1. Len(answers) <= Owed /\ OpensOf(requests, call - Owed + Len(answers) + 1, call)
      BY <1>1 DEF ClientInv, Numbering, OpensInOrder
    <2>2. OpensOf(requests', call - Owed + Len(answers) + 1, call)
      <3>1. call - Owed + Len(answers) + 1 \in Int /\ call \in Int
        BY <1>2, Typed
      <3>2. requests \in Seq(RequestType) /\ Head(requests).type # "OPEN"
        BY <1>1, <1>2 DEF QueuesType
      <3>3. OpensOf(Tail(requests), call - Owed + Len(answers) + 1, call)
        BY <1>1, <2>1, <3>1, <3>2, OpensKept
      <3> QED
        BY <1>1, <3>3
    <2> QED
      BY <1>1, <1>2, <2>1, <2>2
         DEF ClientInv, Numbering, AnswersInOrder, OpensInOrder, IdsWithinCalls, Unlinked
  <1> HIDE DEF id
  <1>10. Distinct'
    <2>1. \A i, j \in DOMAIN requests' :
            /\ requests'[i].type = "CLOSE" /\ requests'[j].type = "CLOSE"
            /\ requests'[i].of = requests'[j].of
            => i = j
      <3> SUFFICES ASSUME NEW i \in DOMAIN requests', NEW j \in DOMAIN requests',
                          requests'[i].type = "CLOSE", requests'[j].type = "CLOSE",
                          requests'[i].of = requests'[j].of
                   PROVE  i = j
        OBVIOUS
      <3>1. i + 1 = j + 1
        BY <1>3 DEF ClientInv, Holdings, Distinct
      <3> QED
        BY <1>3, <3>1
    <2> QED
      BY <1>1, <1>5, <1>7, <2>1 DEF ClientInv, Holdings, Distinct
  <1>11. HandedOut'
    BY <1>1, <1>4, <1>7 DEF ClientInv, Holdings, HandedOut
  <1>12. LiveAll'
    <2> SUFFICES ASSUME NEW x
                 PROVE  x \in live' <=>
                   \/ \E s \in Slots : Playing(s) /\ slots[s].id = x
                   \/ \E i \in DOMAIN answers : answers[i].type = "OPENED" /\ answers[i].id = x
                   \/ \E i \in DOMAIN requests' : requests'[i].type = "CLOSE" /\ requests'[i].of = x
                   \/ x \in lost
      BY <1>1, <1>7 DEF LiveAll
    <2>1. x \in live <=>
            \/ \E s \in Slots : Playing(s) /\ slots[s].id = x
            \/ \E i \in DOMAIN answers : answers[i].type = "OPENED" /\ answers[i].id = x
            \/ \E i \in DOMAIN requests : requests[i].type = "CLOSE" /\ requests[i].of = x
            \/ x \in lost
      BY <1>1 DEF ClientInv, Holdings, LiveAll
    <2>2. (\E i \in DOMAIN requests : requests[i].type = "CLOSE" /\ requests[i].of = x) <=>
            \/ x = id
            \/ \E i \in DOMAIN requests' : requests'[i].type = "CLOSE" /\ requests'[i].of = x
      <3>1. 1 \in DOMAIN requests /\ requests[1].type = "CLOSE" /\ requests[1].of = id
        BY <1>3, <1>4 DEF id
      <3> QED
        BY <1>5, <3>1
    <2> QED
      BY <1>4, <1>6, <2>1, <2>2
  <1> QED
    BY <1>8, <1>9, <1>10, <1>11, <1>12 DEF ClientInv, Holdings

\* OPEN is answered for the call that sent it, with a new stream or none.
LEMMA ReadOpenInv ==
  ASSUME ClientInv, NEW granted \in BOOLEAN, ReadOpen(granted)
  PROVE  ClientInv'
  <1> DEFINE n == Head(requests).of
             answer == IF granted THEN OPENED(n, NextId) ELSE ERROR(n)
             lo == call - Owed + Len(answers) + 1
  <1>1. /\ link = "up" /\ requests # <<>> /\ requests' = Tail(requests)
        /\ Head(requests).type = "OPEN"
        /\ answers' = Append(answers, answer)
        /\ last_id' = IF granted THEN last_id + 1 ELSE last_id
        /\ live' = IF granted THEN live \cup {last_id + 1} ELSE live
        /\ UNCHANGED <<link, late, slots, waiting, fresh, call, adopted, state, lost>>
    BY DEF ReadOpen, Reading, client, NextId
  <1>2. QueuesType /\ Owed' = Owed
    BY <1>1 DEF ClientInv, Owed
  <1>3. /\ Owed \in Nat /\ call \in Nat /\ call <= MaxCalls /\ last_id \in Nat
        /\ Len(answers) \in Nat /\ lo \in Int
    BY <1>2, Typed
  <1>4. /\ Len(answers) <= Owed /\ OpensOf(requests, lo, call)
        /\ last_id <= call - Owed + Len(answers) /\ Owed <= call
    BY <1>1 DEF ClientInv, Numbering, OpensInOrder, IdsWithinCalls
  <1>5. n = lo /\ lo <= call /\ OpensOf(requests', lo + 1, call)
    BY <1>1, <1>2, <1>3, <1>4, OpensTaken DEF QueuesType
  <1>6. /\ n \in 0 .. MaxCalls /\ n # 0 /\ last_id + 1 \in 1 .. call /\ last_id + 1 \in 0 .. MaxCalls
        /\ last_id + 1 <= lo
    BY <1>3, <1>4, <1>5, Limits
  <1>7. /\ answer \in AnswerType /\ answer.of = n
        /\ answer.type = IF granted THEN "OPENED" ELSE "ERROR"
        /\ granted => answer.id = last_id + 1
    BY <1>6, Packets DEF NextId
  <1> HIDE DEF n, answer
  <1>8. /\ answers' \in Seq(AnswerType) /\ Len(answers') = Len(answers) + 1
        /\ \A i \in DOMAIN answers : i \in DOMAIN answers' /\ answers'[i] = answers[i]
        /\ \A i \in DOMAIN answers' : i \in DOMAIN answers \/ i = Len(answers) + 1
        /\ Len(answers) + 1 \in DOMAIN answers' /\ answers'[Len(answers) + 1] = answer
    BY <1>1, <1>2, <1>7, Added DEF QueuesType
  <1>9. /\ Head(requests) = requests[1] /\ requests' \in Seq(RequestType)
        /\ \A i \in DOMAIN requests' : i \in Nat /\ i + 1 \in DOMAIN requests
                                       /\ requests'[i] = requests[i + 1]
        /\ \A i \in DOMAIN requests : i = 1 \/ (i - 1 \in DOMAIN requests'
                                                /\ requests'[i - 1] = requests[i])
    BY <1>1, <1>2, Taken DEF QueuesType
  <1>10. QueuesType'
    <2>1. last_id' \in 0 .. MaxCalls
      BY <1>1, <1>2, <1>6 DEF QueuesType, TypeOK
    <2>2. live' \subseteq 1 .. MaxCalls
      BY <1>1, <1>2, <1>3, <1>6 DEF QueuesType, TypeOK
    <2> QED
      BY <1>1, <1>2, <1>8, <1>9, <2>1, <2>2 DEF QueuesType, TypeOK
  <1>11. AnswersInOrder'
    <2> SUFFICES ASSUME NEW i \in DOMAIN answers'
                 PROVE  IF answers'[i].of = 0
                        THEN link' = "cut" /\ i = Len(answers') /\ answers'[i].type = "ERROR"
                        ELSE i <= Owed' /\ answers'[i].of = call' - Owed' + i
      BY DEF AnswersInOrder
    <2>1. CASE i \in DOMAIN answers
      BY <1>1, <1>2, <1>8, <2>1 DEF ClientInv, Numbering, AnswersInOrder
    <2>2. CASE i = Len(answers) + 1
      BY <1>1, <1>2, <1>3, <1>5, <1>6, <1>7, <1>8, <2>2
    <2> QED
      BY <1>8, <2>1, <2>2
  <1>12. OpensInOrder'
    <2>1. Len(answers') <= Owed /\ call' - Owed' + Len(answers') + 1 = lo + 1
      BY <1>1, <1>2, <1>3, <1>5, <1>8
    <2> QED
      BY <1>1, <1>2, <1>5, <2>1 DEF OpensInOrder
  <1>13. IdsWithinCalls' /\ Unlinked'
    BY <1>1, <1>2, <1>3, <1>4, <1>5, <1>6, <1>8 DEF IdsWithinCalls, Unlinked
  <1>14. \A s \in Slots : Playing(s)' <=> Playing(s)
    BY <1>1 DEF Playing
  <1>15. /\ \A i \in DOMAIN requests' : \E j \in DOMAIN requests : requests'[i] = requests[j]
         /\ \A j \in DOMAIN requests : requests[j].type = "CLOSE" =>
               \E i \in DOMAIN requests' : requests'[i] = requests[j]
    BY <1>1, <1>9
  <1>16. \A i, j \in DOMAIN requests' :
           /\ requests'[i].type = "CLOSE" /\ requests'[j].type = "CLOSE"
           /\ requests'[i].of = requests'[j].of
           => i = j
    <2> SUFFICES ASSUME NEW i \in DOMAIN requests', NEW j \in DOMAIN requests',
                        requests'[i].type = "CLOSE", requests'[j].type = "CLOSE",
                        requests'[i].of = requests'[j].of
                 PROVE  i = j
      OBVIOUS
    <2>1. i + 1 = j + 1
      BY <1>9 DEF ClientInv, Holdings, Distinct
    <2> QED
      BY <1>9, <2>1
  <1>17. /\ \A s \in Slots : Playing(s) => slots[s].id \in 1 .. last_id
         /\ \A i \in DOMAIN answers : answers[i].type = "OPENED" => answers[i].id \in 1 .. last_id
         /\ \A i \in DOMAIN requests : requests[i].type = "CLOSE" => requests[i].of \in 1 .. last_id
         /\ live \subseteq 1 .. last_id /\ lost \subseteq 1 .. last_id
    BY <1>1 DEF ClientInv, Holdings, HandedOut, LiveAll
  <1>18. \A i \in DOMAIN answers' : answers'[i].type = "OPENED" =>
           \/ i \in DOMAIN answers /\ answers'[i] = answers[i]
           \/ granted /\ i = Len(answers) + 1 /\ answers'[i].id = last_id + 1
    BY <1>7, <1>8
  <1>19. \A k \in 1 .. last_id : k # last_id + 1 /\ k \in 1 .. last_id'
    BY <1>1, <1>3
  <1>20. Distinct'
    <2>1. \A i, j \in DOMAIN answers' :
            /\ answers'[i].type = "OPENED" /\ answers'[j].type = "OPENED"
            /\ answers'[i].id = answers'[j].id
            => i = j
      BY <1>17, <1>18, <1>19 DEF ClientInv, Holdings, Distinct
    <2>2. \A s \in Slots, i \in DOMAIN answers' :
            Playing(s) /\ answers'[i].type = "OPENED" => slots[s].id # answers'[i].id
      BY <1>17, <1>18, <1>19 DEF ClientInv, Holdings, Distinct
    <2>3. \A s \in Slots, i \in DOMAIN requests' :
            Playing(s) /\ requests'[i].type = "CLOSE" => slots[s].id # requests'[i].of
      BY <1>15 DEF ClientInv, Holdings, Distinct
    <2>4. \A i \in DOMAIN answers', j \in DOMAIN requests' :
            answers'[i].type = "OPENED" /\ requests'[j].type = "CLOSE"
            => answers'[i].id # requests'[j].of
      BY <1>15, <1>17, <1>18, <1>19 DEF ClientInv, Holdings, Distinct
    <2>5. /\ \A i \in DOMAIN answers' : answers'[i].type = "OPENED" => answers'[i].id \notin lost
          /\ \A i \in DOMAIN requests' : requests'[i].type = "CLOSE" => requests'[i].of \notin lost
      BY <1>15, <1>17, <1>18, <1>19 DEF ClientInv, Holdings, Distinct
    <2> QED
      BY <1>1, <1>14, <1>16, <2>1, <2>2, <2>3, <2>4, <2>5 DEF ClientInv, Holdings, Distinct
  <1>21. HandedOut'
    <2>1. granted => last_id + 1 \in 1 .. last_id'
      BY <1>1, <1>3
    <2> QED
      BY <1>1, <1>14, <1>17, <1>18, <1>19, <2>1 DEF HandedOut
  <1>22. LiveAll'
    <2> SUFFICES ASSUME NEW x
                 PROVE  x \in live' <=>
                   \/ \E s \in Slots : Playing(s) /\ slots[s].id = x
                   \/ \E i \in DOMAIN answers' : answers'[i].type = "OPENED" /\ answers'[i].id = x
                   \/ \E i \in DOMAIN requests' : requests'[i].type = "CLOSE" /\ requests'[i].of = x
                   \/ x \in lost
      BY <1>1, <1>14 DEF LiveAll
    <2>1. x \in live <=>
            \/ \E s \in Slots : Playing(s) /\ slots[s].id = x
            \/ \E i \in DOMAIN answers : answers[i].type = "OPENED" /\ answers[i].id = x
            \/ \E i \in DOMAIN requests : requests[i].type = "CLOSE" /\ requests[i].of = x
            \/ x \in lost
      BY <1>1 DEF ClientInv, Holdings, LiveAll
    <2>2. (\E i \in DOMAIN requests : requests[i].type = "CLOSE" /\ requests[i].of = x) <=>
            \E i \in DOMAIN requests' : requests'[i].type = "CLOSE" /\ requests'[i].of = x
      BY <1>15
    <2>3. (\E i \in DOMAIN answers' : answers'[i].type = "OPENED" /\ answers'[i].id = x) <=>
            \/ granted /\ x = last_id + 1
            \/ \E i \in DOMAIN answers : answers[i].type = "OPENED" /\ answers[i].id = x
      BY <1>7, <1>8, <1>18
    <2>4. x \in live' <=> (granted /\ x = last_id + 1) \/ x \in live
      BY <1>1
    <2> QED
      BY <2>1, <2>2, <2>3, <2>4
  <1> QED
    BY <1>10, <1>11, <1>12, <1>13, <1>20, <1>21, <1>22 DEF ClientInv, Numbering, Holdings

-----------------------------------------------------------------------------
(* The invariant holds. *)

\* The client starts without a connection.
LEMMA ClientInvInit == Init => ClientInv
  <1> SUFFICES ASSUME Init PROVE ClientInv
    OBVIOUS
  <1>1. QueuesType
    <2>1. slots \in [Slots -> StreamType] /\ adopted \in [Slots -> 0 .. MaxCalls]
      BY Packets, Limits DEF Init
    <2>2. requests \in Seq(RequestType) /\ answers \in Seq(AnswerType)
      BY EmptySeq DEF Init
    <2>3. waiting \in BOOLEAN /\ fresh \in BOOLEAN
      BY Zenon DEF Init
    <2> QED
      BY <2>1, <2>2, <2>3, Limits DEF Init, QueuesType, TypeOK, StreamType
  <1>2. DOMAIN requests = {} /\ DOMAIN answers = {}
    BY <1>1, EmptySeq, LenProperties DEF Init, QueuesType
  <1>3. Owed = 0
    BY DEF Init, Owed
  <1>4. \A s \in Slots : ~Playing(s)
    BY DEF Init, Playing, NoStream
  <1>5. Unlinked /\ Numbering
    BY <1>2, <1>3, <1>4
       DEF Init, Unlinked, Numbering, AnswersInOrder, OpensInOrder, IdsWithinCalls
  <1>6. Holdings
    BY <1>2, <1>4 DEF Init, Holdings, Distinct, HandedOut, LiveAll
  <1> QED
    BY <1>1, <1>5, <1>6 DEF ClientInv

\* Every step of the client, of audiod and of the connection keeps it.
LEMMA ClientInvNext == ClientInv /\ [Next]_vars => ClientInv'
  <1> SUFFICES ASSUME ClientInv, [Next]_vars PROVE ClientInv'
    OBVIOUS
  <1>1. CASE \E kept \in BOOLEAN : Request(kept)
    BY <1>1, FreshRequest, KeptRequest
  <1>2. CASE RequestFails \/ ClientClose \/ Refused \/ Broken \/ DispatchEnd
    BY <1>2, HangUpInv, RefusedInv
  <1>3. CASE \/ \E sent \in BOOLEAN : LateAnswer(sent) \/ DispatchAnswer(sent)
             \/ \E mapped, sent \in BOOLEAN : Adopt(mapped, sent)
    BY <1>3, DropInv, AdoptInv
  <1>4. CASE Timeout \/ \E s \in Slots, sent \in BOOLEAN : StreamClose(s, sent)
    BY <1>4, TimeoutInv, StreamCloseInv
  <1>5. CASE \/ \E known \in BOOLEAN : ReadHello(known)
             \/ \E granted \in BOOLEAN : ReadOpen(granted)
             \/ \E told \in BOOLEAN : Disconnect(told)
             \/ Announce \/ ReadClose
    BY <1>5, HelloInv, ReadOpenInv, DisconnectInv, ReadCloseInv
  <1>6. CASE UNCHANGED vars
    <2>1. UNCHANGED <<link, late, slots, waiting, fresh, call, adopted, requests, answers,
                      state, last_id, live, lost>>
      BY <1>6 DEF vars, client, server
    <2> QED
      BY <2>1 DEF ClientInv, QueuesType, TypeOK, Unlinked, Numbering, AnswersInOrder,
                  OpensInOrder, IdsWithinCalls, Holdings, Distinct, HandedOut, LiveAll, Owed, Playing
  <1> QED
    BY <1>1, <1>2, <1>3, <1>4, <1>5, <1>6 DEF Next

\* The inductive invariant holds in every reachable state.
THEOREM ClientInvAlways == Spec => []ClientInv
  BY ClientInvInit, ClientInvNext, PTL DEF Spec

\* The late counter is exact while audiod keeps the connection, and a call that
\* reads an answer reads its own: no timeout, however many calls back, lets a
\* call take the stream or the refusal of another.
THEOREM AnswersAlwaysMatch == Spec => []AnswersMatch
  <1>1. ClientInv => AnswersMatch
    <2> SUFFICES ASSUME ClientInv PROVE AnswersMatch
      OBVIOUS
    <2>1. QueuesType
      BY DEF ClientInv
    <2>2. LateExact
      <3> SUFFICES ASSUME link = "up"
                   PROVE  Owed = Count(requests, {"OPEN"}) + Count(answers, {"OPENED", "ERROR"})
        BY DEF LateExact, Owed
      <3> DEFINE lo == call - Owed + Len(answers) + 1
      <3>1. /\ Owed \in Nat /\ call \in Nat /\ Len(answers) \in Nat
            /\ DOMAIN answers = 1 .. Len(answers)
        BY <2>1, Typed
      <3>2. Len(answers) <= Owed /\ OpensOf(requests, lo, call)
        BY DEF ClientInv, Numbering, OpensInOrder
      <3>3. requests \in Seq(RequestType) /\ lo \in Int /\ call \in Int /\ lo <= call + 1
        BY <2>1, <3>1, <3>2 DEF QueuesType
      <3> HIDE DEF lo
      <3>4. Count(requests, {"OPEN"}) = call - lo + 1
        BY <3>2, <3>3, OpensCounted
      <3>5. Count(answers, {"OPENED", "ERROR"}) = Len(answers)
        <4>1. \A i \in DOMAIN answers : answers[i].type \in {"OPENED", "ERROR"}
          <5> TAKE i \in DOMAIN answers
          <5>1. answers[i] \in AnswerType
            BY <2>1, <3>1, ElementOfSeq DEF QueuesType
          <5> QED
            BY <5>1 DEF AnswerType
        <4>2. {i \in DOMAIN answers : answers[i].type \in {"OPENED", "ERROR"}} = 1 .. Len(answers)
          <5>1. {i \in DOMAIN answers : answers[i].type \in {"OPENED", "ERROR"}} = DOMAIN answers
            BY <4>1, Zenon
          <5> QED
            BY <3>1, <5>1
        <4>3. Cardinality(1 .. Len(answers)) = Len(answers)
          <5>1. Cardinality(1 .. Len(answers)) = IF 1 > Len(answers) THEN 0 ELSE Len(answers) - 1 + 1
            BY <3>1, FS_Interval
          <5> QED
            BY <3>1, <5>1
        <4> QED
          BY <4>2, <4>3 DEF Count
      <3> QED
        BY <3>1, <3>4, <3>5 DEF lo
    <2>3. OwnAnswer
      <3> SUFFICES ASSUME waiting, late = 0, answers # <<>> PROVE Head(answers).of \in {call, 0}
        BY DEF OwnAnswer
      <3>1. Owed = 1 /\ call \in Nat
        BY <2>1, Typed DEF Owed
      <3>2. Head(answers) = answers[1] /\ 1 \in DOMAIN answers
        BY <2>1, Taken DEF QueuesType
      <3> QED
        BY <3>1, <3>2 DEF ClientInv, Numbering, AnswersInOrder
    <2> QED
      BY <2>1, <2>2, <2>3 DEF AnswersMatch, QueuesType
  <1> QED
    BY <1>1, ClientInvAlways, PTL

\* The client's streams are audiod's streams: with nothing on its way the only
\* ones that audiod alone knows are those whose CLOSE a full socket refused, and
\* at no time do two of the client's streams share a ring.
THEOREM StreamsAlwaysMatch == Spec => []StreamsMatch
  <1>1. ClientInv => StreamsMatch
    <2> SUFFICES ASSUME ClientInv PROVE StreamsMatch
      OBVIOUS
    <2>1. NoLeak
      <3> SUFFICES ASSUME link = "up", requests = <<>>, answers = <<>>
                   PROVE  live = PlayingIds \cup lost /\ PlayingIds \cap lost = {}
        BY DEF NoLeak
      <3>1. DOMAIN requests = {} /\ DOMAIN answers = {}
        BY Typed, EmptySeq DEF ClientInv
      <3>2. \A x : x \in PlayingIds <=> \E s \in Slots : Playing(s) /\ slots[s].id = x
        BY DEF PlayingIds, Playing
      <3> QED
        BY <3>1, <3>2 DEF ClientInv, Holdings, LiveAll, Distinct
    <2>2. StreamsDistinct
      BY DEF StreamsDistinct, ClientInv, Holdings, Distinct, LiveAll, Playing
    <2> QED
      BY <2>1, <2>2 DEF StreamsMatch
  <1> QED
    BY <1>1, ClientInvAlways, PTL

-----------------------------------------------------------------------------
(* One stream's ring: AudioRing. *)

\* The positions in order: what the application loaded, what audiod published,
\* what audiod has read, what the application has written.  The application's
\* frames fit even counted from the position it loaded, however old it is.
RingInv ==
    /\ RingTypeOK
    /\ loaded <= read
    /\ read <= mixer_read
    /\ mixer_read <= write
    /\ written = write
    /\ write - loaded <= Capacity
    /\ app = "store" => written + taken - loaded <= Capacity

\* Positions less than Words apart are told exactly by their 32 bits, whether or
\* not one of them has wrapped.
LEMMA ApartExact ==
  ASSUME NEW a \in Nat, NEW b \in Nat, b <= a, a - b < Words
  PROVE  Apart(a, b) = a - b
  <1>1. Words \in Nat \ {0} /\ a - b \in 0 .. (Words - 1)
    BY RingAssumption DEF RingAssumption
  <1>2. \A w \in Nat \ {0} : \A d \in 0 .. (w - 1) : d % w = d
    BY SMT
  <1> QED
    BY <1>1, <1>2 DEF Apart

\* Both sides subtract positions at most Capacity apart.
LEMMA RingApart ==
  ASSUME RingInv
  PROVE  /\ Apart(write, mixer_read) = write - mixer_read
         /\ Apart(written, read) = written - read
  <1>1. write - mixer_read < Words /\ written - read < Words
    BY RingAssumption DEF RingAssumption, RingInv, RingTypeOK
  <1> QED
    BY <1>1, ApartExact DEF RingInv, RingTypeOK

\* The initial ring is empty.
LEMMA RingInvInit == RingInit => RingInv
  <1> SUFFICES ASSUME RingInit PROVE RingInv
    OBVIOUS
  <1>1. sleeping \in BOOLEAN /\ kicked \in BOOLEAN /\ withheld \in BOOLEAN
        /\ wanted \in BOOLEAN /\ ready \in BOOLEAN /\ unsaid \in BOOLEAN
    BY Zenon DEF RingInit
  <1>2. Capacity >= 0 /\ {0} \subseteq 0 .. BufferPeriods
        /\ {0} \subseteq 0 .. IdleTicks /\ {0} \subseteq 0 .. RetryTicks
    BY RingAssumption DEF RingAssumption
  <1> QED
    BY <1>1, <1>2 DEF RingInit, RingInv, RingTypeOK

\* Every step of the application and of audiod keeps the positions in order.
LEMMA RingInvNext == RingInv /\ [RingNext]_ringVars => RingInv'
  <1> SUFFICES ASSUME RingInv, [RingNext]_ringVars PROVE RingInv'
    OBVIOUS
  <1> USE RingAssumption DEF RingAssumption, RingInv, RingTypeOK
  <1>1. ASSUME NEW count \in 1 .. Capacity, LoadRead(count) PROVE RingInv'
    <2>1. /\ loaded' = read /\ taken' = Least(Room(read), count)
          /\ app' = IF Room(read) = 0 THEN "idle" ELSE "store"
          /\ UNCHANGED <<write, read, written>>
      BY <1>1 DEF LoadRead, ring
    <2>2. count \in Nat /\ Room(read) \in Nat
          /\ (Room(read) # 0 => Room(read) = Capacity - (written - read))
      BY RingApart DEF Room
    <2>3. Least(Room(read), count) \in Nat /\ Least(Room(read), count) <= Room(read)
          /\ (Room(read) = 0 => app' = "idle")
      BY <2>1, <2>2 DEF Least
    <2>4. RingTypeOK'
      BY <1>1, <2>1, <2>3 DEF LoadRead, service, ring
    <2>5. /\ (loaded <= read)' /\ (write - loaded <= Capacity)'
          /\ (app = "store" => written + taken - loaded <= Capacity)'
      BY <2>1, <2>2, <2>3
    <2> QED
      BY <1>1, <2>1, <2>4, <2>5 DEF LoadRead, ring, service
  <1>2. CASE StoreWrite
    BY <1>2 DEF StoreWrite, service
  <1>3. CASE LoadSleeping
    <2>1. kicked' \in BOOLEAN /\ withheld' \in BOOLEAN
      BY <1>3, Zenon DEF LoadSleeping
    <2> QED
      BY <1>3, <2>1 DEF LoadSleeping, ring, service
  <1>4. ASSUME NEW sent \in BOOLEAN, SendKick(sent) PROVE RingInv'
    <2>1. kicked' \in BOOLEAN /\ kick_read' \in Nat /\ kicks' \in 0 .. 1
      <3>1. CASE sent
        BY <1>4, <3>1 DEF SendKick
      <3>2. CASE ~sent
        BY <1>4, <3>2 DEF SendKick
      <3> QED
        BY <3>1, <3>2
    <2> QED
      BY <1>4, <2>1 DEF SendKick, ring, service
  <1>5. ASSUME NEW card \in BOOLEAN, NEW policy \in BOOLEAN, Wake(card, policy) PROVE RingInv'
    BY <1>5 DEF Wake, ring, application
  <1>6. CASE RefreshPolicy
    BY <1>6 DEF RefreshPolicy, Asleep, application
  <1>7. CASE Mix
    BY <1>7, RingApart DEF Mix, Least, ring, application
  <1>8. CASE FillDone
    BY <1>8 DEF FillDone, application
  <1>9. CASE CardFails
    BY <1>9 DEF CardFails, application
  <1>10. CASE Silence
    BY <1>10 DEF Silence, application
  <1>11. CASE StoreSleeping
    BY <1>11 DEF StoreSleeping, Asleep, application
  <1>12. CASE LoadWrite
    BY <1>12 DEF LoadWrite, Waits, ring, application
  <1>13. CASE OpenDevice
    BY <1>13 DEF OpenDevice, ring, application
  <1>14. CASE LoadWriteAgain
    BY <1>14 DEF LoadWriteAgain, Waits, ring, application
  <1>15. CASE Tick
    BY <1>15 DEF Tick, Down, ring, application
  <1>16. CASE TakeCard
    BY <1>16 DEF TakeCard, ring, application, service
  <1>17. CASE UNCHANGED ringVars
    BY <1>17 DEF ringVars, ring, application, service
  <1> QED
    BY <1>1, <1>2, <1>3, <1>4, <1>5, <1>6, <1>7, <1>8, <1>9, <1>10, <1>11, <1>12,
       <1>13, <1>14, <1>15, <1>16, <1>17 DEF RingNext, AppStep, Round

\* An honest application is never ended for its write counter and its copies
\* never overwrite a frame audiod has still to read, for every capacity, and the
\* wrapping positions never mislead either side.
THEOREM RingNeverOverrun == RingSpec => []NoOverwrite
  <1>1. RingInv => NoOverwrite
    BY RingApart, RingAssumption DEF RingAssumption, RingInv, RingTypeOK, NoOverwrite
  <1> QED
    BY <1>1, RingInvInit, RingInvNext, PTL DEF RingSpec

-----------------------------------------------------------------------------
\* Since the last store of sleeping, the round has changed neither the policy
\* nor the state of the card, unless the card failed in the fill after its open.
SleepInv ==
    /\ daemon \in {"look", "lookagain", "refill"} => sleeping = Asleep
    /\ daemon = "poll" => sleeping = Asleep \/ unsaid

\* A stream opens asleep.
LEMMA SleepInvInit == RingInit => SleepInv
  BY DEF RingInit, SleepInv, Asleep

\* Only a card that fails in the fill after its open changes the output behind
\* the flag's back.
LEMMA SleepInvNext ==
  ASSUME SleepInv, [RingNext]_ringVars
  PROVE  SleepInv'
  <1> USE DEF SleepInv, Asleep
  <1>1. ASSUME NEW count \in 1 .. Capacity, LoadRead(count) PROVE SleepInv'
    BY <1>1 DEF LoadRead, ring, service
  <1>2. CASE StoreWrite
    BY <1>2 DEF StoreWrite, service
  <1>3. CASE LoadSleeping
    BY <1>3 DEF LoadSleeping, ring, service
  <1>4. ASSUME NEW sent \in BOOLEAN, SendKick(sent) PROVE SleepInv'
    BY <1>4 DEF SendKick, ring, service
  <1>5. ASSUME NEW c \in BOOLEAN, NEW policy \in BOOLEAN, Wake(c, policy) PROVE SleepInv'
    BY <1>5 DEF Wake
  <1>6. CASE RefreshPolicy
    BY <1>6 DEF RefreshPolicy
  <1>7. CASE Mix
    BY <1>7 DEF Mix, ring
  <1>8. CASE FillDone
    BY <1>8 DEF FillDone
  <1>9. CASE CardFails
    BY <1>9 DEF CardFails
  <1>10. CASE Silence
    BY <1>10 DEF Silence
  <1>11. CASE StoreSleeping
    BY <1>11 DEF StoreSleeping
  <1>12. CASE LoadWrite
    BY <1>12 DEF LoadWrite, ring
  <1>13. CASE OpenDevice
    BY <1>13 DEF OpenDevice
  <1>14. CASE LoadWriteAgain
    BY <1>14 DEF LoadWriteAgain, ring
  <1>15. CASE Tick
    BY <1>15 DEF Tick, ring
  <1>16. CASE TakeCard
    BY <1>16 DEF TakeCard, ring, service
  <1>17. CASE UNCHANGED ringVars
    BY <1>17 DEF ringVars, ring, service
  <1> QED
    BY <1>1, <1>2, <1>3, <1>4, <1>5, <1>6, <1>7, <1>8, <1>9, <1>10, <1>11, <1>12,
       <1>13, <1>14, <1>15, <1>16, <1>17 DEF RingNext, AppStep, Round

\* Whenever audiod blocks in poll(), sleeping tells the application the truth,
\* or the card failed in the fill after its open, which no refresh follows.
THEOREM SleepingIsTold == RingSpec => []SleepingTold
  <1>1. SleepInv => SleepingTold
    BY DEF SleepInv, SleepingTold
  <1>2. SleepInv /\ [RingNext]_ringVars => SleepInv'
    BY SleepInvNext
  <1> QED
    BY <1>1, <1>2, SleepInvInit, PTL DEF RingSpec

-----------------------------------------------------------------------------
(* Stranded frames heal. *)

\* After the first fill of a round advanced, the card stays open or its retry is
\* ahead: it is not opened again in this round.
RoundHeld ==
    \/ output = "OPEN" /\ idle > 0
    \/ output = "UNAVAILABLE" /\ retry > 0

\* The last look of audiod found nothing to wake up for.
Quiet == audible /\ output # "OPEN" /\ ~(output = "UNAVAILABLE" /\ wanted)

\* Outside fill() the read position is the mixer's; fill() has the card open, and
\* after a try to open it the card is open or unavailable.
Published ==
    /\ daemon \notin {"fill", "refill"} => read = mixer_read
    /\ daemon \in {"fill", "refill"} => output = "OPEN"
    /\ daemon = "fill" /\ read < mixer_read => idle > 0
    /\ daemon \in {"reopened", "lookagain"} => output # "CLOSED"

\* What the application knows in the middle of a write and of its last KICK.
Writing ==
    /\ app = "store" => taken > 0
    /\ app \in {"check", "kick"} => loaded < write
    /\ kicked => kick_read <= loaded /\ kick_read < write

\* How far the positions run ahead of the last KICK: the next write that finds
\* the ring asleep sends another one, unless the one before is still unread.
KickLag ==
    kicked =>
        /\ loaded - kick_read <= 3 * Capacity
        /\ kicks = 0 /\ app = "idle" => write - kick_read <= 3 * Capacity
        /\ kicks > 0 =>
             /\ read - kick_read <= 2 * Capacity
             /\ read - kick_read > Capacity =>
                   \/ daemon = "poll"
                   \/ daemon \in {"silence", "refresh", "look"} /\ RoundHeld

\* A KICK that audiod has read was of frames that it has taken since; frames it
\* has not seen are of a write that took the KICK for sent.
Suppressed ==
    daemon = "poll" /\ Quiet /\ kicks = 0 /\ ~unsaid =>
        /\ kicked => kick_read < mixer_read
        /\ write # mixer_read /\ app = "idle" => kicked /\ loaded = kick_read /\ withheld

HealInv == Published /\ Writing /\ KickLag /\ Suppressed

\* The positions apart by which the application decides whether to send a KICK.
LEMMA KickApart ==
  ASSUME RingInv, HealInv, kicked, Apart(loaded, kick_read) = 0
  PROVE  loaded = kick_read
  <1>1. loaded \in Nat /\ kick_read \in Nat /\ kick_read <= loaded /\ loaded - kick_read < Words
    BY RingAssumption DEF RingAssumption, RingInv, RingTypeOK, HealInv, Writing, KickLag
  <1> QED
    BY <1>1, ApartExact

\* A new stream has neither frames nor a KICK.
LEMMA HealInvInit == RingInit => HealInv
  BY DEF RingInit, HealInv, Published, Writing, KickLag, Suppressed

\* The application's loads, stores and KICKs.
LEMMA HealInvApp ==
  ASSUME RingInv, SleepInv, HealInv,
         \/ \E count \in 1 .. Capacity : LoadRead(count)
         \/ StoreWrite \/ LoadSleeping \/ \E sent \in BOOLEAN : SendKick(sent)
  PROVE  HealInv'
  <1> USE RingAssumption DEF RingAssumption, RingInv, RingTypeOK
  <1>1. ASSUME NEW count \in 1 .. Capacity, LoadRead(count) PROVE HealInv'
    <2>1. /\ app = "idle" /\ loaded' = read /\ taken' = Least(Room(read), count)
          /\ app' = IF Room(read) = 0 THEN "idle" ELSE "store"
          /\ UNCHANGED <<write, read, sleeping, written, kicked, kick_read, withheld, kicks, daemon,
                         audible, output, mixer_read, wanted, idle, retry, unsaid>>
      BY <1>1 DEF LoadRead, ring, service
    <2>2. Room(read) \in Nat /\ (Room(read) = 0 => written - read >= Capacity)
      BY RingApart DEF Room
    <2>3. Published'
      BY <2>1 DEF HealInv, Published
    <2>4. Writing'
      <3>1. Room(read) # 0 => taken' > 0
        BY <2>1, <2>2 DEF Least
      <3>2. kicked => kick_read <= read
        BY DEF HealInv, Writing
      <3> QED
        BY <2>1, <2>2, <3>1, <3>2 DEF HealInv, Writing
    <2>5. KickLag'
      BY <2>1 DEF HealInv, KickLag, RoundHeld
    <2>6. Suppressed'
      <3> SUFFICES ASSUME daemon = "poll", Quiet, kicks = 0, ~unsaid
                   PROVE  /\ kicked => kick_read < mixer_read
                          /\ write # mixer_read /\ app' = "idle" =>
                                kicked /\ loaded' = kick_read /\ withheld
        BY <2>1 DEF Suppressed, Quiet
      <3>1. /\ kicked => kick_read < mixer_read
            /\ write # mixer_read => kicked /\ loaded = kick_read /\ withheld
        BY <2>1 DEF HealInv, Suppressed
      <3>2. read = mixer_read
        BY DEF HealInv, Published
      <3>3. write # mixer_read => written - read < Capacity
        BY <3>1, <3>2
      <3> QED
        BY <2>1, <2>2, <3>1, <3>3
    <2> QED
      BY <2>3, <2>4, <2>5, <2>6 DEF HealInv
  <1>2. CASE StoreWrite
    BY <1>2 DEF StoreWrite, service, HealInv, Published, Writing, KickLag, Suppressed,
       RoundHeld, Quiet
  <1>3. CASE LoadSleeping
    <2>1. /\ app = "check"
          /\ app' = IF sleeping /\ ~SameRead THEN "kick" ELSE "idle"
          /\ UNCHANGED <<write, read, sleeping, loaded, taken, written, kick_read, kicks, daemon,
                         audible, output, mixer_read, wanted, idle, retry, unsaid>>
      BY <1>3 DEF LoadSleeping, ring, service
    <2>2. (kicked' => kicked) /\ (sleeping => kicked' = kicked)
      BY <1>3, Zenon DEF LoadSleeping
    <2>3. app' = "idle" /\ kicked' => loaded = kick_read
      <3>1. app' = "idle" /\ kicked' => sleeping /\ kicked
        BY <1>3, Zenon DEF LoadSleeping
      <3>2. app' = "idle" /\ sleeping => SameRead
        BY <2>1
      <3> QED
        BY <3>1, <3>2, KickApart DEF SameRead
    <2>4. Published' /\ Writing'
      BY <2>1, <2>2 DEF HealInv, Published, Writing
    <2>5. KickLag'
      BY <2>1, <2>2, <2>3 DEF HealInv, KickLag, RoundHeld
    <2>6. Suppressed'
      <3> SUFFICES ASSUME daemon = "poll", Quiet, kicks = 0, ~unsaid
                   PROVE  /\ kicked' => kick_read < mixer_read
                          /\ write # mixer_read /\ app' = "idle" =>
                                kicked' /\ loaded = kick_read /\ withheld'
        BY <2>1 DEF Suppressed, Quiet
      <3>1. sleeping
        BY DEF SleepInv, Asleep, Quiet
      <3>2. kicked => kick_read < mixer_read
        BY DEF HealInv, Suppressed
      <3>3. app' = "idle" => SameRead /\ kicked
        BY <2>1, <3>1 DEF SameRead
      <3>4. app' = "idle" => kicked' /\ loaded = kick_read
        BY <2>2, <2>3, <3>1, <3>3
      <3>5. app' = "idle" => loaded # read
        BY <3>2, <3>3, <3>4 DEF HealInv, Published
      <3>6. app' = "idle" => withheld'
        BY <1>3, <3>1, <3>3, <3>5, Zenon DEF LoadSleeping
      <3> QED
        BY <2>2, <3>2, <3>4, <3>6
    <2> QED
      BY <2>4, <2>5, <2>6 DEF HealInv
  <1>4. ASSUME NEW sent \in BOOLEAN, SendKick(sent) PROVE HealInv'
    <2>1. /\ app = "kick" /\ app' = "idle"
          /\ UNCHANGED <<write, read, sleeping, loaded, taken, written, daemon,
                         audible, output, mixer_read, wanted, idle, retry, unsaid>>
      BY <1>4 DEF SendKick, ring, service
    <2>2. CASE sent
      <3>1. kicked' /\ kick_read' = loaded /\ kicks' = 1
        BY <1>4, <2>2 DEF SendKick
      <3> QED
        BY <2>1, <3>1 DEF HealInv, Published, Writing, KickLag, Suppressed, RoundHeld, Quiet
    <2>3. CASE ~sent
      <3>1. kicks > 0 /\ UNCHANGED <<kicked, kick_read, kicks>>
        BY <1>4, <2>3 DEF SendKick
      <3> QED
        BY <2>1, <3>1 DEF HealInv, Published, Writing, KickLag, Suppressed, RoundHeld, Quiet
    <2> QED
      BY <2>2, <2>3
  <1> QED
    BY <1>1, <1>2, <1>3, <1>4

\* audiod's round, the time and the card.
LEMMA HealInvService ==
  ASSUME RingInv, SleepInv, HealInv,
         \/ \E c, policy \in BOOLEAN : Wake(c, policy)
         \/ Round \/ CardFails \/ Tick \/ TakeCard
  PROVE  HealInv'
  <1> USE RingAssumption DEF RingAssumption, RingInv, RingTypeOK, HealInv, Published, Writing,
      KickLag, Suppressed, RoundHeld, Quiet
  <1>1. ASSUME NEW c \in BOOLEAN, NEW policy \in BOOLEAN, Wake(c, policy) PROVE HealInv'
    BY <1>1 DEF Wake, ring, application
  <1>2. CASE RefreshPolicy
    BY <1>2 DEF RefreshPolicy, application
  <1>3. CASE Mix
    BY <1>3, RingApart DEF Mix, Least, ring, application
  <1>4. CASE FillDone
    BY <1>4 DEF FillDone, application
  <1>5. CASE CardFails
    BY <1>5 DEF CardFails, application
  <1>6. CASE Silence
    BY <1>6 DEF Silence, application
  <1>7. CASE StoreSleeping
    BY <1>7 DEF StoreSleeping, application
  <1>8. CASE LoadWrite
    BY <1>8, RingApart DEF LoadWrite, Waits, ring, application
  <1>9. CASE OpenDevice
    BY <1>9 DEF OpenDevice, ring, application
  <1>10. CASE LoadWriteAgain
    <2>1. /\ daemon = "lookagain" /\ wanted' = Waits
          /\ daemon' = IF output = "OPEN" THEN "refill" ELSE "poll"
          /\ UNCHANGED <<write, read, sleeping, app, loaded, taken, written, kicked, kick_read,
                         withheld, kicks, audible, output, mixer_read, idle, retry, unsaid>>
      BY <1>10 DEF LoadWriteAgain, ring, application
    <2>2. daemon' = "poll" /\ Quiet' => write = mixer_read
      <3>1. Waits <=> audible /\ output # "OPEN" /\ write # mixer_read
        BY RingApart DEF Waits
      <3> QED
        BY <2>1, <3>1
    <2>3. Published' /\ Writing' /\ KickLag'
      BY <2>1
    <2>4. Suppressed'
      BY <2>1, <2>2
    <2> QED
      BY <2>3, <2>4
  <1>11. CASE Tick
    BY <1>11 DEF Tick, Down, ring, application
  <1>12. CASE TakeCard
    BY <1>12 DEF TakeCard, ring, application, service
  <1> QED
    BY <1>1, <1>2, <1>3, <1>4, <1>5, <1>6, <1>7, <1>8, <1>9, <1>10, <1>11, <1>12 DEF Round

\* Frames that nobody will wake for have one of two causes: the card failed in
\* the fill after its open, or the write held its KICK back for a read position
\* that audiod had moved since; then the ring has room, and the next write that
\* adds frames sends a KICK.
THEOREM StrandedFramesHeal == RingSpec => []RingHeals
  <1> DEFINE Inv == RingInv /\ SleepInv /\ HealInv
  <1>1. RingInit => Inv
    BY RingInvInit, SleepInvInit, HealInvInit
  <1>2. Inv /\ [RingNext]_ringVars => Inv'
    <2> SUFFICES ASSUME Inv, [RingNext]_ringVars PROVE HealInv'
      BY RingInvNext, SleepInvNext
    <2>1. CASE RingNext
      BY <2>1, HealInvApp, HealInvService DEF RingNext, AppStep
    <2>2. CASE UNCHANGED ringVars
      BY <2>2 DEF ringVars, ring, application, service, HealInv, Published, Writing, KickLag,
         Suppressed, RoundHeld, Quiet
    <2> QED
      BY <2>1, <2>2
  <1>3. Inv => RingHeals
    <2> SUFFICES ASSUME Inv, Stranded, ~unsaid
                 PROVE  /\ withheld /\ sleeping /\ written - read < Capacity
                        /\ ~kicked \/ Apart(read, kick_read) # 0
      BY DEF RingHeals, StrandedHeals, NextWriteKicks, RingInv
    <2>1. daemon = "poll" /\ Quiet /\ kicks = 0 /\ app = "idle" /\ write # mixer_read
      BY DEF Stranded, Quiet
    <2>2. sleeping
      BY <2>1 DEF SleepInv, Asleep, Quiet
    <2>3. kicked /\ loaded = kick_read /\ withheld /\ kick_read < mixer_read
          /\ read = mixer_read
      BY <2>1 DEF HealInv, Suppressed, Published
    <2>4. read \in Nat /\ kick_read \in Nat /\ kick_read < read /\ read - kick_read <= Capacity
          /\ written - read < Capacity
      BY <2>3, RingAssumption DEF RingAssumption, RingInv, RingTypeOK
    <2>5. Apart(read, kick_read) = read - kick_read
      BY <2>4, ApartExact, RingAssumption DEF RingAssumption
    <2> QED
      BY <2>2, <2>3, <2>4, <2>5
  <1> HIDE DEF Inv
  <1> QED
    BY <1>1, <1>2, <1>3, PTL DEF RingSpec
=============================================================================
