-------------------------- MODULE AudioOutputProofs --------------------------
(***************************************************************************)
(* For every period, card buffer and history that main() of audiod.c        *)
(* accepts: the accounting of output frames is exact, the marks of a stream *)
(* reach back beyond the frames the card holds, and the heard position of a *)
(* stream is right although it is compared modulo 2^32.                     *)
(***************************************************************************)
EXTENDS AudioOutput, TLAPS, WellFoundedInduction

\* Consecutive marks are a period apart, back from the newest.
MarksSpaced ==
    stream => \A i \in Marks : i < count => marks[i].output = mixed - i * Period

\* The types, the accounting and the marks' outputs.
OutputInv ==
    /\ OutputTypeOK
    /\ Accounting
    /\ fill = "avail" => pending = 0
    /\ MarksSpaced

\* The read positions of a stream's marks, from the newest on, do not rise, the
\* newest is the stream's, and `heard' lies where the marks around the greatest
\* position played so far say.
HeardInv ==
    /\ played <= mixed
    /\ stream =>
         /\ count >= 1 /\ marks[0].read = read
         /\ \A i, j \in Marks : i <= j /\ j < count => marks[j].read <= marks[i].read
         /\ \A i \in Marks : i < count =>
              /\ marks[i].output <= played => marks[i].read <= heard
              /\ marks[i].output >= played => heard <= marks[i].read

\* The heard position lags behind the read position no further than the output
\* published does behind the mix, and a period: what makes a comparison modulo
\* Words exact.  The marks' read positions are at most a period apart, and the
\* oldest mark of a short history is the stream's first.
LagInv ==
    /\ mixed - played <= MaxAhead
    /\ stream =>
         /\ read <= heard + (mixed - played) + Period
         /\ \A i \in Marks : i < count => read <= marks[i].read + i * Period
         /\ count < History => marks[count - 1].read = 0

-----------------------------------------------------------------------------
(* Arithmetic. *)

\* One step of the multiplication, which the marks take with every period.
LEMMA Distribute ==
  \A i, p \in Int : (i - 1) * p = i * p - p
  OBVIOUS

\* The buffer sizes main() accepts leave room for four marks or more.
LEMMA HistoryLength ==
  /\ Period \in Nat /\ Period > 0 /\ Buffer \in Nat
  /\ History \in Nat /\ History >= 4
  /\ Buffer + Period <= (History - 1) * Period
  <1> USE OutputAssumption DEF OutputAssumption
  <1>1. History \in Nat /\ Period \in Nat /\ Period > 0 /\ Buffer \in Nat
        /\ 2 * Period <= (History - 2) * Period
    <2>1. (History - 2) * Period \in Int /\ 2 * Period \in Int
      OBVIOUS
    <2> QED
      BY <2>1
  <1>2. History >= 4
    <2>1. CASE History <= 3
      <3>1. \A h, p \in Int : h <= 1 /\ p > 0 => h * p <= p
        OBVIOUS
      <3>2. (History - 2) * Period <= Period
        BY <1>1, <2>1, <3>1
      <3> QED
        BY <1>1, <3>2
    <2> QED
      BY <1>1, <2>1
  <1>3. (History - 2) * Period = (History - 1) * Period - Period
    BY <1>1, Distribute
  <1> QED
    BY <1>1, <1>2, <1>3

\* Sets of natural numbers have a least element.
LEMMA LeastNatural ==
  ASSUME NEW T, T \subseteq Nat, T # {}
  PROVE  \E x \in T : \A y \in T : x <= y
  <1>1. \E x \in T : \A y \in T : ~(<<y, x>> \in OpToRel(<, Nat))
    BY NatLessThanWellFounded, WFMin
  <1>2. \A x, y \in Nat : ~(<<y, x>> \in OpToRel(<, Nat)) => x <= y
    BY DEF OpToRel
  <1> QED
    BY <1>1, <1>2

\* A part of x in proportion t to p lies between 0 and x.
LEMMA Proportion ==
  ASSUME NEW x \in Nat, NEW t \in Nat, NEW p \in Nat, p > 0, t <= p
  PROVE  (x * t) \div p \in 0 .. x
  <1>1. \A a, b, c \in Nat : b <= c => a * b <= a * c
    OBVIOUS
  <1>2. x * t \in Nat /\ x * p \in Nat /\ x * t <= x * p
    BY <1>1
  <1>3. \A d, q \in Nat : q > 0 => d \div q \in Nat /\ q * (d \div q) <= d
    OBVIOUS
  <1>4. (x * t) \div p \in Nat /\ p * ((x * t) \div p) <= x * p
    BY <1>2, <1>3
  <1>5. \A a, b, c \in Nat : c > 0 /\ c * a <= b * c => a <= b
    OBVIOUS
  <1> QED
    BY <1>4, <1>5

\* Below half of the words the sign of the difference is the order.
LEMMA SignedExact ==
  ASSUME NEW a \in Int, NEW b \in Int,
         a - b <= MaxAhead + Period, b - a <= MaxAhead + Period
  PROVE  Later(a, b) <=> a > b
  <1>1. /\ MaxAhead \in Nat /\ Period \in Nat /\ Words \in Nat /\ Words > 0
        /\ 2 * (MaxAhead + Period) < Words
    BY OutputAssumption DEF OutputAssumption
  <1>2. \A d, m \in Int : 0 <= d /\ d < m => d % m = d
    OBVIOUS
  <1>3. \A d, m \in Int : d < 0 /\ 0 <= d + m /\ m > 0 => d % m = d + m
    OBVIOUS
  <1>4. CASE a - b >= 0
    <2>1. (a - b) % Words = a - b
      BY <1>1, <1>2, <1>4
    <2> QED
      BY <1>1, <1>4, <2>1 DEF Later
  <1>5. CASE a - b < 0
    <2>1. (a - b) % Words = (a - b) + Words
      BY <1>1, <1>3, <1>5
    <2> QED
      BY <1>1, <1>5, <2>1 DEF Later
  <1> QED
    BY <1>4, <1>5

-----------------------------------------------------------------------------
(* fplinux_audio_mixer_heard. *)

\* The newest mark that has left the output exists as soon as any has.
LEMMA HeardMarkExists ==
  ASSUME OutputInv, NEW at \in Nat, NEW j \in Marks, j < count, marks[j].output <= at
  PROVE  \E i \in Marks : IsHeardMark(i, at)
  <1> DEFINE T == {i \in Marks : i < count /\ marks[i].output <= at}
  <1>1. T \subseteq Nat /\ T # {}
    BY DEF Marks
  <1>2. PICK i \in T : \A y \in T : i <= y
    <2> HIDE DEF T
    <2> QED
      BY <1>1, LeastNatural
  <1>3. \A y \in Marks : y < i => at < marks[y].output
    <2> SUFFICES ASSUME NEW y \in Marks, y < i PROVE at < marks[y].output
      OBVIOUS
    <2>1. y \in Int /\ i \in Int /\ count \in Int /\ i < count /\ ~(i <= y)
      BY <1>2 DEF Marks, OutputInv, OutputTypeOK
    <2>2. y < count /\ y \notin T
      BY <1>2, <2>1
    <2>3. ~(marks[y].output <= at) /\ marks[y].output \in Nat
      BY <2>2 DEF OutputInv, OutputTypeOK
    <2> QED
      BY <2>3
  <1> QED
    BY <1>2, <1>3 DEF IsHeardMark

\* Between two marks the interpolated position lies between theirs, and on a mark
\* it is the mark's.
LEMMA InterpolatedBetween ==
  ASSUME OutputInv, HeardInv, stream, NEW at \in Nat, NEW i \in Marks, IsHeardMark(i, at)
  PROVE  /\ Interpolated(i, at) \in Nat
         /\ marks[i].read <= Interpolated(i, at)
         /\ \A j \in Marks : j < i => Interpolated(i, at) <= marks[j].read
         /\ marks[i].output = at => Interpolated(i, at) = marks[i].read
  <1> USE HistoryLength DEF OutputInv, OutputTypeOK
  <1>1. i \in Int /\ i >= 0 /\ i < count /\ marks[i].output \in Nat /\ marks[i].read \in Nat
        /\ marks[i].output <= at
    BY DEF IsHeardMark, Marks
  <1>2. CASE i = 0
    BY <1>1, <1>2 DEF Interpolated, Marks
  <1>3. CASE i # 0
    <2> DEFINE before == marks[i - 1]
               x == before.read - marks[i].read
               t == at - marks[i].output
    <2>1. i - 1 \in Marks /\ i - 1 < count /\ i - 1 < i /\ i - 1 <= i
      BY <1>1, <1>3 DEF Marks
    <2>2. before.output \in Nat /\ before.read \in Nat
      BY <2>1
    <2>3. before.output - marks[i].output = Period
      <3>1. marks[i].output = mixed - i * Period /\ before.output = mixed - (i - 1) * Period
        BY <1>1, <2>1 DEF MarksSpaced
      <3>2. i * Period \in Int /\ (i - 1) * Period = i * Period - Period
        BY <1>1, Distribute
      <3> QED
        BY <3>1, <3>2
    <2>4. marks[i].read <= before.read /\ at < before.output
      BY <1>1, <2>1 DEF HeardInv, IsHeardMark
    <2>5. x \in Nat /\ t \in Nat /\ t <= Period
      BY <1>1, <2>2, <2>3, <2>4
    <2>6. (x * t) \div Period \in 0 .. x
      BY <2>5, Proportion
    <2>7. Interpolated(i, at) = marks[i].read + (x * t) \div Period
      BY <1>3, <2>3 DEF Interpolated
    <2>8. marks[i].output = at => (x * t) \div Period = 0
      <3>1. marks[i].output = at => t = 0
        BY <1>1
      <3>2. x * 0 = 0 /\ 0 \div Period = 0
        BY <2>5
      <3> QED
        BY <3>1, <3>2
    <2>9. ASSUME NEW j \in Marks, j < i PROVE before.read <= marks[j].read
      BY <1>1, <2>1, <2>9 DEF HeardInv, Marks
    <2>10. \A j \in Marks : marks[j].read \in Nat
      OBVIOUS
    <2>11. Interpolated(i, at) \in Nat /\ marks[i].read <= Interpolated(i, at)
           /\ Interpolated(i, at) <= before.read
           /\ (marks[i].output = at => Interpolated(i, at) = marks[i].read)
      <3> HIDE DEF before, t
      <3> QED
        BY <1>1, <2>2, <2>5, <2>6, <2>7, <2>8
    <2> QED
      BY <2>2, <2>9, <2>10, <2>11
  <1> QED
    BY <1>2, <1>3

\* A position audiod publishes: at most the card's frames and a period behind.
InReach(at) == at \in Nat /\ at <= mixed /\ mixed - at <= Buffer + Period

\* The heard position is at most the read position.
LEMMA HeardBelowRead ==
  ASSUME OutputInv, HeardInv, stream
  PROVE  heard <= read /\ 0 \in Marks /\ 0 < count /\ marks[0].read = read
  <1>1. 0 \in Marks /\ 0 < count /\ marks[0].read = read
    BY HistoryLength DEF Marks, HeardInv, OutputInv, OutputTypeOK
  <1>2. marks[0].output = mixed - 0 * Period
    BY <1>1 DEF OutputInv, MarksSpaced
  <1>3. marks[0].output >= played
    BY <1>2, HistoryLength DEF HeardInv, OutputInv, OutputTypeOK
  <1> QED
    BY <1>1, <1>3 DEF HeardInv

\* The mark that has left the output is at most a period behind the position.
LEMMA MarkNear ==
  ASSUME OutputInv, HeardInv, LagInv, stream, NEW at \in Nat, at <= mixed,
         NEW i \in Marks, IsHeardMark(i, at)
  PROVE  read <= marks[i].read + (mixed - at) + Period
  <1> USE HistoryLength DEF OutputInv, OutputTypeOK
  <1>1. i \in Int /\ i >= 0 /\ i < count /\ marks[i].read \in Nat
        /\ read <= marks[i].read + i * Period
    BY DEF IsHeardMark, Marks, LagInv
  <1>2. CASE i = 0
    <2>1. i * Period = 0
      BY <1>2
    <2> QED
      BY <1>1, <2>1
  <1>3. CASE i # 0
    <2>1. i - 1 \in Marks /\ i - 1 < count /\ i - 1 < i
      BY <1>1, <1>3 DEF Marks
    <2>2. at < marks[i - 1].output /\ marks[i - 1].output = mixed - (i - 1) * Period
      BY <2>1 DEF IsHeardMark, MarksSpaced
    <2>3. i * Period \in Int /\ (i - 1) * Period = i * Period - Period
      BY <1>1, Distribute
    <2> QED
      BY <1>1, <2>2, <2>3
  <1> QED
    BY <1>2, <1>3

\* The signed comparison decides as the whole positions would.
LEMMA HeardAtIs ==
  ASSUME OutputInv, HeardInv, LagInv, stream, NEW at, InReach(at),
         NEW i \in Marks, IsHeardMark(i, at)
  PROVE  /\ Interpolated(i, at) \in Nat
         /\ Later(Interpolated(i, at), heard) <=> Interpolated(i, at) > heard
  <1> USE HistoryLength DEF OutputInv, OutputTypeOK
  <1>1. at \in Nat /\ at <= mixed /\ mixed - at <= Buffer + Period
    BY DEF InReach
  <1>2. /\ Interpolated(i, at) \in Nat /\ marks[i].read <= Interpolated(i, at)
        /\ \A j \in Marks : j < i => Interpolated(i, at) <= marks[j].read
    BY <1>1, InterpolatedBetween
  <1>3. heard <= read /\ 0 \in Marks /\ marks[0].read = read
    BY HeardBelowRead
  <1>4. Interpolated(i, at) <= read
    <2>1. CASE i = 0
      BY <1>3, <2>1 DEF Interpolated
    <2>2. CASE i # 0
      BY <1>2, <1>3, <2>2 DEF Marks
    <2> QED
      BY <2>1, <2>2
  <1>5. read <= marks[i].read + (mixed - at) + Period
    BY <1>1, MarkNear
  <1>6. read <= heard + MaxAhead + Period
    BY OutputAssumption DEF OutputAssumption, LagInv
  <1>7. MaxAhead \in Nat /\ Buffer + 2 * Period <= MaxAhead
    BY OutputAssumption DEF OutputAssumption
  <1>8. marks[i].read \in Nat
    OBVIOUS
  <1>9. /\ Interpolated(i, at) - heard <= MaxAhead + Period
        /\ heard - Interpolated(i, at) <= MaxAhead + Period
    BY <1>1, <1>2, <1>3, <1>4, <1>5, <1>6, <1>7, <1>8
  <1> QED
    BY <1>2, <1>9, SignedExact

\* `heard' only moves forward.
LEMMA HeardForward ==
  ASSUME OutputInv, HeardInv, LagInv, stream, NEW at, InReach(at)
  PROVE  HeardAt(at) \in Nat /\ HeardAt(at) >= heard
  <1> USE DEF OutputInv, OutputTypeOK
  <1>1. CASE \E i \in Marks : IsHeardMark(i, at)
    <2> DEFINE i == CHOOSE j \in Marks : IsHeardMark(j, at)
    <2>1. i \in Marks /\ IsHeardMark(i, at)
      BY <1>1
    <2>2. HeardAt(at) = IF Later(Interpolated(i, at), heard) THEN Interpolated(i, at) ELSE heard
      BY <1>1 DEF HeardAt
    <2> HIDE DEF i
    <2> QED
      BY <2>1, <2>2, HeardAtIs
  <1>2. CASE ~(\E i \in Marks : IsHeardMark(i, at))
    BY <1>2 DEF HeardAt
  <1> QED
    BY <1>1, <1>2

\* fplinux_audio_mixer_heard, between the marks.
LEMMA HeardAtRight ==
  ASSUME OutputInv, HeardInv, LagInv, stream, NEW at, InReach(at), NEW j \in Marks, j < count
  PROVE  /\ marks[j].output <= at => marks[j].read <= HeardAt(at)
         /\ marks[j].output >= at /\ heard <= marks[j].read => HeardAt(at) <= marks[j].read
  <1> USE DEF OutputInv, OutputTypeOK
  <1>0. at \in Nat
    BY DEF InReach
  <1>1. CASE \E i \in Marks : IsHeardMark(i, at)
    <2> DEFINE i == CHOOSE k \in Marks : IsHeardMark(k, at)
    <2>1. i \in Marks /\ IsHeardMark(i, at)
      BY <1>1
    <2>a. HeardAt(at) = IF Later(Interpolated(i, at), heard) THEN Interpolated(i, at) ELSE heard
      BY <1>1 DEF HeardAt
    <2> HIDE DEF i
    <2>2. HeardAt(at) = IF Interpolated(i, at) > heard THEN Interpolated(i, at) ELSE heard
      BY <2>1, <2>a, HeardAtIs
    <2>3. /\ Interpolated(i, at) \in Nat /\ marks[i].read <= Interpolated(i, at)
          /\ \A k \in Marks : k < i => Interpolated(i, at) <= marks[k].read
          /\ marks[i].output = at => Interpolated(i, at) = marks[i].read
      BY <1>0, <2>1, InterpolatedBetween
    <2>4. i \in Int /\ j \in Int /\ marks[j].read \in Nat /\ marks[i].read \in Nat
          /\ marks[j].output \in Nat /\ marks[i].output \in Nat /\ i < count
          /\ marks[i].output <= at
      BY <2>1, HistoryLength DEF Marks, IsHeardMark
    <2>5. CASE marks[j].output <= at
      <3>1. i <= j
        BY <1>0, <2>1, <2>4, <2>5 DEF IsHeardMark
      <3>2. marks[j].read <= marks[i].read
        BY <2>1, <3>1 DEF HeardInv
      <3>3. j # i => marks[j].output # at
        <4>1. marks[i].output = mixed - i * Period /\ marks[j].output = mixed - j * Period
          BY <2>1, <2>4 DEF MarksSpaced
        <4>2. \A a, b, c \in Int : c > 0 /\ a < b => a * c < b * c
          OBVIOUS
        <4>3. i < j => i * Period < j * Period
          BY <2>4, <4>2, HistoryLength
        <4>4. i * Period \in Int /\ j * Period \in Int
          BY <2>4, HistoryLength
        <4> QED
          BY <2>4, <3>1, <4>1, <4>3, <4>4
      <3> QED
        BY <1>0, <2>2, <2>3, <2>4, <2>5, <3>2, <3>3
    <2>6. CASE marks[j].output > at
      <3>1. j < i
        <4>1. i <= j => marks[j].output <= marks[i].output
          <5>1. marks[i].output = mixed - i * Period /\ marks[j].output = mixed - j * Period
            BY <2>1, <2>4 DEF MarksSpaced
          <5>2. \A a, b, c \in Int : c > 0 /\ a <= b => a * c <= b * c
            OBVIOUS
          <5>3. i <= j => i * Period <= j * Period
            BY <2>4, <5>2, HistoryLength
          <5>4. i * Period \in Int /\ j * Period \in Int
            BY <2>4, HistoryLength
          <5> QED
            BY <5>1, <5>3, <5>4
        <4> QED
          BY <1>0, <2>4, <2>6, <4>1
      <3>2. Interpolated(i, at) <= marks[j].read
        BY <2>3, <3>1
      <3> QED
        BY <1>0, <2>2, <2>3, <2>4, <2>6, <3>2
    <2> QED
      BY <1>0, <2>4, <2>5, <2>6
  <1>2. CASE ~(\E i \in Marks : IsHeardMark(i, at))
    <2>1. HeardAt(at) = heard
      BY <1>2 DEF HeardAt
    <2>2. ~(marks[j].output <= at)
      BY <1>0, <1>2, HeardMarkExists
    <2> QED
      BY <1>0, <2>1, <2>2
  <1> QED
    BY <1>1, <1>2

-----------------------------------------------------------------------------
(* fplinux_audio_streams_publish. *)

\* fplinux_audio_streams_publish keeps the types.
LEMMA PublishForward ==
  ASSUME OutputInv, HeardInv, LagInv, NEW at, InReach(at), publish(at)
  PROVE  /\ heard' \in Nat /\ played' \in Nat
         /\ stream => heard' >= heard
  BY HeardForward DEF publish, OutputInv, OutputTypeOK, InReach

\* What audiod publishes is in reach: the whole mix when the card is closed, else
\* what the card has played.
LEMMA PublishedInReach ==
  ASSUME OutputInv
  PROVE  /\ InReach(mixed)
         /\ \A reported \in {0, delay} : InReach(PlayedWith(reported))
  BY HistoryLength DEF OutputInv, OutputTypeOK, Accounting, InReach, PlayedWith

\* A full history reaches back to every position audiod publishes.
LEMMA FullHistoryReaches ==
  ASSUME OutputInv, stream, NEW at, InReach(at)
  PROVE  count < History \/ marks[History - 1].output <= at
  <1> SUFFICES ASSUME ~(count < History) PROVE marks[History - 1].output <= at
    OBVIOUS
  <1> USE HistoryLength DEF OutputInv, OutputTypeOK, InReach
  <1>1. History - 1 \in Marks /\ History - 1 < count
    BY DEF Marks
  <1>2. marks[History - 1].output = mixed - (History - 1) * Period
    BY <1>1 DEF MarksSpaced
  <1>3. (History - 1) * Period \in Int
    OBVIOUS
  <1> QED
    BY <1>2, <1>3

\* fplinux_audio_streams_publish keeps the heard position right, also for a
\* position that is behind one published before.
LEMMA PublishRight ==
  ASSUME OutputInv, HeardInv, LagInv, NEW at, InReach(at), publish(at),
         UNCHANGED <<mixed, stream, read, count, marks>>
  PROVE  HeardInv'
  <1> USE DEF OutputInv, OutputTypeOK
  <1>1. played' = (IF at > played THEN at ELSE played) /\ (stream => heard' = HeardAt(at))
    BY DEF publish
  <1>2. played' \in Nat /\ at <= played' /\ played <= played' /\ played' <= mixed
    BY <1>1 DEF HeardInv, InReach
  <1>3. ASSUME NEW i \in Marks, i < count, stream
        PROVE  /\ marks[i].output <= played' => marks[i].read <= heard'
               /\ marks[i].output >= played' => heard' <= marks[i].read
    <2>1. /\ marks[i].output <= at => marks[i].read <= HeardAt(at)
          /\ marks[i].output >= at /\ heard <= marks[i].read => HeardAt(at) <= marks[i].read
      BY <1>3, HeardAtRight
    <2>2. /\ marks[i].output <= played => marks[i].read <= heard
          /\ marks[i].output >= played => heard <= marks[i].read
      BY <1>3 DEF HeardInv
    <2>3. HeardAt(at) \in Nat /\ HeardAt(at) >= heard
      BY <1>3, HeardForward
    <2>4. marks[i].output \in Nat /\ marks[i].read \in Nat
      OBVIOUS
    <2> QED
      BY <1>1, <1>2, <1>3, <2>1, <2>2, <2>3, <2>4 DEF InReach
  <1> QED
    BY <1>2, <1>3 DEF HeardInv

\* fplinux_audio_streams_publish keeps the heard position near the published one.
LEMMA PublishLag ==
  ASSUME OutputInv, HeardInv, LagInv, NEW at, InReach(at), publish(at),
         stream => count < History \/ marks[History - 1].output <= at,
         UNCHANGED <<mixed, stream, read, count, marks>>
  PROVE  LagInv'
  <1> USE HistoryLength DEF OutputInv, OutputTypeOK
  <1>1. played' = (IF at > played THEN at ELSE played) /\ (stream => heard' = HeardAt(at))
    BY DEF publish
  <1>2. at \in Nat /\ at <= mixed /\ played' \in Nat /\ played <= played'
    BY <1>1 DEF InReach
  <1>3. mixed' - played' <= MaxAhead
    BY <1>1, <1>2, OutputAssumption DEF LagInv, OutputAssumption
  <1>4. ASSUME stream, NEW h \in Nat, h = heard', NEW p \in Nat, p = played'
        PROVE  read <= h + (mixed - p) + Period
    <2>1. h >= heard /\ h = HeardAt(at)
      BY <1>1, <1>4, HeardForward
    <2>2. p = (IF at > played THEN at ELSE played)
      BY <1>1, <1>4
    <2>3. read <= heard + (mixed - played) + Period
      BY <1>4 DEF LagInv
    <2>4. CASE at <= played
      BY <1>2, <2>1, <2>2, <2>3, <2>4
    <2>5. CASE at > played /\ \E i \in Marks : IsHeardMark(i, at)
      <3> DEFINE i == CHOOSE k \in Marks : IsHeardMark(k, at)
      <3>1. i \in Marks /\ IsHeardMark(i, at)
        BY <2>5
      <3>2. HeardAt(at) = IF Later(Interpolated(i, at), heard) THEN Interpolated(i, at) ELSE heard
        BY <2>5 DEF HeardAt
      <3> HIDE DEF i
      <3>3. Interpolated(i, at) \in Nat /\ h >= Interpolated(i, at)
        BY <1>4, <2>1, <3>1, <3>2, HeardAtIs
      <3>4. marks[i].read <= Interpolated(i, at) /\ marks[i].read \in Nat
        BY <1>2, <1>4, <3>1, InterpolatedBetween
      <3>5. read <= marks[i].read + (mixed - at) + Period
        BY <1>2, <1>4, <3>1, MarkNear
      <3> QED
        BY <1>2, <2>2, <2>5, <3>3, <3>4, <3>5
    <2>6. CASE at > played /\ ~(\E i \in Marks : IsHeardMark(i, at))
      <3>1. count \in Int /\ count >= 1 /\ count - 1 \in Marks /\ count - 1 < count
        BY <1>4 DEF HeardInv, Marks
      <3>2. ~(marks[count - 1].output <= at)
        BY <1>2, <2>6, <3>1, HeardMarkExists
      <3>3. count < History
        BY <1>4, <3>1, <3>2
      <3>4. marks[count - 1].read = 0 /\ read <= 0 + (count - 1) * Period
        BY <1>4, <3>1, <3>3 DEF LagInv
      <3>5. marks[count - 1].output = mixed - (count - 1) * Period
            /\ marks[count - 1].output \in Nat
        BY <1>4, <3>1 DEF MarksSpaced
      <3>6. (count - 1) * Period \in Int
        BY <3>1
      <3> QED
        BY <1>2, <2>2, <2>6, <3>2, <3>4, <3>5, <3>6
    <2> QED
      BY <1>2, <2>4, <2>5, <2>6
  <1>5. stream => heard' \in Nat
    BY <1>1, HeardForward
  <1>6. stream => read <= heard' + (mixed - played') + Period
    BY <1>2, <1>4, <1>5, Zenon
  <1> QED
    BY <1>3, <1>6 DEF LagInv

-----------------------------------------------------------------------------
(* The inductive invariant. *)

\* Nothing is mixed and no stream is open at the start.
LEMMA OutputInvInit == OutputInit => OutputInv
  <1> SUFFICES ASSUME OutputInit PROVE OutputInv
    OBVIOUS
  <1>1. marks \in [Marks -> [output : Nat, read : Nat]]
    BY DEF OutputInit, Mark
  <1>2. stream \in BOOLEAN /\ ~stream
    BY Zenon DEF OutputInit
  <1>3. OutputTypeOK
    BY <1>1, <1>2, HistoryLength DEF OutputInit, OutputTypeOK
  <1>4. MarksSpaced
    BY <1>2 DEF MarksSpaced
  <1> QED
    BY <1>3, <1>4 DEF OutputInit, OutputInv, Accounting

\* A period pushes every mark back by one place and by one period.
LEMMA MixSpaces ==
  ASSUME OutputInv, NEW frames \in 0 .. Period, Mix(frames)
  PROVE  /\ marks' \in [Marks -> [output : Nat, read : Nat]]
         /\ MarksSpaced'
  <1> USE HistoryLength DEF OutputInv, OutputTypeOK
  <1>1. CASE ~stream
    BY <1>1 DEF Mix, MarksSpaced
  <1>2. CASE stream
    <2>1. marks' = Remembered(Mark(mixed + Period, read + frames))
          /\ count' = (IF count < History THEN count + 1 ELSE count)
          /\ mixed' = mixed + Period
      BY <1>2 DEF Mix, MoreMarks
    <2>2. Mark(mixed + Period, read + frames) \in [output : Nat, read : Nat]
      BY DEF Mark
    <2>3. \A i \in Marks : i # 0 => i - 1 \in Marks
      BY DEF Marks
    <2>4. marks' \in [Marks -> [output : Nat, read : Nat]]
      BY <2>1, <2>2, <2>3 DEF Remembered
    <2>5. ASSUME NEW i \in Marks, i < count' PROVE marks'[i].output = mixed' - i * Period
      <3>1. CASE i = 0
        BY <2>1, <3>1 DEF Remembered, Mark
      <3>2. CASE i # 0
        <4>1. i \in Int /\ i - 1 \in Marks /\ i - 1 < count
          BY <2>1, <2>3, <2>5, <3>2 DEF Marks
        <4>2. marks'[i].output = mixed - (i - 1) * Period
          BY <1>2, <2>1, <3>2, <4>1 DEF Remembered, MarksSpaced
        <4>3. i * Period \in Int /\ (i - 1) * Period = i * Period - Period
          BY <4>1, Distribute
        <4> QED
          BY <2>1, <4>2, <4>3
      <3> QED
        BY <3>1, <3>2
    <2> QED
      BY <2>4, <2>5 DEF MarksSpaced
  <1> QED
    BY <1>1, <1>2

\* Every step of fill(), of the card and of the stream keeps the invariant.
LEMMA OutputInvNext ==
  ASSUME OutputInv, HeardInv, LagInv, [OutputNext]_outputVars
  PROVE  OutputInv'
  <1> USE HistoryLength DEF OutputInv, OutputTypeOK, Accounting
  <1>1. CASE OpenDevice
    BY <1>1 DEF OpenDevice, Filling, position, MarksSpaced
  <1>2. CASE CardReady
    BY <1>2 DEF CardReady, Filling, card, position, MarksSpaced
  <1>3. CASE NoRoom
    BY <1>3 DEF NoRoom, card, position, MarksSpaced
  <1>4. CASE Underrun
    BY <1>4 DEF Underrun, position, MarksSpaced
  <1>5. CASE CardFails
    <2>1. heard' \in Nat /\ played' \in Nat
      BY <1>5, PublishedInReach, PublishForward DEF CardFails, close_device
    <2> QED
      BY <1>5, <2>1 DEF CardFails, close_device, MarksSpaced
  <1>6. CASE CloseIdle
    <2>1. heard' \in Nat /\ played' \in Nat
      BY <1>6, PublishedInReach, PublishForward DEF CloseIdle, close_device
    <2> QED
      BY <1>6, <2>1 DEF CloseIdle, close_device, MarksSpaced
  <1>7. ASSUME NEW frames \in 0 .. Period, Write(frames) PROVE OutputInv'
    BY <1>7 DEF Write, position, MarksSpaced
  <1>8. ASSUME NEW frames \in 0 .. Period, Mix(frames) PROVE OutputInv'
    <2>1. read' \in Nat /\ count' \in 0 .. History
      BY <1>8 DEF Mix, MoreMarks
    <2>2. marks' \in [Marks -> [output : Nat, read : Nat]] /\ MarksSpaced'
      BY <1>8, MixSpaces
    <2>3. /\ fill' = "write" /\ mixed' = mixed + Period /\ pending' = Period
          /\ UNCHANGED <<output, written, delay, played, stream, heard>>
      BY <1>8 DEF Mix
    <2>4. pending = 0 /\ output = "OPEN"
      BY <1>8 DEF Mix
    <2> QED
      BY <2>1, <2>2, <2>3, <2>4
  <1>9. ASSUME NEW reported \in {0, delay}, Publish(reported) PROVE OutputInv'
    <2>2. heard' \in Nat /\ played' \in Nat
      BY <1>9, PublishedInReach, PublishForward DEF Publish
    <2> QED
      BY <1>9, <2>2 DEF Publish, card, MarksSpaced
  <1>10. ASSUME NEW frames \in 1 .. Buffer, Play(frames) PROVE OutputInv'
    BY <1>10 DEF Play, position, MarksSpaced
  <1>11. CASE StreamOpen
    <2>1. marks' = [marks EXCEPT ![0] = Mark(mixed, 0)] /\ count' = 1 /\ mixed' = mixed
      BY <1>11 DEF StreamOpen, card
    <2>2. 0 \in Marks /\ Mark(mixed, 0) \in [output : Nat, read : Nat]
      BY DEF Marks, Mark
    <2>3. marks' \in [Marks -> [output : Nat, read : Nat]] /\ marks'[0].output = mixed
      BY <2>1, <2>2 DEF Mark
    <2>4. MarksSpaced'
      <3> SUFFICES ASSUME NEW i \in Marks, i < 1 PROVE marks'[i].output = mixed - i * Period
        BY <2>1 DEF MarksSpaced
      <3>1. i = 0 /\ i * Period = 0
        BY DEF Marks
      <3> QED
        BY <2>3, <3>1
    <2> QED
      BY <1>11, <2>1, <2>3, <2>4 DEF StreamOpen, card
  <1>12. CASE StreamEnd
    BY <1>12 DEF StreamEnd, card, MarksSpaced
  <1>13. CASE UNCHANGED outputVars
    BY <1>13 DEF outputVars, card, position, MarksSpaced
  <1> QED
    BY <1>1, <1>2, <1>3, <1>4, <1>5, <1>6, <1>7, <1>8, <1>9, <1>10, <1>11, <1>12, <1>13
       DEF OutputNext

-----------------------------------------------------------------------------
(* The heard position. *)

\* A period adds a mark above the others.
LEMMA MixRight ==
  ASSUME OutputInv, HeardInv, NEW frames \in 0 .. Period, Mix(frames)
  PROVE  HeardInv'
  <1> USE HistoryLength DEF OutputInv, OutputTypeOK
  <1>1. /\ mixed' = mixed + Period
        /\ UNCHANGED <<played, stream, heard>>
    BY DEF Mix
  <1>2. (played <= mixed)'
    BY <1>1 DEF HeardInv
  <1>3. CASE ~stream
    BY <1>1, <1>2, <1>3 DEF HeardInv
  <1>4. CASE stream
    <2>1. marks' = Remembered(Mark(mixed + Period, read + frames)) /\ read' = read + frames
          /\ count' = (IF count < History THEN count + 1 ELSE count)
      BY <1>4 DEF Mix, MoreMarks
    <2>2. 0 \in Marks /\ count >= 1 /\ marks[0].read = read /\ count' >= 1
          /\ marks'[0] = Mark(mixed + Period, read + frames)
      BY <1>4, <2>1 DEF HeardInv, Marks, Remembered
    <2>3. \A i \in Marks : i # 0 => i - 1 \in Marks /\ marks'[i] = marks[i - 1]
      BY <2>1 DEF Remembered, Marks
    <2>4. \A i \in Marks : i # 0 /\ i < count' => i - 1 < count
      BY <2>1 DEF Marks
    <2>5. marks'[0].output = mixed + Period /\ marks'[0].read = read + frames
      BY <2>2 DEF Mark
    <2>6. heard <= read
      BY <1>4, <2>2 DEF HeardInv, MarksSpaced
    <2>7. ASSUME NEW i \in Marks, NEW j \in Marks, i <= j, j < count'
          PROVE  marks'[j].read <= marks'[i].read
      <3>1. CASE j = 0
        BY <2>5, <2>7, <3>1 DEF Marks
      <3>2. CASE i = 0 /\ j # 0
        <4>1. j - 1 \in Marks /\ j - 1 < count /\ 0 <= j - 1 /\ marks'[j] = marks[j - 1]
          BY <2>3, <2>4, <2>7, <3>2 DEF Marks
        <4>2. marks[j - 1].read <= marks[0].read /\ marks[j - 1].read \in Nat
          BY <1>4, <2>2, <4>1 DEF HeardInv
        <4> QED
          BY <2>2, <2>5, <3>2, <4>1, <4>2
      <3>3. CASE i # 0 /\ j # 0
        <4>1. j - 1 \in Marks /\ j - 1 < count /\ marks'[j] = marks[j - 1]
              /\ i - 1 \in Marks /\ marks'[i] = marks[i - 1] /\ i - 1 <= j - 1
          BY <2>3, <2>4, <2>7, <3>3 DEF Marks
        <4> QED
          BY <1>4, <4>1 DEF HeardInv
      <3> QED
        BY <3>1, <3>2, <3>3
    <2>8. ASSUME NEW i \in Marks, i < count'
          PROVE  /\ marks'[i].output <= played => marks'[i].read <= heard
                 /\ marks'[i].output >= played => heard <= marks'[i].read
      <3>1. CASE i = 0
        BY <2>5, <2>6, <3>1 DEF HeardInv
      <3>2. CASE i # 0
        <4>1. i - 1 \in Marks /\ i - 1 < count /\ marks'[i] = marks[i - 1]
          BY <2>3, <2>4, <2>8, <3>2
        <4> QED
          BY <1>4, <4>1 DEF HeardInv
      <3> QED
        BY <3>1, <3>2
    <2> QED
      BY <1>1, <1>2, <2>1, <2>2, <2>5, <2>7, <2>8 DEF HeardInv
  <1> QED
    BY <1>3, <1>4

\* Every step keeps it.
LEMMA HeardInvNext ==
  ASSUME OutputInv, HeardInv, LagInv, [OutputNext]_outputVars
  PROVE  HeardInv'
  <1> USE HistoryLength DEF OutputInv, OutputTypeOK
  <1>1. ASSUME UNCHANGED <<mixed, played, position>> PROVE HeardInv'
    BY <1>1 DEF HeardInv, position
  <1>2. CASE CardFails \/ CloseIdle
    BY <1>2, PublishedInReach, PublishRight DEF CardFails, CloseIdle, close_device
  <1>3. ASSUME NEW frames \in 0 .. Period, Mix(frames) PROVE HeardInv'
    BY <1>3, MixRight
  <1>4. ASSUME NEW reported \in {0, delay}, Publish(reported) PROVE HeardInv'
    BY <1>4, PublishedInReach, PublishRight DEF Publish, card
  <1>5. CASE StreamOpen
    <2>1. /\ marks' = [marks EXCEPT ![0] = Mark(mixed, 0)] /\ count' = 1 /\ read' = 0 /\ heard' = 0
          /\ UNCHANGED <<mixed, played>>
      BY <1>5 DEF StreamOpen, card
    <2>2. 0 \in Marks /\ marks'[0].read = 0 /\ \A i \in Marks : i < 1 => i = 0
      BY <2>1 DEF Marks, Mark
    <2> QED
      BY <2>1, <2>2 DEF HeardInv
  <1>6. CASE StreamEnd
    BY <1>6 DEF StreamEnd, card, HeardInv
  <1>7. CASE UNCHANGED outputVars
    BY <1>1, <1>7 DEF outputVars, card
  <1> QED
    BY <1>1, <1>2, <1>3, <1>4, <1>5, <1>6, <1>7 DEF OutputNext, OpenDevice, CardReady, NoRoom,
       Underrun, Write, Play, card

\* A period moves the read position and the mix forward together.
LEMMA MixLag ==
  ASSUME OutputInv, HeardInv, LagInv, NEW frames \in 0 .. Period, Mix(frames)
  PROVE  LagInv'
  <1> USE HistoryLength DEF OutputInv, OutputTypeOK
  <1>1. /\ mixed' = mixed + Period /\ mixed + Period <= played + MaxAhead
        /\ UNCHANGED <<played, stream, heard>>
    BY DEF Mix
  <1>2. mixed' - played' <= MaxAhead
    BY <1>1, OutputAssumption DEF OutputAssumption
  <1>3. CASE ~stream
    BY <1>1, <1>2, <1>3 DEF LagInv
  <1>4. CASE stream
    <2>1. marks' = Remembered(Mark(mixed + Period, read + frames)) /\ read' = read + frames
          /\ count' = (IF count < History THEN count + 1 ELSE count)
      BY <1>4 DEF Mix, MoreMarks
    <2>2. 0 \in Marks /\ count >= 1 /\ marks[0].read = read
          /\ marks'[0] = Mark(mixed + Period, read + frames)
      BY <1>4, <2>1 DEF HeardInv, Marks, Remembered
    <2>3. \A i \in Marks : i # 0 => i - 1 \in Marks /\ marks'[i] = marks[i - 1]
      BY <2>1 DEF Remembered, Marks
    <2>4. read' <= heard' + (mixed' - played') + Period
      BY <1>1, <1>4, <2>1 DEF LagInv
    <2>5. ASSUME NEW i \in Marks, i < count' PROVE read' <= marks'[i].read + i * Period
      <3>1. CASE i = 0
        <4>1. marks'[0].read = read + frames /\ i * Period = 0
          BY <2>2, <3>1 DEF Mark
        <4>2. read + frames \in Int /\ read + frames <= (read + frames) + 0
          OBVIOUS
        <4>3. marks'[i].read = read + frames
          BY <3>1, <4>1
        <4> QED
          BY <2>1, <4>1, <4>2, <4>3
      <3>2. CASE i # 0
        <4>0. i - 1 \in Marks /\ marks'[i] = marks[i - 1]
          BY <2>3, <2>5, <3>2
        <4>1. i \in Int /\ i - 1 \in Marks /\ i - 1 < count /\ marks'[i] = marks[i - 1]
          BY <2>1, <2>5, <3>2, <4>0 DEF Marks
        <4>2. read <= marks[i - 1].read + (i - 1) * Period /\ marks[i - 1].read \in Nat
          BY <1>4, <4>1 DEF LagInv
        <4>3. i * Period \in Int /\ (i - 1) * Period = i * Period - Period
          BY <4>1, Distribute
        <4> QED
          BY <2>1, <4>1, <4>2, <4>3
      <3> QED
        BY <3>1, <3>2
    <2>6. ASSUME count' < History PROVE marks'[count' - 1].read = 0
      <3>1. count' = count + 1 /\ count < History /\ count \in Marks /\ count # 0
        BY <2>1, <2>2, <2>6 DEF Marks
      <3>2. marks'[count] = marks[count - 1] /\ count' - 1 = count
        BY <2>3, <3>1
      <3> QED
        BY <1>4, <3>1, <3>2 DEF LagInv
    <2> QED
      BY <1>2, <2>4, <2>5, <2>6 DEF LagInv
  <1> QED
    BY <1>3, <1>4

\* Every step keeps the heard position near the read position.
LEMMA LagInvNext ==
  ASSUME OutputInv, HeardInv, LagInv, [OutputNext]_outputVars
  PROVE  LagInv'
  <1> USE HistoryLength DEF OutputInv, OutputTypeOK
  <1>1. ASSUME UNCHANGED <<mixed, played, position>> PROVE LagInv'
    BY <1>1 DEF LagInv, position
  <1>2. CASE CardFails \/ CloseIdle
    <2>1. publish(mixed) /\ UNCHANGED <<mixed, stream, read, count, marks>>
      BY <1>2 DEF CardFails, CloseIdle, close_device
    <2> QED
      BY <2>1, PublishedInReach, FullHistoryReaches, PublishLag
  <1>3. ASSUME NEW frames \in 0 .. Period, Mix(frames) PROVE LagInv'
    BY <1>3, MixLag
  <1>4. ASSUME NEW reported \in {0, delay}, Publish(reported) PROVE LagInv'
    <2>1. publish(PlayedWith(reported)) /\ UNCHANGED <<mixed, stream, read, count, marks>>
      BY <1>4 DEF Publish, card
    <2> QED
      BY <2>1, PublishedInReach, FullHistoryReaches, PublishLag
  <1>5. CASE StreamOpen
    <2>1. /\ marks' = [marks EXCEPT ![0] = Mark(mixed, 0)] /\ count' = 1 /\ read' = 0 /\ heard' = 0
          /\ UNCHANGED <<mixed, played>>
      BY <1>5 DEF StreamOpen, card
    <2>2. 0 \in Marks /\ marks'[0].read = 0 /\ \A i \in Marks : i < 1 => i = 0 /\ i * Period = 0
      BY <2>1 DEF Marks, Mark
    <2> QED
      BY <2>1, <2>2 DEF HeardInv, LagInv
  <1>6. CASE StreamEnd
    BY <1>6 DEF StreamEnd, card, LagInv
  <1>7. CASE UNCHANGED outputVars
    BY <1>1, <1>7 DEF outputVars, card
  <1> QED
    BY <1>1, <1>2, <1>3, <1>4, <1>5, <1>6, <1>7 DEF OutputNext, OpenDevice, CardReady, NoRoom,
       Underrun, Write, Play, card

\* The specification keeps the three invariants together.
LEMMA OutputInvAlways == OutputSpec => [](OutputInv /\ HeardInv /\ LagInv)
  <1>1. OutputInit => HeardInv /\ LagInv
    BY OutputAssumption DEF OutputInit, HeardInv, LagInv, OutputAssumption
  <1>2. OutputInv /\ HeardInv /\ LagInv /\ [OutputNext]_outputVars => (OutputInv /\ HeardInv /\ LagInv)'
    BY OutputInvNext, HeardInvNext, LagInvNext
  <1> QED
    BY <1>1, <1>2, OutputInvInit, PTL DEF OutputSpec

-----------------------------------------------------------------------------
(* The theorems. *)

\* Every frame mixed is written, pending or dropped exactly once, over short
\* writes, underruns, failures and releases of the card.
THEOREM AccountingAlways == OutputSpec => []Accounting
  <1>1. OutputInv => Accounting
    BY DEF OutputInv
  <1> QED
    BY <1>1, OutputInvAlways, PTL

\* The buffer sizes main() accepts are small enough for the mixer's history:
\* a full history always reaches back to the frame that is playing.
THEOREM HistoryIsEnough == OutputSpec => []HistorySuffices
  <1>1. OutputInv => HistorySuffices
    <2> SUFFICES ASSUME OutputInv, stream, count = History
                 PROVE  marks[History - 1].output <= written - delay
      BY DEF HistorySuffices
    <2>1. InReach(written - delay)
      BY HistoryLength DEF OutputInv, OutputTypeOK, Accounting, InReach
    <2> QED
      BY <2>1, HistoryLength, FullHistoryReaches
  <1> QED
    BY <1>1, OutputInvAlways, PTL

\* The heard position never passes the read position, covers every period that has
\* left the output and claims no frame of a later one, over short writes,
\* underruns, releases and a card that cannot tell its delay.
THEOREM HeardIsRight == OutputSpec => []HeardOK
  <1>1. OutputInv /\ HeardInv => HeardOK
    BY HeardBelowRead DEF HeardOK, HeardRight, OutputInv, HeardInv
  <1> QED
    BY <1>1, OutputInvAlways, PTL
=============================================================================
