------------------------- MODULE AudioControlProofs --------------------------
(***************************************************************************)
(* For any processes, volume levels and limits: the session manager's table  *)
(* and audiod's agree, and so do their volumes, although any send may fail,  *)
(* either side may end anywhere, and links overlap.                          *)
(***************************************************************************)
EXTENDS AudioControl, FiniteSetTheorems, FunctionTheorems, SequenceTheorems, TLAPS

\* What is left of a queue when its first packet is taken.
LEMMA Taken ==
  ASSUME NEW S, NEW q \in Seq(S), q # <<>>
  PROVE  /\ Head(q) \in S /\ Head(q) = q[1] /\ 1 \in DOMAIN q
         /\ Tail(q) \in Seq(S) /\ Len(Tail(q)) = Len(q) - 1 /\ Len(q) \in Nat \ {0}
         /\ DOMAIN q = 1 .. Len(q)
         /\ DOMAIN Tail(q) = 1 .. Len(q) - 1
         /\ \A i \in DOMAIN Tail(q) : i \in Nat /\ i + 1 \in DOMAIN q /\ Tail(q)[i] = q[i + 1]
         /\ \A i \in DOMAIN q : i = 1 \/ (i - 1 \in DOMAIN Tail(q) /\ Tail(q)[i - 1] = q[i])
  <1>1. /\ Head(q) \in S /\ Tail(q) \in Seq(S) /\ Len(Tail(q)) = Len(q) - 1
        /\ \A i \in 1 .. Len(Tail(q)) : Tail(q)[i] = q[i + 1]
    BY HeadTailProperties
  <1>2. Len(q) \in Nat \ {0}
    BY EmptySeq
  <1>3. DOMAIN q = 1 .. Len(q) /\ DOMAIN Tail(q) = 1 .. Len(q) - 1
    BY <1>1, LenProperties
  <1>4. Head(q) = q[1]
    BY <1>2
  <1>5. \A i \in DOMAIN Tail(q) : i \in Nat /\ i + 1 \in DOMAIN q /\ Tail(q)[i] = q[i + 1]
    BY <1>1, <1>2, <1>3
  <1>6. \A i \in DOMAIN q : i = 1 \/ (i - 1 \in DOMAIN Tail(q) /\ Tail(q)[i - 1] = q[i])
    <2> TAKE i \in DOMAIN q
    <2>1. CASE i # 1
      <3>1. i \in Int /\ i - 1 \in 1 .. Len(q) - 1 /\ (i - 1) + 1 = i
        BY <1>2, <1>3, <2>1
      <3> QED
        BY <1>1, <1>3, <3>1
    <2> QED
      BY <2>1
  <1> QED
    BY <1>1, <1>2, <1>3, <1>4, <1>5, <1>6

\* A queue with one packet more.
LEMMA Added ==
  ASSUME NEW S, NEW q \in Seq(S), NEW x \in S
  PROVE  /\ Append(q, x) \in Seq(S) /\ q \o <<x>> = Append(q, x)
         /\ Len(Append(q, x)) = Len(q) + 1 /\ Len(q) \in Nat
         /\ DOMAIN q = 1 .. Len(q)
         /\ DOMAIN Append(q, x) = 1 .. Len(q) + 1
         /\ \A i \in DOMAIN q : i \in DOMAIN Append(q, x) /\ Append(q, x)[i] = q[i]
         /\ \A i \in DOMAIN Append(q, x) : i \in DOMAIN q \/ i = Len(q) + 1
         /\ Len(q) + 1 \in DOMAIN Append(q, x) /\ Append(q, x)[Len(q) + 1] = x
         /\ Len(q) + 1 \notin DOMAIN q
  <1>1. /\ Append(q, x) \in Seq(S) /\ Len(Append(q, x)) = Len(q) + 1
        /\ \A i \in 1 .. Len(q) : Append(q, x)[i] = q[i]
        /\ Append(q, x)[Len(q) + 1] = x
    BY AppendProperties
  <1>2. q \o <<x>> = Append(q, x)
    BY AppendIsConcat
  <1>3. Len(q) \in Nat /\ DOMAIN q = 1 .. Len(q)
    BY LenProperties
  <1>4. DOMAIN Append(q, x) = 1 .. Len(q) + 1
    BY <1>1, LenProperties
  <1> QED
    BY <1>1, <1>2, <1>3, <1>4

\* The first packets of a queue.
LEMMA Beginning ==
  ASSUME NEW S, NEW q \in Seq(S), NEW k \in 0 .. Len(q)
  PROVE  /\ SubSeq(q, 1, k) \in Seq(S) /\ Len(SubSeq(q, 1, k)) = k
         /\ \A i \in 1 .. k : SubSeq(q, 1, k)[i] = q[i]
  <1>1. Len(q) \in Nat /\ DOMAIN q = 1 .. Len(q)
    BY LenProperties
  <1>2. k \in Nat /\ \A i \in 1 .. k : i \in 1 .. Len(q)
    BY <1>1
  <1>3. \A i \in 1 .. k : q[i] \in S
    BY <1>1, <1>2, ElementOfSeq
  <1> QED
    BY <1>1, <1>2, <1>3, SubSeqProperties

CommandType == [type : {"ANNOUNCE", "AUDIBLE"}, pid : Pids, flag : BOOLEAN]
               \cup [type : {"GONE"}, pid : Pids]
               \cup [type : {"VOLUME"}, level : Levels]
LinkType == [open : BOOLEAN, queue : Seq(CommandType)]
EntryType == [used : BOOLEAN, clock : BOOLEAN, audible : BOOLEAN,
              announced : BOOLEAN, told : BOOLEAN]
ManagerType == [fd : BOOLEAN, retry : 0 .. BackoffMax, backoff : 1 .. BackoffMax,
                desired : Levels, sent : Levels, applied : Levels,
                waiting : BOOLEAN, known : BOOLEAN, ready : BOOLEAN,
                left : 0 .. VolumeTicks, entries : [Pids -> EntryType]]
RowType == [known : BOOLEAN, clock : BOOLEAN, audible : BOOLEAN]
TableType == [Pids -> RowType]

\* audiod's table after a command on a table t that does not refuse it.
KnownIn(t) == {p \in Pids : t[p].known}
Accepts(t, c) ==
    c.type = "ANNOUNCE" =>
        /\ c.flag => \A q \in KnownIn(t) \ {c.pid} : ~t[q].clock
        /\ c.pid \notin KnownIn(t) => ~(Cardinality(KnownIn(t)) >= NProcesses)
After(t, c) ==
    CASE c.type = "ANNOUNCE" ->
            [t EXCEPT ![c.pid] = [known |-> TRUE, clock |-> c.flag, audible |-> FALSE]]
      [] c.type = "AUDIBLE" ->
            IF t[c.pid].known THEN [t EXCEPT ![c.pid].audible = c.flag] ELSE t
      [] c.type = "GONE" -> [t EXCEPT ![c.pid] = Unknown]
      [] c.type = "VOLUME" -> t

\* The commands of q, none of them refused, take audiod's table from t to u:
\* f holds the tables between them.
Tables(f, q) ==
    /\ f \in [0 .. Len(q) -> TableType]
    /\ \A i \in 1 .. Len(q) : Accepts(f[i - 1], q[i]) /\ f[i] = After(f[i - 1], q[i])
Leads(q, t, u) == \E f : Tables(f, q) /\ f[0] = t /\ f[Len(q)] = u

-----------------------------------------------------------------------------
(* The inductive invariant. *)

UsedIn(m) == {p \in Pids : m.entries[p].used}
OneClock(m) == \A p, q \in UsedIn(m) : m.entries[p].clock /\ m.entries[q].clock => p = q
Fits(m) == IsFiniteSet(UsedIn(m)) /\ Cardinality(UsedIn(m)) <= NProcesses
GoodProcesses(m) == m \in ManagerType /\ Fits(m) /\ OneClock(m)

\* The manager has announced its processes, as they are, exactly on a connection
\* whose volume is confirmed.
Announces(m) ==
    /\ ~m.fd => ~m.ready /\ ~m.known
    /\ \A p \in UsedIn(m) : /\ m.entries[p].announced = m.ready
                            /\ m.ready => m.entries[p].told = m.entries[p].audible
GoodManager(m) == GoodProcesses(m) /\ Announces(m)

\* Only the manager's own link, the last one, is open; audiod knows no process
\* without a link.
LinksOK ==
    /\ links \in Seq(LinkType) /\ Len(links) <= MaxLinks
    /\ \A i \in DOMAIN links : Len(links[i].queue) <= MaxQueue
    /\ replies \in Seq(Levels) /\ hung \in BOOLEAN /\ served \in BOOLEAN
    /\ table \in TableType /\ master \in Levels
    /\ HasLink => links # <<>> /\ links[Own].open
    /\ \A i \in DOMAIN links : links[i].open => HasLink /\ i = Own
    /\ hung => manager.fd
    /\ served => links # <<>>
    /\ ~served => table = NoTable

\* One VOLUME is on its way at a time, in the queue or as its reply; the first
\* waits in a link that audiod does not serve yet.
OneVolume(q, m, answered) ==
    \A i \in DOMAIN q : q[i].type = "VOLUME" =>
        /\ answered = <<>> /\ m.waiting /\ q[i].level = m.sent
        /\ \A j \in DOMAIN q : q[j].type = "VOLUME" => j = i
ReplyAwaited ==
    replies # <<>> => /\ Len(replies) = 1 /\ replies[1] = manager.sent
                      /\ manager.waiting /\ master = manager.sent
VolumeInv ==
    HasLink => /\ OneVolume(links[Own].queue, manager, replies)
               /\ ReplyAwaited
               /\ ~(served /\ Own = 1) => ~manager.known /\ manager.waiting /\ replies = <<>>
               /\ manager.known /\ ~manager.waiting => master = manager.applied

\* Every link's commands, read from the table it starts with, are accepted; those
\* on the manager's own link end in the manager's view.
StartOf(i) == IF i = 1 /\ served THEN table ELSE NoTable
ViewOf(m) ==
    [p \in Pids |-> IF m.ready /\ m.entries[p].used
                    THEN [known |-> TRUE, clock |-> m.entries[p].clock,
                          audible |-> m.entries[p].audible]
                    ELSE Unknown]
QueuesRun == \A i \in DOMAIN links : \E u : Leads(links[i].queue, StartOf(i), u)
OwnRuns == HasLink => Leads(links[Own].queue, StartOf(Own), ViewOf(manager))

ControlInv == GoodManager(manager) /\ LinksOK /\ VolumeInv /\ QueuesRun /\ OwnRuns

-----------------------------------------------------------------------------
(* The tables a queue leads through. *)

\* What a command holds.
LEMMA CommandCases ==
  ASSUME NEW c \in CommandType
  PROVE  /\ c.type \in {"ANNOUNCE", "AUDIBLE", "GONE", "VOLUME"}
         /\ c.type \in {"ANNOUNCE", "AUDIBLE"} => c.pid \in Pids /\ c.flag \in BOOLEAN
         /\ c.type = "GONE" => c.pid \in Pids
         /\ c.type = "VOLUME" => c.level \in Levels
  BY DEF CommandType

\* The commands have their type.
LEMMA CommandsTyped ==
  /\ \A p \in Pids, flag \in BOOLEAN :
        ANNOUNCE(p, flag) \in CommandType /\ AUDIBLE(p, flag) \in CommandType
  /\ \A p \in Pids : GONE(p) \in CommandType
  /\ \A level \in Levels : VOLUME(level) \in CommandType
  BY DEF CommandType, ANNOUNCE, AUDIBLE, GONE, VOLUME

\* A command makes a table of a table.
LEMMA AfterTyped ==
  ASSUME NEW t \in TableType, NEW c \in CommandType
  PROVE  After(t, c) \in TableType
  <1>1. CASE c.type = "ANNOUNCE"
    <2>1. After(t, c) = [t EXCEPT ![c.pid] = [known |-> TRUE, clock |-> c.flag, audible |-> FALSE]]
      BY <1>1 DEF After
    <2>2. [known |-> TRUE, clock |-> c.flag, audible |-> FALSE] \in RowType
      BY <1>1, CommandCases DEF RowType
    <2> QED
      BY <2>1, <2>2 DEF TableType
  <1>2. CASE c.type = "AUDIBLE"
    <2>1. c.pid \in Pids /\ c.flag \in BOOLEAN
      BY <1>2, CommandCases
    <2>2. After(t, c) = IF t[c.pid].known THEN [t EXCEPT ![c.pid].audible = c.flag] ELSE t
      BY <1>2 DEF After
    <2>3. t[c.pid] \in RowType
      BY <2>1 DEF TableType
    <2>4. [t[c.pid] EXCEPT !.audible = c.flag] \in RowType
      BY <2>1, <2>3 DEF RowType
    <2> QED
      BY <2>1, <2>2, <2>4 DEF TableType
  <1>3. CASE c.type = "GONE"
    <2>1. After(t, c) = [t EXCEPT ![c.pid] = Unknown]
      BY <1>3 DEF After
    <2>2. Unknown \in RowType
      BY DEF Unknown, RowType
    <2> QED
      BY <2>1, <2>2 DEF TableType
  <1>4. CASE c.type = "VOLUME"
    BY <1>4 DEF After
  <1> QED
    BY <1>1, <1>2, <1>3, <1>4, CommandCases

\* No command, no change.
LEMMA LeadsNone ==
  ASSUME NEW t \in TableType
  PROVE  /\ Leads(<<>>, t, t)
         /\ \A u : Leads(<<>>, t, u) => u = t
  <1>1. Len(<<>>) = 0
    OBVIOUS
  <1>2. Leads(<<>>, t, t)
    <2> DEFINE f == [i \in 0 .. 0 |-> t]
    <2>1. f \in [0 .. 0 -> TableType] /\ f[0] = t
      OBVIOUS
    <2>2. Tables(f, <<>>)
      BY <1>1, <2>1 DEF Tables
    <2> QED
      BY <1>1, <2>1, <2>2 DEF Leads
  <1> QED
    BY <1>1, <1>2 DEF Leads

\* A queue leads from tables to tables.
LEMMA LeadsTyped ==
  ASSUME NEW q \in Seq(CommandType), NEW t, NEW u, Leads(q, t, u)
  PROVE  t \in TableType /\ u \in TableType
  <1>1. Len(q) \in Nat /\ 0 \in 0 .. Len(q) /\ Len(q) \in 0 .. Len(q)
    BY LenProperties
  <1> QED
    BY <1>1 DEF Leads, Tables

\* One command leads to the table after it.
LEMMA LeadsOne ==
  ASSUME NEW t \in TableType, NEW c \in CommandType, Accepts(t, c)
  PROVE  Leads(<<c>>, t, After(t, c))
  <1> DEFINE f == [i \in 0 .. 1 |-> IF i = 0 THEN t ELSE After(t, c)]
  <1>1. Len(<<c>>) = 1 /\ <<c>>[1] = c
    OBVIOUS
  <1>2. f \in [0 .. 1 -> TableType] /\ f[0] = t /\ f[1] = After(t, c)
    BY AfterTyped
  <1> HIDE DEF f
  <1>3. Tables(f, <<c>>)
    <2>1. \A i \in 1 .. 1 : i = 1 /\ f[i - 1] = t
      BY <1>2
    <2> QED
      BY <1>1, <1>2, <2>1 DEF Tables
  <1> QED
    BY <1>1, <1>2, <1>3 DEF Leads

\* The first command is accepted, and the rest leads on from the table after it.
LEMMA LeadsOn ==
  ASSUME NEW q \in Seq(CommandType), q # <<>>, NEW t, NEW u, Leads(q, t, u)
  PROVE  Accepts(t, Head(q)) /\ Leads(Tail(q), After(t, Head(q)), u)
  <1>1. PICK f : Tables(f, q) /\ f[0] = t /\ f[Len(q)] = u
    BY DEF Leads
  <1>2. /\ Head(q) = q[1] /\ Len(q) \in Nat \ {0} /\ Len(Tail(q)) = Len(q) - 1
        /\ \A i \in 1 .. Len(q) - 1 : Tail(q)[i] = q[i + 1]
    BY Taken
  <1>3. /\ f \in [0 .. Len(q) -> TableType]
        /\ \A i \in 1 .. Len(q) : Accepts(f[i - 1], q[i]) /\ f[i] = After(f[i - 1], q[i])
    BY <1>1 DEF Tables
  <1>4. Accepts(t, Head(q)) /\ f[1] = After(t, Head(q))
    <2>1. 1 \in 1 .. Len(q) /\ 1 - 1 = 0
      BY <1>2
    <2> QED
      BY <1>1, <1>2, <1>3, <2>1
  <1> DEFINE g == [i \in 0 .. Len(q) - 1 |-> f[i + 1]]
  <1>5. g \in [0 .. Len(q) - 1 -> TableType]
    <2>1. \A i \in 0 .. Len(q) - 1 : i + 1 \in 0 .. Len(q)
      BY <1>2
    <2> QED
      BY <1>3, <2>1
  <1>6. g[0] = f[1] /\ g[Len(q) - 1] = u
    BY <1>1, <1>2
  <1>7. ASSUME NEW i \in 1 .. Len(q) - 1
        PROVE  Accepts(g[i - 1], Tail(q)[i]) /\ g[i] = After(g[i - 1], Tail(q)[i])
    <2>1. g[i - 1] = f[i] /\ g[i] = f[i + 1]
      BY <1>2
    <2>2. i + 1 \in 1 .. Len(q) /\ (i + 1) - 1 = i
      BY <1>2
    <2> QED
      BY <1>2, <1>3, <2>1, <2>2
  <1> HIDE DEF g
  <1>8. Tables(g, Tail(q))
    BY <1>2, <1>5, <1>7 DEF Tables
  <1> QED
    BY <1>2, <1>4, <1>6, <1>8 DEF Leads

\* Two queues, one after the other.
LEMMA LeadsThrough ==
  ASSUME NEW q \in Seq(CommandType), NEW r \in Seq(CommandType),
         NEW t, NEW u, NEW w, Leads(q, t, u), Leads(r, u, w)
  PROVE  Leads(q \o r, t, w)
  <1> DEFINE a == Len(q)
             b == Len(r)
  <1>1. PICK f : Tables(f, q) /\ f[0] = t /\ f[a] = u
    BY DEF Leads
  <1>2. PICK g : Tables(g, r) /\ g[0] = u /\ g[b] = w
    BY DEF Leads
  <1>3. /\ a \in Nat /\ b \in Nat /\ Len(q \o r) = a + b
        /\ \A i \in 1 .. a + b : (q \o r)[i] = IF i <= a THEN q[i] ELSE r[i - a]
    BY ConcatProperties, LenProperties
  <1>4. /\ f \in [0 .. a -> TableType]
        /\ \A i \in 1 .. a : Accepts(f[i - 1], q[i]) /\ f[i] = After(f[i - 1], q[i])
        /\ g \in [0 .. b -> TableType]
        /\ \A i \in 1 .. b : Accepts(g[i - 1], r[i]) /\ g[i] = After(g[i - 1], r[i])
    BY <1>1, <1>2 DEF Tables
  <1> HIDE DEF a, b
  <1> DEFINE h == [i \in 0 .. a + b |-> IF i <= a THEN f[i] ELSE g[i - a]]
  <1>5. h \in [0 .. a + b -> TableType]
    <2>1. \A i \in 0 .. a + b : IF i <= a THEN i \in 0 .. a ELSE i - a \in 0 .. b
      BY <1>3
    <2> QED
      BY <1>4, <2>1
  <1>6. h[0] = t /\ h[a + b] = w
    <2>1. h[0] = t
      BY <1>1, <1>3
    <2>2. CASE b = 0
      BY <1>1, <1>2, <1>3, <2>2
    <2>3. CASE b # 0
      <3>1. a + b \in 0 .. a + b /\ ~(a + b <= a) /\ (a + b) - a = b
        BY <1>3, <2>3
      <3>2. h[a + b] = g[(a + b) - a]
        BY <3>1
      <3> QED
        BY <1>2, <2>1, <3>1, <3>2
    <2> QED
      BY <2>1, <2>2, <2>3
  <1>7. ASSUME NEW i \in 1 .. a + b
        PROVE  Accepts(h[i - 1], (q \o r)[i]) /\ h[i] = After(h[i - 1], (q \o r)[i])
    <2>1. CASE i <= a
      <3>1. i \in 1 .. a /\ h[i] = f[i] /\ h[i - 1] = f[i - 1] /\ (q \o r)[i] = q[i]
        BY <1>3, <2>1
      <3> QED
        BY <1>4, <3>1
    <2>2. CASE i > a
      <3>1. /\ i - a \in 1 .. b /\ h[i] = g[i - a] /\ (q \o r)[i] = r[i - a]
            /\ (i - a) - 1 = i - 1 - a
        BY <1>3, <2>2
      <3>2. h[i - 1] = g[(i - a) - 1]
        <4>1. CASE i = a + 1
          BY <1>1, <1>2, <1>3, <4>1
        <4>2. CASE i # a + 1
          BY <1>3, <2>2, <3>1, <4>2
        <4> QED
          BY <4>1, <4>2
      <3> QED
        BY <1>4, <3>1, <3>2
    <2> QED
      BY <1>3, <2>1, <2>2
  <1> HIDE DEF h
  <1>8. Tables(h, q \o r)
    BY <1>3, <1>5, <1>7 DEF Tables
  <1> QED
    BY <1>3, <1>6, <1>8 DEF Leads

\* Part of a queue leads somewhere.
LEMMA LeadsPart ==
  ASSUME NEW r \in Seq(CommandType), NEW t, NEW u, Leads(r, t, u), NEW k \in 0 .. Len(r)
  PROVE  /\ SubSeq(r, 1, k) \in Seq(CommandType) /\ Len(SubSeq(r, 1, k)) = k
         /\ \E w : Leads(SubSeq(r, 1, k), t, w)
  <1> DEFINE s == SubSeq(r, 1, k)
  <1>1. PICK f : Tables(f, r) /\ f[0] = t
    BY DEF Leads
  <1>2. Len(r) \in Nat /\ k \in Nat /\ k <= Len(r)
    BY LenProperties
  <1>3. s \in Seq(CommandType) /\ Len(s) = k /\ \A i \in 1 .. k : s[i] = r[i]
    BY <1>2, Beginning
  <1> HIDE DEF s
  <1>4. /\ f \in [0 .. Len(r) -> TableType]
        /\ \A i \in 1 .. Len(r) : Accepts(f[i - 1], r[i]) /\ f[i] = After(f[i - 1], r[i])
    BY <1>1 DEF Tables
  <1> DEFINE g == [i \in 0 .. k |-> f[i]]
  <1>5. g \in [0 .. k -> TableType] /\ g[0] = t
    BY <1>1, <1>2, <1>4
  <1>6. \A i \in 1 .. k : Accepts(g[i - 1], s[i]) /\ g[i] = After(g[i - 1], s[i])
    <2> TAKE i \in 1 .. k
    <2>1. i \in 1 .. Len(r) /\ g[i] = f[i] /\ g[i - 1] = f[i - 1] /\ s[i] = r[i]
      BY <1>2, <1>3
    <2> QED
      BY <1>4, <2>1
  <1> HIDE DEF g
  <1>7. Tables(g, s)
    BY <1>3, <1>5, <1>6 DEF Tables
  <1>8. Leads(s, t, g[k])
    BY <1>3, <1>5, <1>7 DEF Leads
  <1> QED
    BY <1>3, <1>8 DEF s

-----------------------------------------------------------------------------
(* The manager's record. *)

\* A manager with the same processes, announced as before.
LEMMA SameEntries ==
  ASSUME NEW m, GoodManager(m), NEW n \in ManagerType,
         n.entries = m.entries, n.ready = m.ready, ~n.fd => ~n.ready /\ ~n.known
  PROVE  GoodManager(n) /\ ViewOf(n) = ViewOf(m) /\ UsedIn(n) = UsedIn(m)
  BY DEF GoodManager, GoodProcesses, Announces, Fits, OneClock, UsedIn, ViewOf

\* The backoff stays within its limit.
LEMMA BackoffTyped ==
  ASSUME NEW b \in 1 .. BackoffMax
  PROVE  Backoff(b) \in 1 .. BackoffMax
  BY ControlAssumption DEF ControlAssumption, Backoff

\* A manager that loses its connection has announced nothing.
LEMMA LostGood ==
  ASSUME NEW m, GoodProcesses(m)
  PROVE  GoodManager(Lost(m)) /\ ~Lost(m).fd /\ ~Lost(m).ready
  <1> DEFINE e == [p \in Pids |-> [m.entries[p] EXCEPT !.announced = FALSE, !.told = FALSE]]
  <1>1. m \in ManagerType /\ m.entries \in [Pids -> EntryType]
    BY DEF GoodProcesses, ManagerType
  <1>2. e \in [Pids -> EntryType]
    BY <1>1 DEF EntryType
  <1>3. \A p \in Pids : /\ e[p].used = m.entries[p].used /\ e[p].clock = m.entries[p].clock
                        /\ e[p].announced = FALSE
    BY <1>1 DEF EntryType
  <1> HIDE DEF e
  <1>4. Lost(m) = [m EXCEPT !.fd = FALSE, !.waiting = FALSE, !.known = FALSE, !.ready = FALSE,
                            !.entries = e, !.retry = m.backoff, !.backoff = Backoff(m.backoff)]
    BY <1>1 DEF Lost, ManagerType, e
  <1>5. Backoff(m.backoff) \in 1 .. BackoffMax /\ m.backoff \in 0 .. BackoffMax
    BY <1>1, BackoffTyped, ControlAssumption DEF ManagerType, ControlAssumption
  <1>6. Lost(m) \in ManagerType /\ ~Lost(m).fd /\ Lost(m).ready = FALSE /\ ~Lost(m).known
        /\ Lost(m).entries = e
    BY <1>1, <1>2, <1>4, <1>5 DEF ManagerType
  <1>7. UsedIn(Lost(m)) = UsedIn(m)
    BY <1>3, <1>6 DEF UsedIn
  <1>8. Fits(Lost(m)) /\ OneClock(Lost(m))
    BY <1>3, <1>6, <1>7 DEF GoodProcesses, Fits, OneClock, UsedIn
  <1>9. Announces(Lost(m))
    BY <1>3, <1>6 DEF Announces, UsedIn
  <1> QED
    BY <1>6, <1>8, <1>9 DEF GoodManager, GoodProcesses

\* A new manager.
LEMMA NewGood ==
  ASSUME NEW level \in Levels
  PROVE  GoodManager(NewManager(level)) /\ ~NewManager(level).fd
  <1> DEFINE m == NewManager(level)
  <1>1. m \in ManagerType /\ m.entries = [p \in Pids |-> NoEntry] /\ ~m.fd /\ ~m.ready /\ ~m.known
    <2>1. [p \in Pids |-> NoEntry] \in [Pids -> EntryType]
      BY DEF NoEntry, EntryType
    <2> QED
      BY <2>1, ControlAssumption DEF NewManager, ManagerType, ControlAssumption
  <1>2. UsedIn(m) = {}
    BY <1>1 DEF UsedIn, NoEntry
  <1>3. Fits(m)
    BY <1>2, FS_EmptySet, ControlAssumption DEF Fits, ControlAssumption
  <1> QED
    BY <1>1, <1>2, <1>3 DEF GoodManager, GoodProcesses, OneClock, Announces

-----------------------------------------------------------------------------
(* What a call does to the links. *)

\* The manager's link with the packets r more, kept open or closed.
OwnAs(o, r) == [links EXCEPT ![Own] = [open |-> o, queue |-> links[Own].queue \o r]]
Fit(r) == Len(links[Own].queue) + Len(r) <= MaxQueue
Sends(r) == HasLink /\ ~hung' /\ links' = OwnAs(TRUE, r) /\ Fit(r)
Cuts(r) == /\ ~hung' /\ ~manager'.fd
           /\ HasLink => links' = OwnAs(FALSE, r) /\ Fit(r)
           /\ ~HasLink => links' = links

\* The links after that.
LEMMA OwnLinks ==
  ASSUME LinksOK, HasLink, NEW r \in Seq(CommandType), NEW o \in BOOLEAN
  PROVE  /\ OwnAs(o, r) \in Seq(LinkType) /\ Len(OwnAs(o, r)) = Len(links)
         /\ DOMAIN OwnAs(o, r) = DOMAIN links /\ Own \in DOMAIN links
         /\ OwnAs(o, r)[Own].open = o
         /\ OwnAs(o, r)[Own].queue = links[Own].queue \o r
         /\ \A i \in DOMAIN links : i # Own => OwnAs(o, r)[i] = links[i]
         /\ links[Own].queue \in Seq(CommandType)
         /\ Len(links[Own].queue \o r) = Len(links[Own].queue) + Len(r)
  <1>1. links \in Seq(LinkType) /\ links # <<>>
    BY DEF LinksOK
  <1>2. Len(links) \in Nat \ {0} /\ DOMAIN links = 1 .. Len(links) /\ Own \in DOMAIN links
    BY <1>1, EmptySeq, LenProperties DEF Own
  <1>3. links[Own] \in LinkType
    BY <1>1, <1>2, ElementOfSeq
  <1>4. links[Own].queue \in Seq(CommandType)
    BY <1>3 DEF LinkType
  <1>5. /\ links[Own].queue \o r \in Seq(CommandType)
        /\ Len(links[Own].queue \o r) = Len(links[Own].queue) + Len(r)
    BY <1>4, ConcatProperties
  <1> DEFINE x == [open |-> o, queue |-> links[Own].queue \o r]
  <1>6. x \in LinkType /\ x.open = o /\ x.queue = links[Own].queue \o r
    BY <1>5 DEF LinkType
  <1> HIDE DEF x
  <1>7. OwnAs(o, r) = [links EXCEPT ![Own] = x]
    BY DEF OwnAs, x
  <1>8. OwnAs(o, r) \in Seq(LinkType) /\ Len(OwnAs(o, r)) = Len(links)
    BY <1>1, <1>2, <1>6, <1>7, ExceptSeq
  <1>9. DOMAIN OwnAs(o, r) = DOMAIN links /\ OwnAs(o, r)[Own] = x
        /\ \A i \in DOMAIN links : i # Own => OwnAs(o, r)[i] = links[i]
    BY <1>2, <1>7
  <1> QED
    BY <1>2, <1>4, <1>5, <1>6, <1>8, <1>9

\* A link whose two fields are replaced,
LEMMA LinkAs ==
  ASSUME NEW S, NEW T, NEW x \in [open : S, queue : T], NEW o, NEW z
  PROVE  [[x EXCEPT !.queue = z] EXCEPT !.open = o] = [open |-> o, queue |-> z]
  <1> DEFINE a == [[x EXCEPT !.queue = z] EXCEPT !.open = o]
             b == [open |-> o, queue |-> z]
  <1>1. x = [y \in {"open", "queue"} |-> x[y]]
    OBVIOUS
  <1>2. a = [y \in {"open", "queue"} |-> a[y]]
    BY <1>1
  <1>3. b = [y \in {"open", "queue"} |-> b[y]]
    OBVIOUS
  <1>4. a["open"] = o /\ a["queue"] = z /\ b["open"] = o /\ b["queue"] = z
    BY <1>1
  <1> HIDE DEF a, b
  <1>5. a = b
    BY <1>2, <1>3, <1>4
  <1> QED
    BY <1>5 DEF a, b

\* or only the first.
LEMMA LinkOpenAs ==
  ASSUME NEW S, NEW T, NEW x \in [open : S, queue : T], NEW o
  PROVE  [x EXCEPT !.open = o] = [open |-> o, queue |-> x.queue]
  <1> DEFINE a == [x EXCEPT !.open = o]
             b == [open |-> o, queue |-> x.queue]
  <1>1. x = [y \in {"open", "queue"} |-> x[y]]
    OBVIOUS
  <1>2. a = [y \in {"open", "queue"} |-> a[y]]
    BY <1>1
  <1>3. b = [y \in {"open", "queue"} |-> b[y]]
    OBVIOUS
  <1>4. a["open"] = o /\ a["queue"] = x["queue"] /\ b["open"] = o /\ b["queue"] = x["queue"]
    BY <1>1
  <1> HIDE DEF a, b
  <1>5. a = b
    BY <1>2, <1>3, <1>4
  <1> QED
    BY <1>5 DEF a, b

\* A call's packets all go out, or the connection is lost after some of them.
LEMMA TransmitCases ==
  ASSUME LinksOK, manager.fd, NEW k \in Nat, NEW commands \in Seq(CommandType),
         HasLink \/ commands # <<>>, NEW before, NEW after, Transmit(k, commands, before, after),
         after.fd, ~Lost(before).fd
  PROVE  \/ Sends(commands) /\ manager' = after
         \/ /\ manager' = Lost(before) /\ k \in 0 .. Len(commands)
            /\ Cuts(SubSeq(commands, 1, k))
  <1>0. Len(commands) \in Nat /\ hung \in BOOLEAN
    BY LenProperties DEF LinksOK
  <1>1. k \in 0 .. Len(commands)
    BY <1>0 DEF Transmit
  <1>2. SubSeq(commands, 1, k) \in Seq(CommandType) /\ Len(SubSeq(commands, 1, k)) = k
    BY <1>1, Beginning
  <1>3. k = Len(commands) => SubSeq(commands, 1, k) = commands
    BY SubSeqFull
  <1>4. ASSUME HasLink
        PROVE  /\ Fit(SubSeq(commands, 1, k))
               /\ k = Len(commands) => links' = OwnAs(TRUE, SubSeq(commands, 1, k))
               /\ k # Len(commands) => links' = OwnAs(FALSE, SubSeq(commands, 1, k))
    <2> DEFINE s == SubSeq(commands, 1, k)
               o == (k = Len(commands))
    <2>1. Own \in DOMAIN links /\ links[Own] \in LinkType
      BY <1>4, EmptySeq, LenProperties, ElementOfSeq DEF LinksOK, Own
    <2>2. links' = [links EXCEPT ![Own].queue = @ \o s, ![Own].open = o]
      BY <1>4 DEF Transmit
    <2>3. Fit(s)
      BY <1>2, <1>4 DEF Transmit, Fit
    <2> HIDE DEF s, o
    <2>4. [[links[Own] EXCEPT !.queue = links[Own].queue \o s] EXCEPT !.open = o]
          = [open |-> o, queue |-> links[Own].queue \o s]
      BY <2>1, LinkAs DEF LinkType
    <2>5. links' = OwnAs(o, s)
      BY <2>1, <2>2, <2>4 DEF OwnAs
    <2> QED
      BY <2>3, <2>5 DEF s, o
  <1>5. CASE k = Len(commands)
    <2>1. HasLink
      BY <1>0, <1>5, EmptySeq DEF Transmit, HasLink
    <2> QED
      BY <1>3, <1>4, <1>5, <2>1 DEF Transmit, Sends, HasLink
  <1>6. CASE k # Len(commands)
    BY <1>1, <1>4, <1>6 DEF Transmit, Cuts
  <1> QED
    BY <1>5, <1>6

\* The links keep their order when packets are sent
LEMMA LinksSend ==
  ASSUME LinksOK, NEW r \in Seq(CommandType), Sends(r), manager'.fd,
         replies' \in Seq(Levels), UNCHANGED audiod
  PROVE  LinksOK'
  <1>1. HasLink /\ links' = OwnAs(TRUE, r) /\ Fit(r) /\ HasLink' /\ hung' = FALSE
    BY DEF Sends, HasLink
  <1>2. /\ links' \in Seq(LinkType) /\ Len(links') = Len(links) /\ DOMAIN links' = DOMAIN links
        /\ Own \in DOMAIN links /\ links'[Own].open = TRUE
        /\ Len(links'[Own].queue) = Len(links[Own].queue) + Len(r)
        /\ \A i \in DOMAIN links : i # Own => links'[i] = links[i]
    BY <1>1, OwnLinks
  <1>3. Own' = Own
    BY <1>2 DEF Own
  <1>4. \A i \in DOMAIN links' : Len(links'[i].queue) <= MaxQueue
    BY <1>1, <1>2 DEF LinksOK, Fit
  <1>5. links' # <<>> /\ links # <<>>
    BY <1>1, <1>2, EmptySeq DEF LinksOK
  <1>6. \A i \in DOMAIN links' : links'[i].open => HasLink' /\ i = Own'
    BY <1>1, <1>2, <1>3 DEF LinksOK
  <1> QED
    BY <1>1, <1>2, <1>3, <1>4, <1>5, <1>6 DEF LinksOK, audiod

\* or the connection is lost.
LEMMA LinksCut ==
  ASSUME LinksOK, NEW r \in Seq(CommandType), Cuts(r),
         replies' \in Seq(Levels), UNCHANGED audiod
  PROVE  LinksOK'
  <1>1. ~HasLink' /\ hung' = FALSE
    BY DEF Cuts, HasLink, LinksOK
  <1>2. CASE HasLink
    <2>1. links' = OwnAs(FALSE, r) /\ Fit(r)
      BY <1>2 DEF Cuts
    <2>2. /\ links' \in Seq(LinkType) /\ Len(links') = Len(links) /\ DOMAIN links' = DOMAIN links
          /\ Own \in DOMAIN links /\ links'[Own].open = FALSE
          /\ Len(links'[Own].queue) = Len(links[Own].queue) + Len(r)
          /\ \A i \in DOMAIN links : i # Own => links'[i] = links[i]
      BY <1>2, <2>1, OwnLinks
    <2>3. \A i \in DOMAIN links' : Len(links'[i].queue) <= MaxQueue /\ ~links'[i].open
      BY <2>1, <2>2 DEF LinksOK, Fit
    <2>4. links' # <<>> /\ links # <<>>
      BY <1>2, <2>2, EmptySeq DEF LinksOK
    <2> QED
      BY <1>1, <2>2, <2>3, <2>4 DEF LinksOK, audiod
  <1>3. CASE ~HasLink
    <2>1. links' = links
      BY <1>3 DEF Cuts
    <2> QED
      BY <1>1, <1>3, <2>1 DEF LinksOK, audiod
  <1> QED
    BY <1>2, <1>3

\* Packets sent lead on to the manager's new view,
LEMMA TablesSend ==
  ASSUME LinksOK, QueuesRun, OwnRuns, NEW r \in Seq(CommandType), Sends(r), UNCHANGED audiod,
         Leads(r, ViewOf(manager), ViewOf(manager)')
  PROVE  QueuesRun' /\ OwnRuns'
  <1>1. HasLink /\ links' = OwnAs(TRUE, r)
    BY DEF Sends
  <1>2. /\ Len(links') = Len(links) /\ DOMAIN links' = DOMAIN links
        /\ Own \in DOMAIN links /\ links'[Own].queue = links[Own].queue \o r
        /\ \A i \in DOMAIN links : i # Own => links'[i] = links[i]
        /\ links[Own].queue \in Seq(CommandType)
    BY <1>1, OwnLinks
  <1>3. Own' = Own /\ \A i : StartOf(i)' = StartOf(i)
    BY <1>2 DEF Own, StartOf, audiod
  <1>4. Leads(links'[Own].queue, StartOf(Own), ViewOf(manager)')
    BY <1>1, <1>2, LeadsThrough DEF OwnRuns
  <1>5. QueuesRun'
    BY <1>2, <1>3, <1>4 DEF QueuesRun
  <1> QED
    BY <1>3, <1>4, <1>5 DEF OwnRuns

\* and packets before the connection was lost lead somewhere.
LEMMA TablesCut ==
  ASSUME LinksOK, QueuesRun, OwnRuns, NEW r \in Seq(CommandType), Cuts(r), UNCHANGED audiod,
         \E w : Leads(r, ViewOf(manager), w)
  PROVE  QueuesRun' /\ OwnRuns'
  <1>1. OwnRuns'
    BY DEF OwnRuns, Cuts, HasLink
  <1>2. \A i : StartOf(i)' = StartOf(i)
    BY DEF StartOf, audiod
  <1>3. CASE HasLink
    <2>1. links' = OwnAs(FALSE, r)
      BY <1>3 DEF Cuts
    <2>2. /\ DOMAIN links' = DOMAIN links
          /\ Own \in DOMAIN links /\ links'[Own].queue = links[Own].queue \o r
          /\ \A i \in DOMAIN links : i # Own => links'[i] = links[i]
          /\ links[Own].queue \in Seq(CommandType)
      BY <1>3, <2>1, OwnLinks
    <2>3. \E w : Leads(links'[Own].queue, StartOf(Own), w)
      BY <1>3, <2>2, LeadsThrough DEF OwnRuns
    <2> QED
      BY <1>1, <1>2, <2>2, <2>3 DEF QueuesRun
  <1>4. CASE ~HasLink
    <2>1. links' = links
      BY <1>4 DEF Cuts
    <2> QED
      BY <1>1, <1>2, <2>1 DEF QueuesRun
  <1> QED
    BY <1>3, <1>4

\* A call that sends `commands', whose outcome is `after', keeps the invariant.
LEMMA TransmitStep ==
  ASSUME ControlInv, manager.fd, NEW k \in Nat,
         NEW commands \in Seq(CommandType), HasLink \/ commands # <<>>,
         NEW before, NEW after, Transmit(k, commands, before, after),
         GoodProcesses(before), GoodManager(after), after.fd,
         Leads(commands, ViewOf(manager), ViewOf(after)),
         replies' \in Seq(Levels), UNCHANGED audiod,
         Sends(commands) /\ manager' = after => VolumeInv'
  PROVE  ControlInv'
  <1>1. GoodManager(Lost(before)) /\ ~Lost(before).fd
    BY LostGood
  <1>2. \/ Sends(commands) /\ manager' = after
        \/ /\ manager' = Lost(before) /\ k \in 0 .. Len(commands)
           /\ Cuts(SubSeq(commands, 1, k))
    BY <1>1, TransmitCases DEF ControlInv
  <1>3. CASE Sends(commands) /\ manager' = after
    <2>1. LinksOK'
      BY <1>3, LinksSend DEF ControlInv
    <2>2. ViewOf(manager)' = ViewOf(after)
      BY <1>3 DEF ViewOf
    <2>3. QueuesRun' /\ OwnRuns'
      BY <1>3, <2>2, TablesSend DEF ControlInv
    <2>4. GoodManager(manager)'
      BY <1>3 DEF GoodManager, GoodProcesses, Announces, Fits, OneClock, UsedIn
    <2> QED
      BY <1>3, <2>1, <2>3, <2>4 DEF ControlInv
  <1>4. CASE /\ manager' = Lost(before) /\ k \in 0 .. Len(commands)
             /\ Cuts(SubSeq(commands, 1, k))
    <2> DEFINE r == SubSeq(commands, 1, k)
    <2>1. r \in Seq(CommandType) /\ \E w : Leads(r, ViewOf(manager), w)
      BY <1>4, LeadsPart
    <2> HIDE DEF r
    <2>2. Cuts(r)
      BY <1>4 DEF r
    <2>3. LinksOK'
      BY <2>1, <2>2, LinksCut DEF ControlInv
    <2>4. QueuesRun' /\ OwnRuns'
      BY <2>1, <2>2, TablesCut DEF ControlInv
    <2>5. VolumeInv'
      BY <2>2 DEF VolumeInv, Cuts, HasLink
    <2>6. GoodManager(manager)'
      BY <1>1, <1>4 DEF GoodManager, GoodProcesses, Announces, Fits, OneClock, UsedIn
    <2> QED
      BY <2>3, <2>4, <2>5, <2>6 DEF ControlInv
  <1> QED
    BY <1>2, <1>3, <1>4

-----------------------------------------------------------------------------
(* The manager's calls. *)

\* Nothing about the volume changes.
SameVolume(m, n) == /\ n.sent = m.sent /\ n.applied = m.applied
                    /\ n.waiting = m.waiting /\ n.known = m.known
NoVolume(q) == \A i \in DOMAIN q : q[i].type # "VOLUME"

\* Packets other than VOLUME leave the volume as it is.
LEMMA SendOther ==
  ASSUME LinksOK, VolumeInv, NEW r \in Seq(CommandType), NoVolume(r), Sends(r),
         SameVolume(manager, manager'), replies' = replies, UNCHANGED audiod
  PROVE  VolumeInv'
  <1>1. HasLink /\ links' = OwnAs(TRUE, r)
    BY DEF Sends
  <1> DEFINE q == links[Own].queue
  <1>2. /\ Len(links') = Len(links) /\ links'[Own].queue = q \o r /\ q \in Seq(CommandType)
    BY <1>1, OwnLinks
  <1>3. Own' = Own
    BY <1>2 DEF Own
  <1> HIDE DEF q
  <1>4. /\ Len(q) \in Nat /\ Len(r) \in Nat /\ DOMAIN q = 1 .. Len(q) /\ DOMAIN r = 1 .. Len(r)
        /\ DOMAIN (q \o r) = 1 .. Len(q) + Len(r)
        /\ \A i \in 1 .. Len(q) + Len(r) :
              (q \o r)[i] = IF i <= Len(q) THEN q[i] ELSE r[i - Len(q)]
    BY <1>2, ConcatProperties, LenProperties
  <1>5. \A i \in DOMAIN (q \o r) :
           (q \o r)[i].type = "VOLUME" => i \in DOMAIN q /\ (q \o r)[i] = q[i]
    <2> SUFFICES ASSUME NEW i \in 1 .. Len(q) + Len(r), (q \o r)[i].type = "VOLUME"
                 PROVE  i <= Len(q)
      BY <1>4
    <2> SUFFICES ASSUME ~(i <= Len(q)) PROVE FALSE
      OBVIOUS
    <2>1. i - Len(q) \in 1 .. Len(r) /\ (q \o r)[i] = r[i - Len(q)]
      BY <1>4
    <2> QED
      BY <1>4, <2>1 DEF NoVolume
  <1>6. OneVolume(q, manager, replies)
    BY <1>1 DEF VolumeInv, q
  <1>7. OneVolume(q \o r, manager', replies')
    <2>1. ASSUME NEW i \in DOMAIN (q \o r), (q \o r)[i].type = "VOLUME"
          PROVE  /\ replies' = <<>> /\ manager'.waiting /\ (q \o r)[i].level = manager'.sent
                 /\ \A j \in DOMAIN (q \o r) : (q \o r)[j].type = "VOLUME" => j = i
      <3>1. i \in DOMAIN q /\ (q \o r)[i] = q[i] /\ q[i].type = "VOLUME"
        BY <1>5, <2>1
      <3>2. /\ replies = <<>> /\ manager.waiting /\ q[i].level = manager.sent
            /\ \A j \in DOMAIN q : q[j].type = "VOLUME" => j = i
        BY <1>6, <3>1 DEF OneVolume
      <3>3. \A j \in DOMAIN (q \o r) : (q \o r)[j].type = "VOLUME" => j = i
        BY <1>5, <3>2
      <3> QED
        BY <3>1, <3>2, <3>3 DEF SameVolume
    <2> QED
      BY <2>1 DEF OneVolume
  <1> QED
    BY <1>1, <1>2, <1>3, <1>7 DEF VolumeInv, SameVolume, ReplyAwaited, audiod

\* A VOLUME is sent when none is on its way.
LEMMA SendVolume ==
  ASSUME LinksOK, VolumeInv, NEW level \in Levels, Sends(<<VOLUME(level)>>),
         NoVolume(links[Own].queue), served /\ Own = 1,
         manager'.sent = level, manager'.waiting, replies' = <<>>, UNCHANGED audiod
  PROVE  VolumeInv'
  <1> DEFINE r == <<VOLUME(level)>>
             q == links[Own].queue
  <1>0. r \in Seq(CommandType) /\ Len(r) = 1 /\ r[1] = VOLUME(level)
    BY CommandsTyped
  <1>1. HasLink /\ links' = OwnAs(TRUE, r)
    BY DEF Sends
  <1> HIDE DEF r
  <1>2. /\ Len(links') = Len(links) /\ links'[Own].queue = q \o r /\ q \in Seq(CommandType)
    BY <1>0, <1>1, OwnLinks
  <1>3. Own' = Own
    BY <1>2 DEF Own
  <1>4. NoVolume(q)
    OBVIOUS
  <1> HIDE DEF q
  <1>5. /\ Len(q) \in Nat /\ DOMAIN q = 1 .. Len(q) /\ DOMAIN (q \o r) = 1 .. Len(q) + 1
        /\ \A i \in 1 .. Len(q) + 1 :
              (q \o r)[i] = IF i <= Len(q) THEN q[i] ELSE r[i - Len(q)]
    BY <1>0, <1>2, ConcatProperties, LenProperties
  <1>6. (q \o r)[Len(q) + 1].level = level
    <2>1. Len(q) + 1 \in 1 .. Len(q) + 1 /\ ~(Len(q) + 1 <= Len(q)) /\ (Len(q) + 1) - Len(q) = 1
      BY <1>5
    <2> QED
      BY <1>0, <1>5, <2>1 DEF VOLUME
  <1>7. \A i \in DOMAIN (q \o r) : (q \o r)[i].type = "VOLUME" => i = Len(q) + 1
    <2> TAKE i \in DOMAIN (q \o r)
    <2>1. CASE i <= Len(q)
      <3>1. i \in DOMAIN q /\ (q \o r)[i] = q[i]
        BY <1>5, <2>1
      <3> QED
        BY <1>4, <3>1 DEF NoVolume
    <2>2. CASE ~(i <= Len(q))
      BY <1>5, <2>2
    <2> QED
      BY <2>1, <2>2
  <1>8. OneVolume(q \o r, manager', replies')
    BY <1>6, <1>7 DEF OneVolume
  <1> QED
    BY <1>1, <1>2, <1>3, <1>8 DEF VolumeInv, ReplyAwaited, audiod

\* A call that sends nothing.
LEMMA KeepStep ==
  ASSUME ControlInv, NEW k, NEW after, Keep(k, after), GoodManager(after),
         after.fd = manager.fd, ViewOf(after) = ViewOf(manager),
         replies' \in Seq(Levels), UNCHANGED audiod,
         manager' = after => VolumeInv'
  PROVE  ControlInv'
  <1>1. manager' = after /\ links' = links /\ hung' = hung
    BY DEF Keep
  <1>2. HasLink' = HasLink /\ Own' = Own /\ \A i : StartOf(i)' = StartOf(i)
    BY <1>1 DEF HasLink, Own, StartOf, audiod
  <1>3. LinksOK'
    BY <1>1, <1>2 DEF ControlInv, LinksOK, audiod
  <1>4. ViewOf(manager)' = ViewOf(manager)
    BY <1>1 DEF ViewOf
  <1>5. QueuesRun' /\ OwnRuns'
    BY <1>1, <1>2, <1>4 DEF ControlInv, QueuesRun, OwnRuns
  <1>6. GoodManager(manager)'
    BY <1>1 DEF GoodManager, GoodProcesses, Announces, Fits, OneClock, UsedIn
  <1> QED
    BY <1>1, <1>3, <1>5, <1>6 DEF ControlInv

\* The volume when nothing about it changes.
LEMMA KeepVolume ==
  ASSUME VolumeInv, UNCHANGED <<links, hung, replies, audiod>>,
         manager'.fd = manager.fd, SameVolume(manager, manager')
  PROVE  VolumeInv'
  <1>1. HasLink' = HasLink /\ Own' = Own
    BY DEF HasLink, Own
  <1>2. HasLink => OneVolume(links[Own].queue, manager', replies')
    BY DEF VolumeInv, OneVolume, SameVolume
  <1> QED
    BY <1>1, <1>2 DEF VolumeInv, ReplyAwaited, SameVolume, audiod

\* A row whose audible state is replaced.
LEMMA RowAs ==
  ASSUME NEW x \in RowType, NEW o
  PROVE  [x EXCEPT !.audible = o] = [known |-> x.known, clock |-> x.clock, audible |-> o]
  <1> DEFINE a == [x EXCEPT !.audible = o]
             b == [known |-> x.known, clock |-> x.clock, audible |-> o]
             F == {"known", "clock", "audible"}
  <1>1. x = [y \in F |-> x[y]]
    BY DEF RowType
  <1>2. a = [y \in F |-> a[y]]
    BY <1>1
  <1>3. b = [y \in F |-> b[y]]
    OBVIOUS
  <1>4. \A y \in F : a[y] = b[y]
    BY <1>1
  <1> HIDE DEF a, b
  <1>5. a = b
    BY <1>2, <1>3, <1>4
  <1> QED
    BY <1>5 DEF a, b

\* A process is announced, with its audible state after it.
LEMMA LeadsAnnounced ==
  ASSUME NEW t \in TableType, NEW p \in Pids, NEW clock \in BOOLEAN, NEW audible \in BOOLEAN,
         Accepts(t, ANNOUNCE(p, clock))
  PROVE  Leads(<<ANNOUNCE(p, clock), AUDIBLE(p, audible)>>, t,
               [t EXCEPT ![p] = [known |-> TRUE, clock |-> clock, audible |-> audible]])
  <1> DEFINE a == ANNOUNCE(p, clock)
             b == AUDIBLE(p, audible)
             row == [known |-> TRUE, clock |-> clock, audible |-> FALSE]
  <1>1. a \in CommandType /\ b \in CommandType
    BY CommandsTyped
  <1>2. After(t, a) = [t EXCEPT ![p] = row]
    BY DEF After, ANNOUNCE
  <1> DEFINE t1 == After(t, a)
             full == [known |-> TRUE, clock |-> clock, audible |-> audible]
  <1>3. t1 \in TableType
    BY <1>1, AfterTyped
  <1>4. t1 = [t EXCEPT ![p] = row] /\ t1[p] = row /\ t1[p].known
    BY <1>2 DEF TableType
  <1> HIDE DEF t1
  <1>5. After(t1, b) = [t1 EXCEPT ![p].audible = audible]
    BY <1>4 DEF After, AUDIBLE
  <1>6. [row EXCEPT !.audible = audible] = full
    <2>1. row \in RowType /\ row.known = TRUE /\ row.clock = clock
      BY DEF RowType
    <2> QED
      BY <2>1, RowAs
  <1>7. After(t1, b) = [t EXCEPT ![p] = full]
    <2>1. After(t1, b) = [t1 EXCEPT ![p] = full]
      BY <1>4, <1>5, <1>6
    <2> QED
      BY <1>4, <2>1 DEF TableType
  <1>8. Accepts(t1, b)
    BY DEF Accepts, AUDIBLE
  <1>9. Leads(<<a>>, t, t1) /\ Leads(<<b>>, t1, After(t1, b))
    BY <1>1, <1>3, <1>8, LeadsOne DEF t1
  <1>10. <<a>> \in Seq(CommandType) /\ <<b>> \in Seq(CommandType) /\ <<a, b>> = <<a>> \o <<b>>
    BY <1>1
  <1>11. Leads(<<a>> \o <<b>>, t, After(t1, b))
    BY <1>9, <1>10, LeadsThrough
  <1> QED
    BY <1>7, <1>10, <1>11

\* Two packets other than VOLUME.
LEMMA PairOfOthers ==
  ASSUME NEW a \in CommandType, NEW b \in CommandType, a.type # "VOLUME", b.type # "VOLUME"
  PROVE  <<a, b>> \in Seq(CommandType) /\ <<a, b>> # <<>> /\ NoVolume(<<a, b>>)
  <1> DEFINE s == <<a, b>>
  <1>1. s \in Seq(CommandType) /\ Len(s) = 2 /\ s[1] = a /\ s[2] = b
    OBVIOUS
  <1> HIDE DEF s
  <1>2. DOMAIN s = 1 .. 2
    BY <1>1, LenProperties
  <1>3. \A i \in 1 .. 2 : i = 1 \/ i = 2
    OBVIOUS
  <1>4. NoVolume(s) /\ s # <<>>
    BY <1>1, <1>2, <1>3 DEF NoVolume
  <1> QED
    BY <1>1, <1>4 DEF s

\* The view is a table, of the processes the manager has announced.
LEMMA ViewTyped ==
  ASSUME NEW m \in ManagerType
  PROVE  /\ ViewOf(m) \in TableType
         /\ m.ready => KnownIn(ViewOf(m)) = UsedIn(m)
         /\ ~m.ready => ViewOf(m) = NoTable /\ KnownIn(ViewOf(m)) = {}
  <1>1. m.entries \in [Pids -> EntryType] /\ m.ready \in BOOLEAN
    BY DEF ManagerType
  <1>2. \A p \in Pids : ViewOf(m)[p] \in RowType
    BY <1>1 DEF ViewOf, RowType, Unknown, EntryType
  <1>3. ViewOf(m) \in TableType
    BY <1>2 DEF ViewOf, TableType
  <1>4. ~m.ready => ViewOf(m) = NoTable
    BY DEF ViewOf, NoTable
  <1>5. \A p \in Pids : ViewOf(m)[p].known <=> m.ready /\ m.entries[p].used
    BY <1>1 DEF ViewOf, Unknown, EntryType
  <1> QED
    BY <1>3, <1>4, <1>5 DEF KnownIn, UsedIn

\* A process is entered.
LEMMA EnteredGood ==
  ASSUME GoodProcesses(manager), NEW p \in Pids, NEW clock \in BOOLEAN,
         p \in Used \/ Cardinality(Used) < NProcesses,
         clock => \A q \in Used \ {p} : ~manager.entries[q].clock,
         NEW e \in EntryType, e.used, e.clock = clock
  PROVE  LET m == [manager EXCEPT !.entries[p] = e] IN
         /\ GoodProcesses(m)
         /\ UsedIn(m) = Used \cup {p}
         /\ m.entries[p] = e /\ \A q \in Pids \ {p} : m.entries[q] = manager.entries[q]
         /\ m.fd = manager.fd /\ m.ready = manager.ready /\ SameVolume(manager, m)
  <1> DEFINE m == [manager EXCEPT !.entries[p] = e]
  <1>1. manager \in ManagerType /\ manager.entries \in [Pids -> EntryType]
    BY DEF GoodProcesses, ManagerType
  <1>2. /\ m \in ManagerType /\ m.entries[p] = e
        /\ \A q \in Pids \ {p} : m.entries[q] = manager.entries[q]
        /\ m.fd = manager.fd /\ m.ready = manager.ready /\ SameVolume(manager, m)
    BY <1>1 DEF ManagerType, SameVolume
  <1> HIDE DEF m
  <1>3. UsedIn(m) = Used \cup {p} /\ Used = UsedIn(manager)
    BY <1>2 DEF UsedIn, Used
  <1>4. Fits(m)
    <2>1. IsFiniteSet(Used) /\ Cardinality(Used) \in Nat /\ Cardinality(Used) <= NProcesses
      BY <1>3, FS_CardinalityType DEF GoodProcesses, Fits
    <2>2. IsFiniteSet(Used \cup {p}) /\ Cardinality(Used \cup {p}) =
             IF p \in Used THEN Cardinality(Used) ELSE Cardinality(Used) + 1
      BY <2>1, FS_AddElement
    <2> QED
      BY <1>3, <2>1, <2>2, ControlAssumption DEF Fits, ControlAssumption
  <1>5. OneClock(m)
    <2> SUFFICES ASSUME NEW a \in Used \cup {p}, NEW b \in Used \cup {p},
                        m.entries[a].clock, m.entries[b].clock
                 PROVE  a = b
      BY <1>3 DEF OneClock
    <2>1. \A q \in Used \ {p} : q \in Pids \ {p} /\ m.entries[q] = manager.entries[q]
      BY <1>2 DEF Used
    <2>2. CASE clock
      BY <1>2, <2>1, <2>2
    <2>3. CASE ~clock
      BY <1>2, <1>3, <2>1, <2>3 DEF GoodProcesses, OneClock
    <2> QED
      BY <2>2, <2>3
  <1> QED
    BY <1>2, <1>3, <1>4, <1>5 DEF GoodProcesses, m

\* A started process.
LEMMA StartStep ==
  ASSUME ControlInv, NEW p \in Pids, NEW clock \in BOOLEAN, NEW k \in Nat,
         Start(p, clock, k)
  PROVE  ControlInv'
  <1> DEFINE entered == [manager EXCEPT !.entries[p] = Entry(clock)]
             told == [manager EXCEPT !.entries[p] = Told(Entry(clock))]
  <1>0. /\ GoodManager(manager) /\ GoodProcesses(manager) /\ Announces(manager)
        /\ manager \in ManagerType /\ manager.entries \in [Pids -> EntryType]
        /\ manager.ready \in BOOLEAN /\ Used = UsedIn(manager)
    BY DEF ControlInv, GoodManager, GoodProcesses, ManagerType, Used, UsedIn
  <1>1. /\ p \in Used \/ Cardinality(Used) < NProcesses
        /\ clock => \A q \in Used \ {p} : ~manager.entries[q].clock
        /\ UNCHANGED <<replies, audiod>>
    BY DEF Start
  <1>2. /\ Entry(clock) \in EntryType /\ Entry(clock).used /\ Entry(clock).clock = clock
        /\ Entry(clock).audible = FALSE /\ Entry(clock).announced = FALSE
        /\ Told(Entry(clock)) \in EntryType /\ Told(Entry(clock)).used
        /\ Told(Entry(clock)).clock = clock /\ Told(Entry(clock)).announced = TRUE
        /\ Told(Entry(clock)).told = FALSE /\ Told(Entry(clock)).audible = FALSE
    BY DEF Entry, NoEntry, Told, EntryType
  <1>3. /\ GoodProcesses(entered) /\ UsedIn(entered) = Used \cup {p}
        /\ entered.entries[p] = Entry(clock)
        /\ \A q \in Pids \ {p} : entered.entries[q] = manager.entries[q]
        /\ entered.fd = manager.fd /\ entered.ready = manager.ready /\ SameVolume(manager, entered)
    BY <1>0, <1>1, <1>2, EnteredGood
  <1>4. /\ GoodProcesses(told) /\ UsedIn(told) = Used \cup {p}
        /\ told.entries[p] = Told(Entry(clock))
        /\ \A q \in Pids \ {p} : told.entries[q] = manager.entries[q]
        /\ told.fd = manager.fd /\ told.ready = manager.ready /\ SameVolume(manager, told)
    BY <1>0, <1>1, <1>2, EnteredGood
  <1>5. [entered EXCEPT !.entries[p] = Told(@)] = told
    <2>1. [entered EXCEPT !.entries[p] = Told(@)]
          = [entered EXCEPT !.entries[p] = Told(entered.entries[p])]
      OBVIOUS
    <2> DEFINE E == manager.entries
               a == [E EXCEPT ![p] = Entry(clock)]
               b == [E EXCEPT ![p] = Told(Entry(clock))]
    <2>2. [a EXCEPT ![p] = Told(Entry(clock))] = b
      BY <1>0
    <2>3. entered = [manager EXCEPT !.entries = a] /\ told = [manager EXCEPT !.entries = b]
      OBVIOUS
    <2>4. entered.entries = a
      BY <1>0, <2>3 DEF ManagerType
    <2> HIDE DEF a, b, entered, told
    <2>5. [entered EXCEPT !.entries = b] = told
      BY <1>0, <2>3 DEF ManagerType
    <2>6. [entered EXCEPT !.entries[p] = Told(@)] = [entered EXCEPT !.entries = b]
      BY <1>3, <2>1, <2>2, <2>4
    <2> QED
      BY <2>5, <2>6
  <1> HIDE DEF entered, told
  <1>6. replies' \in Seq(Levels)
    BY <1>1 DEF ControlInv, LinksOK
  <1>7. CASE MayAnnounce
    <2> DEFINE commands == Announcement(p, Entry(clock))
    <2>1. Transmit(k, commands, entered, told)
      BY <1>5, <1>7 DEF Start, entered
    <2>2. manager.fd /\ manager.ready
      BY <1>7 DEF MayAnnounce
    <2>3. commands = <<ANNOUNCE(p, clock), AUDIBLE(p, FALSE)>>
      BY <1>2 DEF Announcement
    <2>4. commands \in Seq(CommandType) /\ commands # <<>> /\ NoVolume(commands)
      <3>1. /\ ANNOUNCE(p, clock) \in CommandType /\ AUDIBLE(p, FALSE) \in CommandType
            /\ ANNOUNCE(p, clock).type # "VOLUME" /\ AUDIBLE(p, FALSE).type # "VOLUME"
        BY CommandsTyped DEF ANNOUNCE, AUDIBLE
      <3> QED
        BY <2>3, <3>1, PairOfOthers
    <2>5. GoodManager(told)
      <3>1. \A q \in UsedIn(told) :
               told.entries[q].announced = told.ready /\ told.entries[q].told = told.entries[q].audible
        BY <1>0, <1>2, <1>4, <2>2 DEF Announces, Used
      <3> QED
        BY <1>4, <2>2, <3>1 DEF GoodManager, Announces
    <2>6. Leads(commands, ViewOf(manager), ViewOf(told))
      <3> DEFINE t == ViewOf(manager)
                 row == [known |-> TRUE, clock |-> clock, audible |-> FALSE]
      <3>1. t \in TableType /\ KnownIn(t) = Used
        BY <1>0, <2>2, ViewTyped
      <3>2. \A q \in Used : q \in Pids /\ t[q].clock = manager.entries[q].clock
        BY <2>2 DEF ViewOf, Used
      <3>3. ViewOf(told) = [t EXCEPT ![p] = row]
        <4>1. ViewOf(told)[p] = row
          BY <1>2, <1>4, <2>2 DEF ViewOf
        <4>2. \A q \in Pids \ {p} : ViewOf(told)[q] = t[q]
          BY <1>4 DEF ViewOf
        <4>3. t = [q \in Pids |-> t[q]] /\ ViewOf(told) = [q \in Pids |-> ViewOf(told)[q]]
          BY DEF ViewOf
        <4> HIDE DEF t
        <4> QED
          BY <4>1, <4>2, <4>3
      <3> HIDE DEF t
      <3>4. Accepts(t, ANNOUNCE(p, clock))
        <4>1. Cardinality(Used) \in Nat /\ NProcesses \in Nat
          BY <1>0, FS_CardinalityType, ControlAssumption DEF GoodProcesses, Fits, ControlAssumption
        <4>2. p \notin KnownIn(t) => ~(Cardinality(KnownIn(t)) >= NProcesses)
          BY <1>1, <3>1, <4>1
        <4> QED
          BY <1>1, <3>1, <3>2, <4>2 DEF Accepts, ANNOUNCE
      <3>5. Leads(<<ANNOUNCE(p, clock), AUDIBLE(p, FALSE)>>, t, [t EXCEPT ![p] = row])
        BY <3>1, <3>4, LeadsAnnounced
      <3> QED
        BY <2>3, <3>3, <3>5 DEF t
    <2> HIDE DEF commands
    <2>7. Sends(commands) /\ manager' = told => VolumeInv'
      BY <1>1, <1>4, <2>4, SendOther DEF ControlInv
    <2> QED
      BY <1>1, <1>3, <1>4, <1>6, <2>1, <2>2, <2>4, <2>5, <2>6, <2>7, TransmitStep
  <1>8. CASE ~MayAnnounce
    <2>1. Keep(k, entered)
      BY <1>8 DEF Start, entered
    <2>2. manager.ready = FALSE
      BY <1>0, <1>8 DEF MayAnnounce, Announces
    <2>3. GoodManager(entered)
      <3>1. \A q \in UsedIn(entered) : entered.entries[q].announced = FALSE
        BY <1>0, <1>2, <1>3, <2>2 DEF Announces, Used
      <3>2. ~entered.fd => ~entered.known
        BY <1>0, <1>3 DEF Announces, SameVolume
      <3> QED
        BY <1>3, <2>2, <3>1, <3>2 DEF GoodManager, Announces
    <2>4. ViewOf(entered) = ViewOf(manager)
      BY <1>3, <2>2 DEF ViewOf
    <2>5. manager' = entered => VolumeInv'
      BY <1>1, <1>3, <2>1, KeepVolume DEF ControlInv, Keep
    <2> QED
      BY <1>1, <1>3, <1>6, <2>1, <2>3, <2>4, <2>5, KeepStep
  <1> QED
    BY <1>7, <1>8

\* A process that has left.
LEMMA LeaveStep ==
  ASSUME ControlInv, NEW p \in Pids, NEW k \in Nat, Leave(p, k)
  PROVE  ControlInv'
  <1> DEFINE gone == [manager EXCEPT !.entries[p] = NoEntry]
  <1>0. /\ GoodManager(manager) /\ GoodProcesses(manager) /\ Announces(manager)
        /\ manager \in ManagerType /\ manager.entries \in [Pids -> EntryType]
        /\ manager.ready \in BOOLEAN /\ Used = UsedIn(manager)
    BY DEF ControlInv, GoodManager, GoodProcesses, ManagerType, Used, UsedIn
  <1>1. p \in Used /\ UNCHANGED <<replies, audiod>>
    BY DEF Leave
  <1>2. NoEntry \in EntryType /\ ~NoEntry.used
    BY DEF NoEntry, EntryType
  <1>3. /\ gone \in ManagerType /\ gone.entries[p] = NoEntry
        /\ \A q \in Pids \ {p} : gone.entries[q] = manager.entries[q]
        /\ gone.fd = manager.fd /\ gone.ready = manager.ready /\ SameVolume(manager, gone)
    BY <1>0, <1>2 DEF ManagerType, SameVolume
  <1> HIDE DEF gone
  <1>4. UsedIn(gone) = Used \ {p}
    BY <1>2, <1>3 DEF UsedIn, Used
  <1>5. Fits(gone)
    <2>1. IsFiniteSet(Used) /\ Cardinality(Used) \in Nat /\ Cardinality(Used) <= NProcesses
      BY <1>0, FS_CardinalityType DEF GoodProcesses, Fits
    <2>2. IsFiniteSet(Used \ {p}) /\ Cardinality(Used \ {p}) = Cardinality(Used) - 1
      BY <1>1, <2>1, FS_RemoveElement
    <2> QED
      BY <1>4, <2>1, <2>2, ControlAssumption DEF Fits, ControlAssumption
  <1>6. GoodManager(gone)
    <2>1. \A q \in Used \ {p} : q \in Pids \ {p} /\ gone.entries[q] = manager.entries[q]
      BY <1>3 DEF Used
    <2>2. OneClock(gone)
      BY <1>0, <1>4, <2>1 DEF GoodProcesses, OneClock
    <2>3. ~gone.fd => ~gone.ready /\ ~gone.known
      BY <1>0, <1>3 DEF Announces, SameVolume
    <2> QED
      BY <1>0, <1>3, <1>4, <1>5, <2>1, <2>2, <2>3 DEF GoodManager, GoodProcesses, Announces
  <1>7. replies' \in Seq(Levels)
    BY <1>1 DEF ControlInv, LinksOK
  <1>8. CASE TellsGone(p)
    <2> DEFINE commands == <<GONE(p)>>
    <2>1. Transmit(k, commands, gone, gone)
      BY <1>8 DEF Leave, gone
    <2>2. manager.fd /\ manager.ready
      BY <1>0, <1>1, <1>8 DEF TellsGone, Announces
    <2>3. commands \in Seq(CommandType) /\ commands # <<>> /\ NoVolume(commands)
      BY CommandsTyped DEF NoVolume, GONE
    <2>4. Leads(commands, ViewOf(manager), ViewOf(gone))
      <3> DEFINE t == ViewOf(manager)
      <3>1. t \in TableType
        BY <1>0, ViewTyped
      <3>2. ViewOf(gone) = [t EXCEPT ![p] = Unknown]
        <4>1. ViewOf(gone)[p] = Unknown
          BY <1>2, <1>3 DEF ViewOf
        <4>2. \A q \in Pids \ {p} : ViewOf(gone)[q] = t[q]
          BY <1>3 DEF ViewOf
        <4>3. t = [q \in Pids |-> t[q]] /\ ViewOf(gone) = [q \in Pids |-> ViewOf(gone)[q]]
          BY DEF ViewOf
        <4> HIDE DEF t
        <4> QED
          BY <4>1, <4>2, <4>3
      <3> HIDE DEF t
      <3>3. After(t, GONE(p)) = [t EXCEPT ![p] = Unknown] /\ Accepts(t, GONE(p))
        BY DEF After, Accepts, GONE
      <3>4. Leads(<<GONE(p)>>, t, After(t, GONE(p)))
        BY <3>1, <3>3, CommandsTyped, LeadsOne
      <3> QED
        BY <3>2, <3>3, <3>4 DEF t
    <2> HIDE DEF commands
    <2>5. Sends(commands) /\ manager' = gone => VolumeInv'
      BY <1>1, <1>3, <2>3, SendOther DEF ControlInv
    <2> QED
      BY <1>1, <1>3, <1>6, <1>7, <2>1, <2>2, <2>3, <2>4, <2>5, TransmitStep DEF GoodManager
  <1>9. CASE ~TellsGone(p)
    <2>1. Keep(k, gone)
      BY <1>9 DEF Leave, gone
    <2>2. manager.ready = FALSE
      BY <1>0, <1>1, <1>9 DEF TellsGone, Announces
    <2>3. ViewOf(gone) = ViewOf(manager)
      BY <1>3, <2>2 DEF ViewOf
    <2>4. manager' = gone => VolumeInv'
      BY <1>1, <1>3, <2>1, KeepVolume DEF ControlInv, Keep
    <2> QED
      BY <1>1, <1>3, <1>6, <1>7, <2>1, <2>3, <2>4, KeepStep
  <1> QED
    BY <1>8, <1>9

\* A process that becomes audible or silent.
LEMMA AudibleStep ==
  ASSUME ControlInv, NEW p \in Pids, NEW audible \in BOOLEAN, NEW k \in Nat,
         SetAudible(p, audible, k)
  PROVE  ControlInv'
  <1> DEFINE set == [manager EXCEPT !.entries[p].audible = audible]
             told == [set EXCEPT !.entries[p].told = audible]
  <1>0. /\ GoodManager(manager) /\ GoodProcesses(manager) /\ Announces(manager)
        /\ manager \in ManagerType /\ manager.entries \in [Pids -> EntryType]
        /\ manager.ready \in BOOLEAN /\ Used = UsedIn(manager)
    BY DEF ControlInv, GoodManager, GoodProcesses, ManagerType, Used, UsedIn
  <1>1. p \in Used /\ UNCHANGED <<replies, audiod>>
    BY DEF SetAudible
  <1>2. /\ set \in ManagerType
        /\ set.entries[p] \in EntryType /\ set.entries[p].audible = audible
        /\ set.entries[p].used = manager.entries[p].used
        /\ set.entries[p].clock = manager.entries[p].clock
        /\ set.entries[p].announced = manager.entries[p].announced
        /\ set.entries[p].told = manager.entries[p].told
        /\ \A q \in Pids \ {p} : set.entries[q] = manager.entries[q]
        /\ set.fd = manager.fd /\ set.ready = manager.ready /\ SameVolume(manager, set)
    BY <1>0 DEF ManagerType, EntryType, SameVolume
  <1>3. /\ told \in ManagerType
        /\ told.entries[p].audible = audible /\ told.entries[p].told = audible
        /\ told.entries[p].used = manager.entries[p].used
        /\ told.entries[p].clock = manager.entries[p].clock
        /\ told.entries[p].announced = manager.entries[p].announced
        /\ \A q \in Pids \ {p} : told.entries[q] = manager.entries[q]
        /\ told.fd = manager.fd /\ told.ready = manager.ready /\ SameVolume(manager, told)
    <2> HIDE DEF set
    <2>1. set.entries \in [Pids -> EntryType]
      BY <1>2 DEF ManagerType
    <2> QED
      BY <1>2, <2>1 DEF ManagerType, EntryType, SameVolume
  <1> HIDE DEF set, told
  <1>4. /\ UsedIn(set) = Used /\ UsedIn(told) = Used
        /\ \A q \in Used : /\ q \in Pids
                           /\ set.entries[q].clock = manager.entries[q].clock
                           /\ told.entries[q].clock = manager.entries[q].clock
    BY <1>2, <1>3 DEF UsedIn, Used
  <1>5. GoodProcesses(set) /\ GoodProcesses(told)
    BY <1>0, <1>2, <1>3, <1>4 DEF GoodProcesses, Fits, OneClock
  <1>6. replies' \in Seq(Levels)
    BY <1>1 DEF ControlInv, LinksOK
  <1> DEFINE tells == manager.fd /\ manager.entries[p].announced /\ manager.entries[p].told # audible
  <1>7. CASE tells
    <2> DEFINE commands == <<AUDIBLE(p, audible)>>
    <2>1. Transmit(k, commands, set, told)
      BY <1>7 DEF SetAudible, set, told
    <2>2. manager.fd /\ manager.ready
      BY <1>0, <1>1, <1>7 DEF Announces
    <2>3. commands \in Seq(CommandType) /\ commands # <<>> /\ NoVolume(commands)
      BY CommandsTyped DEF NoVolume, AUDIBLE
    <2>4. GoodManager(told)
      <3>1. \A q \in Used : told.entries[q].announced = told.ready
                            /\ told.entries[q].told = told.entries[q].audible
        BY <1>0, <1>1, <1>3, <1>4, <2>2 DEF Announces
      <3> QED
        BY <1>3, <1>4, <1>5, <2>2, <3>1 DEF GoodManager, Announces
    <2>5. Leads(commands, ViewOf(manager), ViewOf(told))
      <3> DEFINE t == ViewOf(manager)
                 clock == manager.entries[p].clock
      <3>1. t \in TableType
        BY <1>0, ViewTyped
      <3>2. t[p] \in RowType /\ t[p].known = TRUE /\ t[p].clock = clock
        BY <1>1, <2>2, <3>1 DEF ViewOf, Used, TableType
      <3>3. ViewOf(told) = [t EXCEPT ![p] = [known |-> TRUE, clock |-> clock, audible |-> audible]]
        <4>1. ViewOf(told)[p] = [known |-> TRUE, clock |-> clock, audible |-> audible]
          BY <1>1, <1>3, <2>2 DEF ViewOf, Used
        <4>2. \A q \in Pids \ {p} : ViewOf(told)[q] = t[q]
          BY <1>3 DEF ViewOf
        <4>3. t = [q \in Pids |-> t[q]] /\ ViewOf(told) = [q \in Pids |-> ViewOf(told)[q]]
          BY DEF ViewOf
        <4> HIDE DEF t
        <4> QED
          BY <4>1, <4>2, <4>3
      <3> HIDE DEF t
      <3>4. After(t, AUDIBLE(p, audible)) = [t EXCEPT ![p].audible = audible]
            /\ Accepts(t, AUDIBLE(p, audible))
        BY <3>2 DEF After, Accepts, AUDIBLE
      <3>5. [t[p] EXCEPT !.audible = audible]
            = [known |-> TRUE, clock |-> clock, audible |-> audible]
        BY <3>2, RowAs
      <3>6. [t EXCEPT ![p].audible = audible] = ViewOf(told)
        BY <3>3, <3>5
      <3>7. Leads(<<AUDIBLE(p, audible)>>, t, After(t, AUDIBLE(p, audible)))
        BY <3>1, <3>4, CommandsTyped, LeadsOne
      <3> QED
        BY <3>4, <3>6, <3>7 DEF t
    <2> HIDE DEF commands
    <2>6. Sends(commands) /\ manager' = told => VolumeInv'
      BY <1>1, <1>3, <2>3, SendOther DEF ControlInv
    <2> QED
      BY <1>1, <1>3, <1>5, <1>6, <2>1, <2>2, <2>3, <2>4, <2>5, <2>6, TransmitStep
  <1>8. CASE ~tells
    <2>1. Keep(k, set)
      BY <1>8 DEF SetAudible, set
    <2>2. manager.ready => manager.entries[p].audible = audible
      BY <1>0, <1>1, <1>8 DEF Announces
    <2>3. GoodManager(set)
      <3>1. \A q \in Used : set.entries[q].announced = set.ready
                            /\ (set.ready => set.entries[q].told = set.entries[q].audible)
        BY <1>0, <1>1, <1>2, <1>4, <2>2 DEF Announces
      <3>2. ~set.fd => ~set.ready /\ ~set.known
        BY <1>0, <1>2 DEF Announces, SameVolume
      <3> QED
        BY <1>4, <1>5, <3>1, <3>2 DEF GoodManager, Announces
    <2>4. ViewOf(set) = ViewOf(manager)
      <3>1. \A q \in Pids : ViewOf(set)[q] = ViewOf(manager)[q]
        BY <1>2, <2>2 DEF ViewOf
      <3> QED
        BY <3>1 DEF ViewOf
    <2>5. manager' = set => VolumeInv'
      BY <1>1, <1>2, <2>1, KeepVolume DEF ControlInv, Keep
    <2> QED
      BY <1>1, <1>2, <1>6, <2>1, <2>3, <2>4, <2>5, KeepStep
  <1> QED
    BY <1>7, <1>8

\* With no VOLUME on its way the queue holds none.
LEMMA NoneOnItsWay ==
  ASSUME VolumeInv, HasLink, ~manager.waiting \/ replies # <<>>
  PROVE  NoVolume(links[Own].queue) /\ served /\ Own = 1
  BY DEF VolumeInv, OneVolume, NoVolume

\* VOLUME alone leads nowhere else.
LEMMA LeadsVolume ==
  ASSUME NEW t \in TableType, NEW level \in Levels
  PROVE  Leads(<<VOLUME(level)>>, t, t)
  <1>1. After(t, VOLUME(level)) = t /\ Accepts(t, VOLUME(level))
    BY DEF After, Accepts, VOLUME
  <1> QED
    BY <1>1, CommandsTyped, LeadsOne

\* The manager waits for the reply to a VOLUME it sends.
LEMMA SentGood ==
  ASSUME NEW m, GoodManager(m), m.fd
  PROVE  /\ GoodManager(SentVolume(m)) /\ ViewOf(SentVolume(m)) = ViewOf(m)
         /\ SentVolume(m).fd /\ SentVolume(m).sent = m.desired /\ SentVolume(m).waiting
         /\ SentVolume(m).known = m.known
  <1>1. m \in ManagerType
    BY DEF GoodManager, GoodProcesses
  <1>0. VolumeTicks \in 0 .. VolumeTicks
    BY ControlAssumption DEF ControlAssumption
  <1>2. /\ SentVolume(m) \in ManagerType /\ SentVolume(m).entries = m.entries
        /\ SentVolume(m).ready = m.ready /\ SentVolume(m).fd = m.fd
        /\ SentVolume(m).sent = m.desired /\ SentVolume(m).waiting
        /\ SentVolume(m).known = m.known
    BY <1>0, <1>1 DEF SentVolume, ManagerType
  <1> QED
    BY <1>2, SameEntries

\* The volume is set.
LEMMA VolumeStep ==
  ASSUME ControlInv, NEW level \in Levels, NEW k \in Nat, SetVolume(level, k)
  PROVE  ControlInv'
  <1> DEFINE set == [manager EXCEPT !.desired = level]
  <1>0. GoodManager(manager) /\ manager \in ManagerType
    BY DEF ControlInv, GoodManager, GoodProcesses
  <1>1. UNCHANGED <<replies, audiod>> /\ replies' \in Seq(Levels)
    BY DEF SetVolume, ControlInv, LinksOK
  <1>2. /\ set \in ManagerType /\ set.entries = manager.entries /\ set.ready = manager.ready
        /\ set.fd = manager.fd /\ set.desired = level /\ SameVolume(manager, set)
    BY <1>0 DEF ManagerType, SameVolume
  <1> HIDE DEF set
  <1>3. ~set.fd => ~set.ready /\ ~set.known
    BY <1>0, <1>2 DEF GoodManager, Announces, SameVolume
  <1>4. GoodManager(set) /\ ViewOf(set) = ViewOf(manager)
    BY <1>0, <1>2, <1>3, SameEntries
  <1>5. CASE TellsVolume(level)
    <2> DEFINE commands == <<VOLUME(level)>>
    <2>1. Transmit(k, commands, set, SentVolume(set)) /\ manager.fd /\ ~manager.waiting
      BY <1>5 DEF SetVolume, TellsVolume, set
    <2>2. commands \in Seq(CommandType) /\ commands # <<>>
      BY CommandsTyped
    <2>3. /\ GoodManager(SentVolume(set)) /\ ViewOf(SentVolume(set)) = ViewOf(manager)
          /\ SentVolume(set).fd /\ SentVolume(set).sent = level /\ SentVolume(set).waiting
      BY <1>2, <1>4, <2>1, SentGood
    <2>4. Leads(commands, ViewOf(manager), ViewOf(SentVolume(set)))
      BY <1>0, <2>3, ViewTyped, LeadsVolume
    <2>5. ASSUME Sends(commands), manager' = SentVolume(set) PROVE VolumeInv'
      <3>1. HasLink
        BY <2>5 DEF Sends
      <3>2. NoVolume(links[Own].queue) /\ served /\ Own = 1
        BY <2>1, <3>1, NoneOnItsWay DEF ControlInv
      <3>3. replies' = <<>>
        BY <1>1, <2>1, <3>1 DEF ControlInv, VolumeInv, ReplyAwaited
      <3> QED
        BY <1>1, <2>3, <2>5, <3>2, <3>3, SendVolume DEF ControlInv
    <2> HIDE DEF commands
    <2> QED
      BY <1>1, <1>4, <2>1, <2>2, <2>3, <2>4, <2>5, TransmitStep DEF GoodManager
  <1>6. CASE ~TellsVolume(level)
    <2>1. Keep(k, set)
      BY <1>6 DEF SetVolume, set
    <2>2. manager' = set => VolumeInv'
      BY <1>1, <1>2, <2>1, KeepVolume DEF ControlInv, Keep
    <2> QED
      BY <1>1, <1>2, <1>4, <2>1, <2>2, KeepStep
  <1> QED
    BY <1>5, <1>6

-----------------------------------------------------------------------------
(* Announcing everything. *)

\* Packet number m is the first or the second of a process.
LEMMA Halves ==
  ASSUME NEW n \in Nat, NEW m \in 1 .. 2 * n
  PROVE  \E j \in 1 .. n : /\ (m + 1) \div 2 = j
                           /\ \/ m = 2 * j - 1 /\ 2 - (m % 2) = 1
                              \/ m = 2 * j /\ 2 - (m % 2) = 2
  OBVIOUS

\* An order of a finite set holds each of its elements once.
LEMMA OrderOfSet ==
  ASSUME NEW U, IsFiniteSet(U), NEW order \in SetToSeqs(U)
  PROVE  /\ order \in [1 .. Cardinality(U) -> U] /\ Cardinality(U) \in Nat
         /\ Len(order) = Cardinality(U)
         /\ \A i, j \in 1 .. Cardinality(U) : order[i] = order[j] => i = j
         /\ \A p \in U : \E i \in 1 .. Cardinality(U) : order[i] = p
  <1> DEFINE n == Cardinality(U)
  <1>1. n \in Nat
    BY FS_CardinalityType
  <1>2. order \in [1 .. n -> U] /\ \A i, j \in 1 .. n : i # j => order[i] # order[j]
    BY DEF SetToSeqs
  <1>3. IsFiniteSet(1 .. n) /\ Cardinality(1 .. n) = n
    BY <1>1, FS_Interval
  <1>4. order \in Injection(1 .. n, U)
    BY <1>2 DEF Injection, IsInjective
  <1>5. order \in Surjection(1 .. n, U)
    BY <1>3, <1>4, FS_Injection
  <1>6. \A p \in U : \E i \in 1 .. n : order[i] = p
    BY <1>5 DEF Surjection
  <1>7. Len(order) = n
    BY <1>1, <1>2
  <1> QED
    BY <1>1, <1>2, <1>6, <1>7

\* The table after the first m packets of the announcement of U in `order': of the
\* process at place i, packet 2 * i - 1 is ANNOUNCE and packet 2 * i is AUDIBLE.
Said(order, p, m) == \E i \in DOMAIN order : order[i] = p /\ 2 * i - 1 <= m
Heard(order, p, m) == \E i \in DOMAIN order : order[i] = p /\ 2 * i <= m
TableAt(E, order, m) ==
    [p \in Pids |-> IF Said(order, p, m)
                    THEN [known |-> TRUE, clock |-> E[p].clock,
                          audible |-> E[p].audible /\ Heard(order, p, m)]
                    ELSE Unknown]

\* The rows of such a table.
RowRight(t, E, order, p, m) ==
    /\ t[p] \in RowType
    /\ Said(order, p, m) => /\ t[p].known = TRUE /\ t[p].clock = E[p].clock
                            /\ t[p] = [known |-> TRUE, clock |-> E[p].clock,
                                       audible |-> E[p].audible /\ Heard(order, p, m)]
    /\ ~Said(order, p, m) => t[p] = Unknown /\ ~t[p].known

\* They say what has been read of the announcement.
LEMMA RowsAt ==
  ASSUME NEW E \in [Pids -> EntryType], NEW order, NEW m, NEW p \in Pids
  PROVE  RowRight(TableAt(E, order, m), E, order, p, m)
  <1> DEFINE row == [known |-> TRUE, clock |-> E[p].clock,
                     audible |-> E[p].audible /\ Heard(order, p, m)]
  <1>1. row \in RowType /\ row.known = TRUE /\ row.clock = E[p].clock
    BY DEF RowType, EntryType
  <1>2. Unknown \in RowType /\ ~Unknown.known
    BY DEF RowType, Unknown
  <1>3. TableAt(E, order, m)[p] = IF Said(order, p, m) THEN row ELSE Unknown
    BY DEF TableAt
  <1> HIDE DEF row
  <1>4. CASE Said(order, p, m)
    BY <1>1, <1>3, <1>4 DEF row, RowRight
  <1>5. CASE ~Said(order, p, m)
    BY <1>2, <1>3, <1>5 DEF RowRight
  <1> QED
    BY <1>4, <1>5

\* A command other than VOLUME takes table t to u.
Passes(t, c, u) ==
    c \in CommandType /\ c.type # "VOLUME" /\ Accepts(t, c) /\ u = After(t, c)

\* Those tables are the ones its packets lead through.
LEMMA AnnouncementTables ==
  ASSUME NEW E \in [Pids -> EntryType], NEW U \in SUBSET Pids,
         IsFiniteSet(U), Cardinality(U) <= NProcesses,
         \A p, q \in U : E[p].clock /\ E[q].clock => p = q,
         NEW order \in SetToSeqs(U), NEW m \in 1 .. 2 * Len(order),
         NEW at, at = order[(m + 1) \div 2],
         NEW c, c = Announcement(at, E[at])[2 - (m % 2)]
  PROVE  Passes(TableAt(E, order, m - 1), c, TableAt(E, order, m))
  <1> DEFINE n == Cardinality(U)
             t == TableAt(E, order, m - 1)
             u == TableAt(E, order, m)
  <1>1. /\ order \in [1 .. n -> U] /\ n \in Nat /\ Len(order) = n /\ DOMAIN order = 1 .. n
        /\ \A i, j \in 1 .. n : order[i] = order[j] => i = j
    BY OrderOfSet
  <1>2. PICK j \in 1 .. n : /\ (m + 1) \div 2 = j
                            /\ \/ m = 2 * j - 1 /\ 2 - (m % 2) = 1
                               \/ m = 2 * j /\ 2 - (m % 2) = 2
    BY <1>1, Halves
  <1> DEFINE p == order[j]
             e == E[p]
  <1>3. p \in U /\ p \in Pids /\ e \in EntryType /\ e.clock \in BOOLEAN /\ e.audible \in BOOLEAN
    BY <1>1 DEF EntryType
  <1>4. \A i \in 1 .. n : order[i] = p <=> i = j
    BY <1>1
  <1>5. \A q \in Pids : RowRight(t, E, order, q, m - 1)
    BY RowsAt
  <1>6. \A q \in Pids : RowRight(u, E, order, q, m)
    BY RowsAt
  <1>7. t = [q \in Pids |-> t[q]] /\ u = [q \in Pids |-> u[q]]
    BY DEF TableAt
  <1>8. m \in Nat /\ m - 1 \in Nat /\ j \in Nat
    BY <1>1
  <1>9. \A q \in Pids \ {p} : /\ Said(order, q, m) = Said(order, q, m - 1)
                              /\ Heard(order, q, m) = Heard(order, q, m - 1)
    <2> TAKE q \in Pids \ {p}
    <2>1. \A i \in 1 .. n : order[i] = q => i # j
      OBVIOUS
    <2>2. \A i \in 1 .. n : i # j => /\ 2 * i - 1 <= m <=> 2 * i - 1 <= m - 1
                                     /\ 2 * i <= m <=> 2 * i <= m - 1
      BY <1>1, <1>2, <1>8
    <2> QED
      BY <1>1, <2>1, <2>2 DEF Said, Heard
  <1>10. \A q \in Pids \ {p} : u[q] = t[q]
    BY <1>5, <1>6, <1>9 DEF RowRight
  <1>11. Announcement(p, e) = <<ANNOUNCE(p, e.clock), AUDIBLE(p, e.audible)>>
    BY DEF Announcement
  <1> HIDE DEF t, u
  <1>12. CASE m = 2 * j - 1 /\ 2 - (m % 2) = 1
    <2>0. c = ANNOUNCE(p, e.clock)
      BY <1>2, <1>11, <1>12
    <2>1. c \in CommandType /\ c.type = "ANNOUNCE" /\ c.pid = p /\ c.flag = e.clock
      BY <1>3, <2>0, CommandsTyped DEF ANNOUNCE
    <2>2. Said(order, p, m) /\ ~Heard(order, p, m) /\ ~Said(order, p, m - 1)
      <3>1. 2 * j - 1 <= m /\ ~(2 * j <= m) /\ ~(2 * j - 1 <= m - 1)
        BY <1>8, <1>12
      <3> QED
        BY <1>1, <1>4, <3>1 DEF Said, Heard
    <2>3. u[p] = [known |-> TRUE, clock |-> e.clock, audible |-> FALSE]
      BY <1>3, <1>6, <2>2 DEF RowRight
    <2>4. u = [t EXCEPT ![p] = [known |-> TRUE, clock |-> e.clock, audible |-> FALSE]]
      BY <1>7, <1>10, <2>3
    <2>5. u = After(t, c)
      BY <2>1, <2>4 DEF After
    <2>6. \A q \in KnownIn(t) : q \in U \ {p} /\ t[q].clock = E[q].clock
      <3> TAKE q \in KnownIn(t)
      <3>1. q \in Pids /\ t[q].known
        BY DEF KnownIn
      <3>2. Said(order, q, m - 1)
        BY <1>5, <3>1 DEF RowRight
      <3>3. q \in U /\ q # p
        BY <1>1, <2>2, <3>2 DEF Said
      <3> QED
        BY <1>5, <3>1, <3>2, <3>3 DEF RowRight
    <2>7. ~(Cardinality(KnownIn(t)) >= NProcesses)
      <3>1. IsFiniteSet(U \ {p}) /\ Cardinality(U \ {p}) = n - 1
        BY <1>3, FS_RemoveElement
      <3>2. KnownIn(t) \in SUBSET (U \ {p})
        BY <2>6
      <3>3. IsFiniteSet(KnownIn(t)) /\ Cardinality(KnownIn(t)) <= n - 1
        BY <3>1, <3>2, FS_Subset
      <3>4. Cardinality(KnownIn(t)) \in Nat
        BY <3>3, FS_CardinalityType
      <3> QED
        BY <1>1, <3>3, <3>4, ControlAssumption DEF ControlAssumption
    <2>8. Accepts(t, c)
      BY <1>3, <2>1, <2>6, <2>7 DEF Accepts
    <2> QED
      BY <2>1, <2>5, <2>8 DEF t, u, Passes
  <1>13. CASE m = 2 * j /\ 2 - (m % 2) = 2
    <2>0. c = AUDIBLE(p, e.audible)
      BY <1>2, <1>11, <1>13
    <2>1. c \in CommandType /\ c.type = "AUDIBLE" /\ c.pid = p /\ c.flag = e.audible
      BY <1>3, <2>0, CommandsTyped DEF AUDIBLE
    <2>2. Said(order, p, m) /\ Heard(order, p, m) /\ Said(order, p, m - 1)
      <3>1. 2 * j - 1 <= m /\ 2 * j <= m /\ 2 * j - 1 <= m - 1
        BY <1>8, <1>13
      <3> QED
        BY <1>1, <3>1 DEF Said, Heard
    <2>3. u[p] = [known |-> TRUE, clock |-> e.clock, audible |-> e.audible]
      BY <1>3, <1>6, <2>2 DEF RowRight
    <2>4. t[p] \in RowType /\ t[p].known = TRUE /\ t[p].clock = e.clock
      BY <1>3, <1>5, <2>2 DEF RowRight
    <2>5. [t[p] EXCEPT !.audible = e.audible] = u[p]
      <3>1. [t[p] EXCEPT !.audible = e.audible]
            = [known |-> t[p].known, clock |-> t[p].clock, audible |-> e.audible]
        BY <2>4, RowAs
      <3> QED
        BY <2>3, <2>4, <3>1
    <2>6. u = [t EXCEPT ![p].audible = e.audible]
      BY <1>7, <1>10, <2>5
    <2>7. u = After(t, c)
      BY <2>1, <2>4, <2>6 DEF After
    <2>8. Accepts(t, c)
      BY <2>1 DEF Accepts
    <2> QED
      BY <2>1, <2>7, <2>8 DEF t, u, Passes
  <1> QED
    BY <1>2, <1>12, <1>13

\* Every process is known when they are all announced.
LEMMA AnnouncedAll ==
  ASSUME GoodProcesses(manager), NEW order \in SetToSeqs(Used),
         NEW m, m.ready,
         \A p \in Pids : /\ m.entries[p].used = manager.entries[p].used
                         /\ m.entries[p].clock = manager.entries[p].clock
                         /\ m.entries[p].audible = manager.entries[p].audible
  PROVE  /\ AllAnnouncements(order) \in Seq(CommandType)
         /\ NoVolume(AllAnnouncements(order))
         /\ Leads(AllAnnouncements(order), NoTable, ViewOf(m))
  <1> DEFINE E == manager.entries
             n == Cardinality(Used)
             r == AllAnnouncements(order)
             f == [i \in 0 .. 2 * n |-> TableAt(E, order, i)]
  <1>1. /\ E \in [Pids -> EntryType] /\ Used \in SUBSET Pids /\ IsFiniteSet(Used)
        /\ Cardinality(Used) <= NProcesses /\ Used = UsedIn(manager)
        /\ \A p, q \in Used : E[p].clock /\ E[q].clock => p = q
    BY DEF GoodProcesses, ManagerType, Fits, OneClock, UsedIn, Used
  <1>2. /\ order \in [1 .. n -> Used] /\ n \in Nat /\ Len(order) = n /\ DOMAIN order = 1 .. n
        /\ \A p \in Used : \E i \in 1 .. n : order[i] = p
    BY <1>1, OrderOfSet
  <1>3. /\ DOMAIN r = 1 .. 2 * n
        /\ r = [i \in 1 .. 2 * n |-> LET p == order[(i + 1) \div 2] IN Announcement(p, E[p])[2 - (i % 2)]]
    BY <1>2 DEF AllAnnouncements
  <1> HIDE DEF E, r
  <1>4. ASSUME NEW i \in 1 .. 2 * n
        PROVE  Passes(TableAt(E, order, i - 1), r[i], TableAt(E, order, i))
    <2>1. i \in 1 .. 2 * Len(order)
      BY <1>2
    <2> DEFINE p == order[(i + 1) \div 2]
    <2>2. r[i] = Announcement(p, E[p])[2 - (i % 2)]
      BY <1>3
    <2> HIDE DEF p
    <2>3. p = order[(i + 1) \div 2]
      BY DEF p
    <2> QED
      BY <2>3, <1>1, <2>1, <2>2, AnnouncementTables
  <1>5. r \in Seq(CommandType) /\ Len(r) = 2 * n
    <2>1. 2 * n \in Nat /\ r \in [1 .. 2 * n -> CommandType]
      BY <1>2, <1>3, <1>4 DEF Passes
    <2> QED
      BY <2>1
  <1>6. NoVolume(r)
    BY <1>3, <1>4 DEF NoVolume, Passes
  <1>7. ASSUME NEW i \in 0 .. 2 * n PROVE TableAt(E, order, i) \in TableType
    <2>1. \A p \in Pids : TableAt(E, order, i)[p] \in RowType
      BY <1>1, RowsAt DEF RowRight
    <2> QED
      BY <2>1 DEF TableAt, TableType
  <1>8. f \in [0 .. 2 * n -> TableType] /\ \A i \in 1 .. 2 * n : f[i] = TableAt(E, order, i)
                                                                 /\ f[i - 1] = TableAt(E, order, i - 1)
    BY <1>2, <1>7
  <1>9. f[0] = NoTable
    <2>1. \A i \in 1 .. n : ~(2 * i - 1 <= 0)
      BY <1>2
    <2>2. TableAt(E, order, 0) = NoTable
      BY <1>2, <2>1 DEF TableAt, Said, NoTable
    <2> QED
      BY <1>2, <2>2
  <1>10. f[2 * n] = ViewOf(m)
    <2>1. \A i \in 1 .. n : 2 * i - 1 <= 2 * n /\ 2 * i <= 2 * n
      BY <1>2
    <2>2. \A p \in Pids : /\ Said(order, p, 2 * n) <=> p \in Used
                          /\ Heard(order, p, 2 * n) <=> p \in Used
      BY <1>2, <2>1 DEF Said, Heard
    <2>3. \A p \in Pids : TableAt(E, order, 2 * n)[p] = ViewOf(m)[p]
      <3> TAKE p \in Pids
      <3>1. E[p].audible \in BOOLEAN /\ (m.entries[p].used <=> p \in Used)
        BY <1>1 DEF EntryType, Used
      <3>2. CASE p \in Used
        BY <2>2, <3>1, <3>2 DEF TableAt, ViewOf, E
      <3>3. CASE p \notin Used
        BY <2>2, <3>1, <3>3 DEF TableAt, ViewOf
      <3> QED
        BY <3>2, <3>3
    <2>4. TableAt(E, order, 2 * n) = ViewOf(m)
      BY <2>3 DEF TableAt, ViewOf
    <2> QED
      BY <1>2, <2>4
  <1> HIDE DEF f
  <1>11. Tables(f, r)
    BY <1>4, <1>5, <1>8 DEF Tables, Passes
  <1>12. Leads(r, NoTable, ViewOf(m))
    BY <1>5, <1>9, <1>10, <1>11 DEF Leads
  <1> QED
    BY <1>5, <1>6, <1>12 DEF r

-----------------------------------------------------------------------------
(* Replies, connecting and losing the connection. *)

\* The confirmed volume, with no VOLUME on its way.
LEMMA ConfirmedVolume ==
  ASSUME NoVolume(links[Own].queue)', (served /\ Own = 1)', replies' = <<>>,
         master' = manager'.applied
  PROVE  VolumeInv'
  BY DEF VolumeInv, OneVolume, NoVolume, ReplyAwaited

\* Packets after packets, none of them VOLUME.
LEMMA NoVolumes ==
  ASSUME NEW q \in Seq(CommandType), NEW r \in Seq(CommandType), NoVolume(q), NoVolume(r)
  PROVE  NoVolume(q \o r)
  <1>1. /\ Len(q) \in Nat /\ Len(r) \in Nat /\ DOMAIN q = 1 .. Len(q) /\ DOMAIN r = 1 .. Len(r)
        /\ DOMAIN (q \o r) = 1 .. Len(q) + Len(r)
        /\ \A i \in 1 .. Len(q) + Len(r) :
              (q \o r)[i] = IF i <= Len(q) THEN q[i] ELSE r[i - Len(q)]
    BY ConcatProperties, LenProperties
  <1> SUFFICES ASSUME NEW i \in 1 .. Len(q) + Len(r) PROVE (q \o r)[i].type # "VOLUME"
    BY <1>1 DEF NoVolume
  <1>2. CASE i <= Len(q)
    <2>1. i \in DOMAIN q /\ (q \o r)[i] = q[i]
      BY <1>1, <1>2
    <2> QED
      BY <2>1 DEF NoVolume
  <1>3. CASE ~(i <= Len(q))
    <2>1. i - Len(q) \in DOMAIN r /\ (q \o r)[i] = r[i - Len(q)]
      BY <1>1, <1>3
    <2> QED
      BY <2>1 DEF NoVolume
  <1> QED
    BY <1>2, <1>3

\* The awaited reply.
LEMMA ReplyStep ==
  ASSUME ControlInv, NEW k \in Nat, Reply(k)
  PROVE  ControlInv'
  <1> DEFINE got == Confirmed(manager)
             ready == [got EXCEPT !.ready = TRUE]
             all == [p \in Pids |-> IF p \in Used THEN Told(got.entries[p]) ELSE got.entries[p]]
             full == [ready EXCEPT !.entries = all, !.backoff = 1]
  <1>0. /\ GoodManager(manager) /\ manager \in ManagerType /\ GoodProcesses(manager)
        /\ manager.entries \in [Pids -> EntryType] /\ manager.ready \in BOOLEAN
        /\ Used = UsedIn(manager) /\ Announces(manager) /\ LinksOK /\ VolumeInv
    BY DEF ControlInv, GoodManager, GoodProcesses, ManagerType, Used, UsedIn
  <1>1. /\ HasLink /\ replies # <<>> /\ replies' = Tail(replies) /\ UNCHANGED audiod
        /\ manager.fd
    BY DEF Reply, HasLink
  <1>2. NoVolume(links[Own].queue) /\ served /\ Own = 1
    BY <1>0, <1>1, NoneOnItsWay
  <1>3. /\ Len(replies) = 1 /\ replies[1] = manager.sent /\ master = manager.sent
        /\ replies \in Seq(Levels)
    BY <1>0, <1>1 DEF VolumeInv, ReplyAwaited, LinksOK
  <1>4. replies' = <<>> /\ replies' \in Seq(Levels)
    <2>1. Tail(replies) \in Seq(Levels) /\ Len(Tail(replies)) = 0
      BY <1>1, <1>3, HeadTailProperties
    <2> QED
      BY <1>1, <2>1, EmptySeq
  <1>5. /\ got \in ManagerType /\ got.entries = manager.entries /\ got.ready = manager.ready
        /\ got.fd = TRUE /\ got.applied = manager.sent /\ got.desired = manager.desired
    BY <1>0, <1>1 DEF Confirmed, ManagerType
  <1>6. GoodManager(got) /\ ViewOf(got) = ViewOf(manager)
    BY <1>0, <1>5, SameEntries
  <1> HIDE DEF got
  <1>7. CASE got.desired # got.applied /\ Transmit(k, <<VOLUME(got.desired)>>, got, SentVolume(got))
    <2> DEFINE commands == <<VOLUME(got.desired)>>
    <2>0. got.desired \in Levels
      BY <1>5 DEF ManagerType
    <2>1. commands \in Seq(CommandType) /\ commands # <<>>
      BY <2>0, CommandsTyped
    <2>2. /\ GoodManager(SentVolume(got)) /\ ViewOf(SentVolume(got)) = ViewOf(manager)
          /\ SentVolume(got).fd /\ SentVolume(got).sent = got.desired /\ SentVolume(got).waiting
      BY <1>5, <1>6, SentGood
    <2>3. Leads(commands, ViewOf(manager), ViewOf(SentVolume(got)))
      BY <1>0, <2>0, <2>2, ViewTyped, LeadsVolume
    <2>4. ASSUME Sends(commands), manager' = SentVolume(got) PROVE VolumeInv'
      BY <1>0, <1>1, <1>2, <1>4, <2>0, <2>2, <2>4, SendVolume
    <2>5. Transmit(k, commands, got, SentVolume(got))
      BY <1>7
    <2> HIDE DEF commands
    <2> QED
      BY <1>1, <1>4, <1>6, <2>1, <2>2, <2>3, <2>4, <2>5, TransmitStep DEF GoodManager
  <1>8. ASSUME got.desired = got.applied, ~got.ready, NEW order \in SetToSeqs(Used),
               Transmit(k, AllAnnouncements(order), ready, full)
        PROVE  ControlInv'
    <2> DEFINE commands == AllAnnouncements(order)
    <2>1. all \in [Pids -> EntryType]
      BY <1>0, <1>5 DEF Told, EntryType
    <2>2. \A p \in Pids : /\ all[p].used = manager.entries[p].used
                          /\ all[p].clock = manager.entries[p].clock
                          /\ all[p].audible = manager.entries[p].audible
                          /\ p \in Used => all[p].announced = TRUE /\ all[p].told = all[p].audible
      BY <1>0, <1>5 DEF Told, EntryType
    <2> HIDE DEF all
    <2>3. /\ ready \in ManagerType /\ ready.entries = manager.entries /\ ready.fd = TRUE
      BY <1>5 DEF ManagerType
    <2>4. GoodProcesses(ready)
      BY <1>0, <2>3 DEF GoodProcesses, Fits, OneClock, UsedIn
    <2>5. 1 \in 1 .. BackoffMax
      BY ControlAssumption DEF ControlAssumption
    <2>6. /\ full \in ManagerType /\ full.entries = all /\ full.fd = TRUE /\ full.ready = TRUE
          /\ full.applied = manager.sent
      BY <1>5, <2>1, <2>5 DEF ManagerType
    <2> HIDE DEF ready, full
    <2>7. UsedIn(full) = Used
      BY <1>0, <2>2, <2>6 DEF UsedIn
    <2>8. GoodManager(full)
      <3>1. Fits(full) /\ OneClock(full)
        BY <1>0, <2>2, <2>6, <2>7 DEF GoodProcesses, Fits, OneClock, UsedIn
      <3>2. Announces(full)
        BY <2>2, <2>6, <2>7 DEF Announces, UsedIn
      <3> QED
        BY <2>6, <3>1, <3>2 DEF GoodManager, GoodProcesses
    <2>9. /\ commands \in Seq(CommandType) /\ NoVolume(commands)
          /\ Leads(commands, NoTable, ViewOf(full))
      BY <1>0, <2>2, <2>6, AnnouncedAll
    <2>10. ViewOf(manager) = NoTable
      BY <1>0, <1>5, <1>8, ViewTyped
    <2> HIDE DEF commands
    <2>11. ASSUME Sends(commands), manager' = full PROVE VolumeInv'
      <3>1. links' = OwnAs(TRUE, commands)
        BY <2>11 DEF Sends
      <3>2. /\ Len(links') = Len(links) /\ links'[Own].queue = links[Own].queue \o commands
            /\ links[Own].queue \in Seq(CommandType)
        BY <1>0, <1>1, <2>9, <3>1, OwnLinks
      <3>3. Own' = Own
        BY <3>2 DEF Own
      <3>4. NoVolume(links[Own].queue)'
        BY <1>2, <2>9, <3>2, <3>3, NoVolumes DEF NoVolume
      <3>5. (served /\ Own = 1)' /\ master' = manager'.applied
        BY <1>1, <1>2, <1>3, <2>6, <2>11, <3>3 DEF audiod
      <3> QED
        BY <1>4, <3>4, <3>5, ConfirmedVolume
    <2>12. Transmit(k, commands, ready, full)
      BY <1>8 DEF commands
    <2> QED
      BY <1>1, <1>4, <2>4, <2>6, <2>8, <2>9, <2>10, <2>11, <2>12, TransmitStep
  <1>9. CASE got.desired = got.applied /\ got.ready /\ Keep(k, got)
    <2>1. ASSUME manager' = got PROVE VolumeInv'
      <3>1. links' = links
        BY <1>9 DEF Keep
      <3>2. NoVolume(links[Own].queue)' /\ (served /\ Own = 1)' /\ master' = manager'.applied
        BY <1>1, <1>2, <1>3, <1>5, <2>1, <3>1 DEF audiod, Own, NoVolume
      <3> QED
        BY <1>4, <3>2, ConfirmedVolume
    <2> QED
      BY <1>1, <1>4, <1>5, <1>6, <1>9, <2>1, KeepStep
  <1> QED
    BY <1>7, <1>8, <1>9 DEF Reply, got

\* The manager's end closes with nothing sent.
LEMMA CloseStep ==
  ASSUME ControlInv, GoodManager(manager'), ~manager'.fd, ~hung',
         links' = IF HasLink THEN [links EXCEPT ![Own].open = FALSE] ELSE links,
         UNCHANGED <<replies, audiod>>
  PROVE  ControlInv'
  <1>0. LinksOK /\ QueuesRun /\ OwnRuns /\ manager \in ManagerType
    BY DEF ControlInv, GoodManager, GoodProcesses
  <1>1. <<>> \in Seq(CommandType) /\ Len(<<>>) = 0
    BY EmptySeq
  <1>2. ASSUME HasLink PROVE links' = OwnAs(FALSE, <<>>) /\ Fit(<<>>)
    <2>1. Own \in DOMAIN links /\ links[Own] \in LinkType /\ Len(links) \in Nat
      BY <1>0, <1>2, EmptySeq, LenProperties, ElementOfSeq DEF LinksOK, Own
    <2>2. links[Own].queue \in Seq(CommandType) /\ Len(links[Own].queue) <= MaxQueue
      BY <1>0, <2>1 DEF LinkType, LinksOK
    <2>3. links[Own].queue \o <<>> = links[Own].queue
      BY <2>2, ConcatEmptySeq
    <2>4. [links[Own] EXCEPT !.open = FALSE] = [open |-> FALSE, queue |-> links[Own].queue]
      BY <2>1, LinkOpenAs DEF LinkType
    <2>5. links' = [links EXCEPT ![Own] = [open |-> FALSE, queue |-> links[Own].queue]]
      BY <1>2, <2>1, <2>4
    <2>6. Len(links[Own].queue) \in Nat
      BY <2>2, LenProperties
    <2>7. Len(links[Own].queue) + Len(<<>>) = Len(links[Own].queue)
      BY <1>1, <2>6
    <2> QED
      BY <2>2, <2>3, <2>5, <2>7 DEF OwnAs, Fit
  <1>3. Cuts(<<>>)
    BY <1>2 DEF Cuts
  <1>4. \E w : Leads(<<>>, ViewOf(manager), w)
    BY <1>0, ViewTyped, LeadsNone
  <1>5. replies' \in Seq(Levels)
    BY <1>0 DEF LinksOK
  <1>6. LinksOK'
    BY <1>0, <1>1, <1>3, <1>5, LinksCut
  <1>7. QueuesRun' /\ OwnRuns'
    BY <1>0, <1>1, <1>3, <1>4, TablesCut
  <1>8. VolumeInv'
    BY DEF VolumeInv, HasLink
  <1>9. GoodManager(manager)'
    BY DEF GoodManager, GoodProcesses, Announces, Fits, OneClock, UsedIn
  <1> QED
    BY <1>6, <1>7, <1>8, <1>9 DEF ControlInv

\* The connection is lost, fails or the session manager ends.
LEMMA LoseStep ==
  ASSUME ControlInv, Lose \/ ConnectFails \/ ManagerRestart
  PROVE  ControlInv'
  <1>1. GoodManager(Lost(manager)) /\ ~Lost(manager).fd
    BY LostGood DEF ControlInv, GoodManager
  <1>2. CASE Lose
    BY <1>1, <1>2, CloseStep DEF Lose
  <1>3. CASE ConnectFails
    <2>1. ~HasLink /\ hung = FALSE
      BY <1>3 DEF ConnectFails, HasLink, ControlInv, LinksOK
    <2> QED
      BY <1>1, <1>3, <2>1, CloseStep DEF ConnectFails
  <1>4. CASE ManagerRestart
    BY <1>4, NewGood, CloseStep DEF ManagerRestart
  <1> QED
    BY <1>2, <1>3, <1>4

\* Time passes.
LEMMA TickStep ==
  ASSUME ControlInv, Tick
  PROVE  ControlInv'
  <1> DEFINE m == [manager EXCEPT !.retry = IF manager.fd THEN @ ELSE Down(@),
                                  !.left = IF manager.waiting THEN Down(@) ELSE @]
  <1>0. GoodManager(manager) /\ manager \in ManagerType
    BY DEF ControlInv, GoodManager, GoodProcesses
  <1>1. /\ \A t \in 0 .. BackoffMax : Down(t) \in 0 .. BackoffMax
        /\ \A t \in 0 .. VolumeTicks : Down(t) \in 0 .. VolumeTicks
    BY ControlAssumption DEF Down, ControlAssumption
  <1>2. /\ m \in ManagerType /\ m.entries = manager.entries /\ m.ready = manager.ready
        /\ m.fd = manager.fd /\ SameVolume(manager, m)
    BY <1>0, <1>1 DEF ManagerType, SameVolume
  <1>3. manager' = m /\ UNCHANGED <<hung, replies, links, audiod>>
    BY DEF Tick
  <1> HIDE DEF m
  <1>4. ~m.fd => ~m.ready /\ ~m.known
    BY <1>0, <1>2 DEF GoodManager, Announces, SameVolume
  <1>5. GoodManager(m) /\ ViewOf(m) = ViewOf(manager)
    BY <1>0, <1>2, <1>4, SameEntries
  <1>6. Keep(0, m) /\ replies' \in Seq(Levels)
    BY <1>3 DEF Keep, ControlInv, LinksOK
  <1>7. VolumeInv'
    BY <1>2, <1>3, KeepVolume DEF ControlInv
  <1> QED
    BY <1>2, <1>3, <1>5, <1>6, <1>7, KeepStep

\* A new connection, with VOLUME in front.
LEMMA ConnectStep ==
  ASSUME ControlInv, NEW sent \in BOOLEAN, Connect(sent)
  PROVE  ControlInv'
  <1> DEFINE queue == IF sent THEN <<VOLUME(manager.desired)>> ELSE <<>>
             new == [open |-> sent, queue |-> queue]
             up == [manager EXCEPT !.fd = TRUE]
             n == Len(links)
  <1>0. /\ GoodManager(manager) /\ manager \in ManagerType /\ Announces(manager) /\ LinksOK
        /\ GoodProcesses(manager) /\ QueuesRun
    BY DEF ControlInv, GoodManager, GoodProcesses
  <1>1. /\ ~manager.fd /\ n < MaxLinks
        /\ manager' = IF sent THEN SentVolume(up) ELSE Lost(manager)
        /\ links' = Append(links, new) /\ replies' = <<>> /\ UNCHANGED <<hung, audiod>>
    BY DEF Connect
  <1>2. manager.desired \in Levels /\ manager.ready \in BOOLEAN /\ ~manager.ready /\ ~manager.known
    BY <1>0, <1>1 DEF ManagerType, Announces
  <1>3. /\ up \in ManagerType /\ up.entries = manager.entries /\ up.ready = manager.ready
        /\ up.fd = TRUE /\ up.desired = manager.desired /\ up.known = manager.known
    BY <1>0 DEF ManagerType
  <1> HIDE DEF up
  <1>4. GoodManager(up) /\ ViewOf(up) = ViewOf(manager) /\ ViewOf(manager) = NoTable
        /\ NoTable \in TableType
    BY <1>0, <1>2, <1>3, SameEntries, ViewTyped
  <1>5. /\ GoodManager(SentVolume(up)) /\ ViewOf(SentVolume(up)) = NoTable
        /\ SentVolume(up).fd /\ SentVolume(up).sent = manager.desired /\ SentVolume(up).waiting
        /\ SentVolume(up).known = manager.known
    BY <1>3, <1>4, SentGood
  <1>6. GoodManager(Lost(manager)) /\ ~Lost(manager).fd
    BY <1>0, LostGood
  <1>7. GoodManager(manager)'
    <2>1. GoodManager(manager')
      BY <1>1, <1>5, <1>6
    <2> QED
      BY <2>1 DEF GoodManager, GoodProcesses, Announces, Fits, OneClock, UsedIn
  <1>8. hung = FALSE /\ hung' = FALSE /\ ~HasLink /\ (HasLink' <=> sent)
    BY <1>0, <1>1, <1>5, <1>6 DEF LinksOK, HasLink
  <1>9. /\ queue \in Seq(CommandType) /\ (Len(queue) = 0 \/ Len(queue) = 1)
        /\ Leads(queue, NoTable, NoTable)
    <2>1. CASE sent
      BY <1>2, <1>4, <2>1, CommandsTyped, LeadsVolume
    <2>2. CASE ~sent
      BY <1>4, <2>2, EmptySeq, LeadsNone
    <2> QED
      BY <2>1, <2>2
  <1>10. new \in LinkType /\ new.open = sent /\ new.queue = queue
    BY <1>9 DEF LinkType
  <1>11. queue = IF sent THEN <<VOLUME(manager.desired)>> ELSE <<>>
    OBVIOUS
  <1> HIDE DEF queue, new
  <1>12. /\ links \in Seq(LinkType) /\ n \in Nat /\ links' \in Seq(LinkType) /\ Len(links') = n + 1
         /\ DOMAIN links = 1 .. n /\ DOMAIN links' = 1 .. n + 1
         /\ \A i \in 1 .. n : links'[i] = links[i]
         /\ links'[n + 1] = new
    BY <1>0, <1>1, <1>10, AppendProperties, LenProperties DEF LinksOK
  <1>13. Own' = n + 1 /\ Own' \in DOMAIN links' /\ links' # <<>>
    BY <1>12, EmptySeq DEF Own
  <1>14. LinksOK'
    <2>1. \A i \in DOMAIN links' : Len(links'[i].queue) <= MaxQueue
      <3>1. MaxQueue \in Nat \ {0}
        BY ControlAssumption DEF ControlAssumption
      <3>2. Len(links'[n + 1].queue) <= MaxQueue
        <4>1. links'[n + 1].queue = queue
          BY <1>10, <1>12
        <4>2. Len(queue) <= MaxQueue
          <5>1. (Len(queue) = 0 \/ Len(queue) = 1)
            BY <1>9
          <5>2. 0 <= MaxQueue /\ 1 <= MaxQueue
            BY <3>1
          <5> QED
            BY <5>1, <5>2
        <4> QED
          BY <4>1, <4>2
      <3>3. \A i \in 1 .. n : Len(links'[i].queue) <= MaxQueue
        BY <1>0, <1>12 DEF LinksOK
      <3>4. \A i \in 1 .. n + 1 : i \in 1 .. n \/ i = n + 1
        BY <1>12
      <3> QED
        BY <1>12, <3>2, <3>3, <3>4
    <2>2. \A i \in DOMAIN links' : links'[i].open => HasLink' /\ i = Own'
      BY <1>0, <1>8, <1>10, <1>12, <1>13 DEF LinksOK
    <2>3. HasLink' => links' # <<>> /\ links'[Own'].open
      BY <1>8, <1>10, <1>12, <1>13
    <2>4. n + 1 <= MaxLinks
      BY <1>1, <1>12, ControlAssumption DEF ControlAssumption
    <2>5. replies' \in Seq(Levels)
      BY <1>1, EmptySeq
    <2> QED
      BY <1>0, <1>1, <1>8, <1>12, <1>13, <2>1, <2>2, <2>3, <2>4, <2>5 DEF LinksOK, audiod
  <1>15. \A i : StartOf(i)' = StartOf(i)
    BY <1>1 DEF StartOf, audiod
  <1>16. StartOf(n + 1) = NoTable
    <2>1. CASE n = 0
      <3>1. ~served
        BY <1>0, <1>12, <2>1, EmptySeq DEF LinksOK
      <3> QED
        BY <3>1 DEF StartOf
    <2>2. CASE n # 0
      BY <1>12, <2>2 DEF StartOf
    <2> QED
      BY <2>1, <2>2
  <1>17. QueuesRun'
    <2> SUFFICES ASSUME NEW i \in 1 .. n + 1
                 PROVE  \E u : Leads(links'[i].queue, StartOf(i), u)
      BY <1>12, <1>15 DEF QueuesRun
    <2>1. CASE i \in 1 .. n
      BY <1>0, <1>12, <2>1 DEF QueuesRun
    <2>2. CASE i = n + 1
      BY <1>9, <1>10, <1>12, <1>16, <2>2
    <2> QED
      BY <1>12, <2>1, <2>2
  <1>18. OwnRuns'
    <2> SUFFICES ASSUME sent PROVE Leads(links'[Own'].queue, StartOf(Own'), ViewOf(manager)')
      BY <1>8, <1>15 DEF OwnRuns
    <2>1. ViewOf(manager)' = NoTable
      BY <1>1, <1>5 DEF ViewOf
    <2> QED
      BY <1>9, <1>10, <1>12, <1>13, <1>16, <2>1
  <1>19. VolumeInv'
    <2> SUFFICES ASSUME sent
                 PROVE  /\ OneVolume(links'[Own'].queue, manager', replies')
                        /\ ~manager'.known /\ manager'.waiting /\ replies' = <<>>
      BY <1>8 DEF VolumeInv, ReplyAwaited
    <2>1. manager' = SentVolume(up) /\ links'[Own'].queue = <<VOLUME(manager.desired)>>
      BY <1>1, <1>10, <1>11, <1>12, <1>13
    <2>2. OneVolume(<<VOLUME(manager.desired)>>, manager', replies')
      <3> DEFINE q == <<VOLUME(manager.desired)>>
      <3>1. \A i \in DOMAIN q : i = 1 /\ q[i].level = manager.desired
        BY DEF VOLUME
      <3> HIDE DEF q
      <3>2. OneVolume(q, manager', replies')
        BY <1>1, <1>5, <2>1, <3>1 DEF OneVolume
      <3> QED
        BY <3>2 DEF q
    <2> QED
      BY <1>1, <1>2, <1>5, <2>1, <2>2
  <1> QED
    BY <1>7, <1>14, <1>17, <1>18, <1>19 DEF ControlInv

-----------------------------------------------------------------------------
(* audiod's steps. *)

\* The first link is dropped, or accepted in place of the one before: no link
\* that is left has been served.
LEMMA FreshLinks ==
  ASSUME ControlInv, UNCHANGED <<manager, replies>>, table' = NoTable, master' \in Levels,
         served' \in BOOLEAN, served' => links' # <<>>,
         \/ served /\ links' = Tail(links)
         \/ ~served /\ links' = links,
         hung' = (hung \/ (HasLink /\ links' = <<>>))
  PROVE  ControlInv'
  <1> DEFINE d == IF served THEN 1 ELSE 0
             n == Len(links)
  <1>0. LinksOK /\ QueuesRun /\ OwnRuns /\ VolumeInv /\ manager \in ManagerType /\ GoodManager(manager)
    BY DEF ControlInv, GoodManager, GoodProcesses
  <1>1. /\ links' \in Seq(LinkType) /\ Len(links') = n - d /\ n \in Nat
        /\ DOMAIN links = 1 .. n /\ DOMAIN links' = 1 .. n - d
        /\ \A i \in 1 .. n - d : i + d \in 1 .. n /\ links'[i] = links[i + d]
    <2>1. links \in Seq(LinkType) /\ n \in Nat /\ DOMAIN links = 1 .. n
      BY <1>0, LenProperties DEF LinksOK
    <2>2. CASE served
      <3>1. links # <<>> /\ links' = Tail(links) /\ d = 1
        BY <1>0, <2>2 DEF LinksOK
      <3>2. /\ Tail(links) \in Seq(LinkType) /\ Len(Tail(links)) = n - 1
            /\ DOMAIN Tail(links) = 1 .. n - 1
            /\ \A i \in 1 .. n - 1 : i + 1 \in DOMAIN links /\ Tail(links)[i] = links[i + 1]
        BY <2>1, <3>1, Taken
      <3> QED
        BY <2>1, <3>1, <3>2
    <2>3. CASE ~served
      BY <2>1, <2>3
    <2> QED
      BY <2>2, <2>3
  <1>2. d \in {0, 1} /\ (served => d = 1 /\ n # 0)
    BY <1>0, <1>1, EmptySeq DEF LinksOK
  <1>3. \A i \in 1 .. n - d : StartOf(i + d) = NoTable
    <2> TAKE i \in 1 .. n - d
    <2>2. CASE served
      <3>1. i + d # 1
        BY <1>1, <1>2, <2>2
      <3> QED
        BY <3>1 DEF StartOf
    <2>3. CASE ~served
      BY <2>3 DEF StartOf
    <2> QED
      BY <2>2, <2>3
  <1> HIDE DEF d
  <1>4. links' = <<>> <=> n = d
    BY <1>1, <1>2, EmptySeq
  <1>5. HasLink' <=> HasLink /\ n # d
    BY <1>0, <1>4 DEF HasLink, LinksOK, ManagerType
  <1>6. ASSUME HasLink' PROVE Own' = n - d /\ Own = n /\ n - d \in 1 .. n - d /\ links'[Own'] = links[Own]
    BY <1>1, <1>2, <1>5, <1>6 DEF Own
  <1>7. LinksOK'
    <2>1. \A i \in DOMAIN links' : Len(links'[i].queue) <= MaxQueue
      BY <1>0, <1>1 DEF LinksOK
    <2>2. \A i \in DOMAIN links' : links'[i].open => HasLink' /\ i = Own'
      <3> TAKE i \in DOMAIN links'
      <3> SUFFICES ASSUME links'[i].open PROVE HasLink' /\ i = Own'
        OBVIOUS
      <3>1. links[i + d].open /\ i + d \in DOMAIN links /\ i \in 1 .. n - d
        BY <1>1
      <3>2. HasLink /\ i + d = n
        BY <1>0, <3>1 DEF LinksOK, Own
      <3> QED
        BY <1>1, <1>2, <1>5, <1>6, <3>1, <3>2
    <2>3. HasLink' => links' # <<>> /\ links'[Own'].open
      BY <1>0, <1>4, <1>5, <1>6 DEF LinksOK
    <2>4. Len(links') <= MaxLinks
      <3>1. n <= MaxLinks /\ MaxLinks \in Nat
        BY <1>0, ControlAssumption DEF LinksOK, ControlAssumption
      <3> QED
        BY <1>1, <1>2, <3>1
    <2>5. hung' \in BOOLEAN /\ (hung' => manager'.fd)
      BY <1>0 DEF LinksOK, HasLink
    <2>6. NoTable \in TableType
      BY DEF NoTable, TableType, Unknown, RowType
    <2> QED
      BY <1>0, <1>1, <2>1, <2>2, <2>3, <2>4, <2>5, <2>6 DEF LinksOK
  <1>8. QueuesRun'
    <2>0. \A i : StartOf(i)' = NoTable
      BY DEF StartOf
    <2> SUFFICES ASSUME NEW i \in 1 .. n - d
                 PROVE  \E u : Leads(links'[i].queue, NoTable, u)
      BY <1>1, <2>0 DEF QueuesRun
    <2>1. i + d \in DOMAIN links /\ links'[i] = links[i + d]
      BY <1>1
    <2> QED
      BY <1>0, <1>3, <2>1 DEF QueuesRun
  <1>9. ASSUME HasLink' PROVE OwnRuns'
    <2>1. HasLink /\ Leads(links[Own].queue, StartOf(Own), ViewOf(manager))
      BY <1>0, <1>5, <1>9 DEF OwnRuns
    <2>2. StartOf(Own) = NoTable
      <3>1. (n - d) + d = n /\ n - d \in 1 .. n - d
        BY <1>1, <1>2, <1>6, <1>9
      <3> QED
        BY <1>3, <1>6, <1>9, <3>1
    <2>3. StartOf(Own)' = NoTable
      BY DEF StartOf
    <2>4. ViewOf(manager)' = ViewOf(manager)
      BY DEF ViewOf
    <2> QED
      BY <1>6, <1>9, <2>1, <2>2, <2>3, <2>4 DEF OwnRuns
  <1>10. VolumeInv'
    <2> SUFFICES ASSUME HasLink' PROVE VolumeInv'
      BY DEF VolumeInv
    <2>1. HasLink /\ ~(served /\ Own = 1)
      BY <1>1, <1>2, <1>5, <1>6
    <2>2. /\ OneVolume(links[Own].queue, manager, replies)
          /\ ~manager.known /\ manager.waiting /\ replies = <<>>
      BY <1>0, <2>1 DEF VolumeInv
    <2> QED
      BY <1>6, <2>2 DEF VolumeInv, ReplyAwaited
  <1>11. GoodManager(manager)'
    BY <1>0 DEF GoodManager, GoodProcesses, Announces, Fits, OneClock, UsedIn
  <1> QED
    BY <1>7, <1>8, <1>9, <1>10, <1>11 DEF ControlInv, OwnRuns

\* audiod accepts a link, drops the one it serves or starts again.
LEMMA ServeStep ==
  ASSUME ControlInv,
         \/ Accept
         \/ served /\ DropServed /\ UNCHANGED <<manager, replies>> /\ master' \in Levels
  PROVE  ControlInv'
  <1>0. /\ links \in Seq(LinkType) /\ hung \in BOOLEAN /\ served \in BOOLEAN /\ master \in Levels
        /\ HasLink \in BOOLEAN /\ Len(links) \in Nat /\ (served => links # <<>>)
        /\ (HasLink => links # <<>>)
    BY LenProperties DEF ControlInv, LinksOK, HasLink, GoodManager, GoodProcesses, ManagerType
  <1>1. CASE Accept
    <2>1. /\ Len(links) > (IF served THEN 1 ELSE 0) /\ table' = NoTable /\ served' = TRUE
          /\ links' = IF served THEN Tail(links) ELSE links
          /\ UNCHANGED <<manager, hung, replies, master>>
      BY <1>1 DEF Accept
    <2>2. links' # <<>>
      <3>1. CASE served
        <4>1. Len(Tail(links)) = Len(links) - 1 /\ Tail(links) \in Seq(LinkType)
          BY <1>0, <3>1, Taken
        <4>2. Len(links) > 1
          BY <2>1, <3>1
        <4>3. Len(Tail(links)) # 0
          BY <1>0, <4>1, <4>2
        <4> QED
          <5>1. Tail(links) # <<>>
            BY <4>1, <4>3, EmptySeq
          <5> QED
            BY <2>1, <3>1, <5>1
      <3>2. CASE ~served
        BY <1>0, <2>1, <3>2, EmptySeq
      <3> QED
        BY <3>1, <3>2
    <2>3. hung' = (hung \/ (HasLink /\ links' = <<>>))
      BY <1>0, <2>1, <2>2
    <2>4. (served /\ links' = Tail(links)) \/ (~served /\ links' = links)
      BY <1>0, <2>1
    <2> QED
      BY <1>0, <2>1, <2>2, <2>3, <2>4, FreshLinks
  <1>2. CASE served /\ DropServed /\ UNCHANGED <<manager, replies>> /\ master' \in Levels
    <2>1. /\ served' = FALSE /\ table' = NoTable /\ links' = Tail(links)
          /\ hung' = (hung \/ (HasLink /\ Own = 1))
      BY <1>2 DEF DropServed
    <2>2. links' = <<>> <=> Own = 1
      <3>1. Len(Tail(links)) = Len(links) - 1 /\ Tail(links) \in Seq(LinkType)
        BY <1>0, <1>2, Taken
      <3>2. Len(Tail(links)) = 0 <=> Len(links) = 1
        BY <1>0, <3>1
      <3> QED
        BY <2>1, <3>1, <3>2, EmptySeq DEF Own
    <2>3. hung' = (hung \/ (HasLink /\ links' = <<>>))
      BY <1>0, <2>1, <2>2
    <2> QED
      BY <1>2, <2>1, <2>3, FreshLinks
  <1> QED
    BY <1>1, <1>2

\* The first packet of the link that audiod serves is read.
LEMMA PacketRead ==
  ASSUME LinksOK, HasCommand
  PROVE  LET L == [links EXCEPT ![1].queue = Tail(@)]
             q == links[1].queue IN
         /\ 1 \in DOMAIN links /\ links[1] \in LinkType /\ q \in Seq(CommandType) /\ q # <<>>
         /\ Next1 \in CommandType /\ Next1 = q[1] /\ 1 \in DOMAIN q
         /\ L \in Seq(LinkType) /\ Len(L) = Len(links) /\ DOMAIN L = DOMAIN links
         /\ L[1].open = links[1].open /\ L[1].queue = Tail(q)
         /\ Len(Tail(q)) = Len(q) - 1 /\ Len(q) \in Nat
         /\ \A i \in DOMAIN links : i # 1 => L[i] = links[i]
         /\ \A i \in DOMAIN Tail(q) : i \in Nat /\ i + 1 \in DOMAIN q /\ Tail(q)[i] = q[i + 1]
  <1> DEFINE q == links[1].queue
             x == [links[1] EXCEPT !.queue = Tail(q)]
             L == [links EXCEPT ![1].queue = Tail(@)]
  <1>1. links \in Seq(LinkType) /\ links # <<>> /\ q # <<>>
    BY DEF LinksOK, HasCommand
  <1>2. 1 \in DOMAIN links /\ 1 \in 1 .. Len(links) /\ links[1] \in LinkType
    BY <1>1, Taken, LenProperties, ElementOfSeq
  <1>3. q \in Seq(CommandType)
    BY <1>2 DEF LinkType
  <1>4. /\ Head(q) \in CommandType /\ Head(q) = q[1] /\ 1 \in DOMAIN q /\ Tail(q) \in Seq(CommandType)
        /\ Len(Tail(q)) = Len(q) - 1 /\ Len(q) \in Nat
        /\ \A i \in DOMAIN Tail(q) : i \in Nat /\ i + 1 \in DOMAIN q /\ Tail(q)[i] = q[i + 1]
    BY <1>1, <1>3, Taken
  <1>5. x \in LinkType /\ x.open = links[1].open /\ x.queue = Tail(q)
    BY <1>2, <1>4 DEF LinkType
  <1>6. L = [links EXCEPT ![1] = x]
    BY <1>2
  <1> HIDE DEF x, L, q
  <1>7. L \in Seq(LinkType) /\ Len(L) = Len(links)
    BY <1>1, <1>2, <1>5, <1>6, ExceptSeq
  <1>8. DOMAIN L = DOMAIN links /\ L[1] = x /\ \A i \in DOMAIN links : i # 1 => L[i] = links[i]
    BY <1>2, <1>6
  <1>9. Next1 = Head(q)
    BY DEF Next1, q
  <1> QED
    BY <1>1, <1>2, <1>3, <1>4, <1>5, <1>7, <1>8, <1>9 DEF L, q

\* The links after that, and what their commands lead to.
LEMMA AfterRead ==
  ASSUME ControlInv, HasCommand,
         links' = [links EXCEPT ![1].queue = Tail(@)],
         UNCHANGED <<manager, hung, served>>, table' = After(table, Next1),
         replies' \in Seq(Levels), master' \in Levels
  PROVE  LinksOK' /\ QueuesRun' /\ OwnRuns' /\ GoodManager(manager)'
  <1> DEFINE q == links[1].queue
  <1>0. LinksOK /\ QueuesRun /\ OwnRuns /\ GoodManager(manager) /\ served
    BY DEF ControlInv, HasCommand
  <1>1. /\ 1 \in DOMAIN links /\ links[1] \in LinkType /\ q \in Seq(CommandType) /\ q # <<>>
        /\ Next1 \in CommandType /\ Next1 = q[1]
        /\ links' \in Seq(LinkType) /\ Len(links') = Len(links) /\ DOMAIN links' = DOMAIN links
        /\ links'[1].open = links[1].open /\ links'[1].queue = Tail(q)
        /\ Len(Tail(q)) = Len(q) - 1 /\ Len(q) \in Nat
        /\ \A i \in DOMAIN links : i # 1 => links'[i] = links[i]
    BY <1>0, PacketRead
  <1>2. Own' = Own /\ HasLink' = HasLink /\ table' \in TableType /\ Next1 = Head(q)
    BY <1>0, <1>1, AfterTyped DEF Own, HasLink, LinksOK, Next1
  <1>3. LinksOK'
    <2>1. MaxQueue \in Nat
      BY ControlAssumption DEF ControlAssumption
    <2>2. \A i \in DOMAIN links' : Len(links'[i].queue) <= MaxQueue /\ links'[i].open = links[i].open
      BY <1>0, <1>1, <2>1 DEF LinksOK
    <2>3. links' # <<>>
      BY <1>0, <1>1, EmptySeq DEF LinksOK
    <2>4. HasLink => Own \in DOMAIN links
      BY <1>0, EmptySeq, LenProperties DEF LinksOK, Own
    <2> QED
      BY <1>0, <1>1, <1>2, <2>2, <2>3, <2>4 DEF LinksOK
  <1>4. \A u : Leads(q, table, u) => Leads(Tail(q), table', u)
    BY <1>1, <1>2, LeadsOn
  <1>5. /\ \A i : i # 1 => StartOf(i)' = StartOf(i)
        /\ StartOf(1) = table /\ StartOf(1)' = table'
    BY <1>0 DEF StartOf
  <1>6. QueuesRun'
    <2> SUFFICES ASSUME NEW i \in DOMAIN links
                 PROVE  \E u : Leads(links'[i].queue, StartOf(i)', u)
      BY <1>1 DEF QueuesRun
    <2>1. CASE i = 1
      BY <1>0, <1>1, <1>4, <1>5, <2>1 DEF QueuesRun
    <2>2. CASE i # 1
      BY <1>0, <1>1, <1>5, <2>2 DEF QueuesRun
    <2> QED
      BY <2>1, <2>2
  <1>7. ASSUME HasLink PROVE Leads(links'[Own].queue, StartOf(Own)', ViewOf(manager))
    <2>1. Leads(links[Own].queue, StartOf(Own), ViewOf(manager)) /\ Own \in DOMAIN links
      BY <1>0, <1>7, EmptySeq, LenProperties DEF OwnRuns, LinksOK, Own
    <2>2. CASE Own = 1
      <3>1. StartOf(Own)' = table'
        BY <1>2, <1>5, <2>2 DEF StartOf
      <3> QED
        BY <1>1, <1>4, <1>5, <2>1, <2>2, <3>1
    <2>3. CASE Own # 1
      <3>1. StartOf(Own)' = StartOf(Own)
        BY <1>2, <2>3 DEF StartOf
      <3> QED
        BY <1>1, <2>1, <2>3, <3>1
    <2> QED
      BY <2>2, <2>3
  <1>8. OwnRuns'
    <2>1. ViewOf(manager)' = ViewOf(manager)
      BY DEF ViewOf
    <2> QED
      BY <1>2, <1>7, <2>1 DEF OwnRuns
  <1>9. GoodManager(manager)'
    BY <1>0 DEF GoodManager, GoodProcesses, Announces, Fits, OneClock, UsedIn
  <1> QED
    BY <1>3, <1>6, <1>8, <1>9

\* The first packet is accepted.
LEMMA NextAccepted ==
  ASSUME ControlInv, HasCommand
  PROVE  Accepts(table, Next1) /\ Next1 \in CommandType /\ table \in TableType
  <1>0. LinksOK /\ QueuesRun /\ served
    BY DEF ControlInv, HasCommand
  <1>1. /\ 1 \in DOMAIN links /\ links[1].queue \in Seq(CommandType) /\ links[1].queue # <<>>
        /\ Next1 \in CommandType
    BY <1>0, PacketRead
  <1>2. PICK u : Leads(links[1].queue, table, u)
    BY <1>0, <1>1 DEF QueuesRun, StartOf
  <1>3. Accepts(table, Head(links[1].queue))
    BY <1>1, <1>2, LeadsOn
  <1> QED
    BY <1>0, <1>1, <1>3 DEF Next1, LinksOK

\* An accepted command is not refused.
LEMMA AcceptedApplied ==
  ASSUME NEW c \in CommandType, c.type # "VOLUME", Accepts(table, c), table \in TableType
  PROVE  /\ c.type = "ANNOUNCE" => ~Refused(c)
         /\ Applied(c) = After(table, c)
  <1>1. Known = KnownIn(table)
    BY DEF Known, KnownIn
  <1>2. c.type = "ANNOUNCE" => ~Refused(c)
    BY <1>1, CommandCases DEF Accepts, Refused
  <1>3. c.type \in {"ANNOUNCE", "AUDIBLE", "GONE"}
    BY CommandCases
  <1>4. Applied(c) = After(table, c)
    BY <1>2, <1>3 DEF Applied, After
  <1> QED
    BY <1>2, <1>4

\* A command other than VOLUME is read.
LEMMA CommandStep ==
  ASSUME ControlInv, ReadCommand
  PROVE  ControlInv'
  <1> DEFINE q == links[1].queue
  <1>0. LinksOK /\ VolumeInv
    BY DEF ControlInv
  <1>1. /\ HasCommand /\ Next1.type # "VOLUME" /\ table' = Applied(Next1)
        /\ links' = [links EXCEPT ![1].queue = Tail(@)]
        /\ UNCHANGED <<manager, hung, replies, served, master>>
    BY DEF ReadCommand
  <1>2. table' = After(table, Next1)
    BY <1>1, NextAccepted, AcceptedApplied
  <1>3. LinksOK' /\ QueuesRun' /\ OwnRuns' /\ GoodManager(manager)'
    BY <1>0, <1>1, <1>2, AfterRead DEF LinksOK
  <1>4. /\ Len(links') = Len(links) /\ links'[1].queue = Tail(q)
        /\ \A i \in DOMAIN links : i # 1 => links'[i] = links[i]
        /\ \A i \in DOMAIN Tail(q) : i \in Nat /\ i + 1 \in DOMAIN q /\ Tail(q)[i] = q[i + 1]
    BY <1>0, <1>1, PacketRead
  <1>5. Own' = Own /\ HasLink' = HasLink
    BY <1>1, <1>4 DEF Own, HasLink
  <1>6. ASSUME HasLink PROVE OneVolume(links'[Own].queue, manager, replies)
    <2>0. OneVolume(links[Own].queue, manager, replies) /\ Own \in DOMAIN links
      BY <1>0, <1>6, EmptySeq, LenProperties DEF VolumeInv, LinksOK, Own
    <2>1. CASE Own = 1
      <3>1. OneVolume(q, manager, replies)
        BY <2>0, <2>1
      <3> HIDE DEF q
      <3> SUFFICES ASSUME NEW i \in DOMAIN Tail(q), Tail(q)[i].type = "VOLUME"
                   PROVE  /\ replies = <<>> /\ manager.waiting /\ Tail(q)[i].level = manager.sent
                          /\ \A j \in DOMAIN Tail(q) : Tail(q)[j].type = "VOLUME" => j = i
        BY <1>4, <2>1 DEF OneVolume
      <3>2. /\ i + 1 \in DOMAIN q /\ Tail(q)[i] = q[i + 1] /\ i \in Nat
        BY <1>4
      <3>3. /\ replies = <<>> /\ manager.waiting /\ q[i + 1].level = manager.sent
            /\ \A j \in DOMAIN q : q[j].type = "VOLUME" => j = i + 1
        BY <3>1, <3>2 DEF OneVolume
      <3>4. ASSUME NEW j \in DOMAIN Tail(q), Tail(q)[j].type = "VOLUME" PROVE j = i
        <4>1. j \in Nat /\ j + 1 = i + 1
          BY <1>4, <3>3, <3>4
        <4> QED
          BY <3>2, <4>1
      <3> QED
        BY <3>2, <3>3, <3>4
    <2>2. CASE Own # 1
      BY <1>4, <2>0, <2>2
    <2> QED
      BY <2>1, <2>2
  <1>7. VolumeInv'
    BY <1>0, <1>1, <1>5, <1>6 DEF VolumeInv, ReplyAwaited
  <1> QED
    BY <1>3, <1>7 DEF ControlInv

\* VOLUME is read and answered, or its reply cannot be sent.
LEMMA ReadVolumeStep ==
  ASSUME ControlInv, NEW answered \in BOOLEAN, ReadVolume(answered)
  PROVE  ControlInv'
  <1> DEFINE q == links[1].queue
  <1>0. LinksOK /\ VolumeInv
    BY DEF ControlInv
  <1>1. HasCommand /\ Next1.type = "VOLUME" /\ master' = Next1.level /\ UNCHANGED manager
    BY DEF ReadVolume
  <1>2. Next1 \in CommandType /\ Next1.level \in Levels /\ served
    BY <1>1, NextAccepted, CommandCases DEF HasCommand
  <1>3. CASE answered
    <2>1. /\ links[1].open /\ replies' = Append(replies, Next1.level)
          /\ links' = [links EXCEPT ![1].queue = Tail(@)] /\ UNCHANGED <<hung, served, table>>
      BY <1>3 DEF ReadVolume
    <2>2. /\ 1 \in DOMAIN links /\ Next1 = q[1] /\ 1 \in DOMAIN q
          /\ Len(links') = Len(links) /\ links'[1].queue = Tail(q)
          /\ \A i \in DOMAIN Tail(q) : i \in Nat /\ i + 1 \in DOMAIN q /\ Tail(q)[i] = q[i + 1]
      BY <1>0, <1>1, <2>1, PacketRead
    <2>3. HasLink /\ Own = 1
      BY <1>0, <2>1, <2>2 DEF LinksOK
    <2>4. /\ replies = <<>> /\ manager.waiting /\ Next1.level = manager.sent
          /\ \A j \in DOMAIN q : q[j].type = "VOLUME" => j = 1
      BY <1>0, <1>1, <2>2, <2>3 DEF VolumeInv, OneVolume
    <2> HIDE DEF q
    <2>5. NoVolume(Tail(q))
      <3> SUFFICES ASSUME NEW i \in DOMAIN Tail(q), Tail(q)[i].type = "VOLUME" PROVE FALSE
        BY DEF NoVolume
      <3>1. i \in Nat /\ i + 1 = 1 /\ i \in DOMAIN Tail(q)
        BY <2>2, <2>4
      <3>2. i = 0
        BY <3>1
      <3>3. q \in Seq(CommandType) /\ q # <<>>
        BY <1>0, <1>1, PacketRead DEF q
      <3>4. DOMAIN Tail(q) = 1 .. Len(q) - 1
        BY <3>3, Taken
      <3> QED
        BY <3>1, <3>2, <3>4
    <2>6. replies' = <<Next1.level>> /\ replies' \in Seq(Levels)
      BY <1>2, <2>1, <2>4
    <2>7. table' = After(table, Next1)
      BY <1>1, <2>1 DEF After
    <2>8. LinksOK' /\ QueuesRun' /\ OwnRuns' /\ GoodManager(manager)'
      BY <1>1, <1>2, <2>1, <2>6, <2>7, AfterRead
    <2>9. Own' = 1 /\ links'[Own'].queue = Tail(q) /\ served'
      BY <1>2, <2>1, <2>2, <2>3 DEF Own
    <2>10. Len(replies') = 1 /\ replies'[1] = manager'.sent /\ manager'.waiting /\ master' = manager'.sent
      BY <1>1, <2>4, <2>6
    <2>11. OneVolume(links'[Own'].queue, manager', replies')
      BY <2>5, <2>9 DEF OneVolume, NoVolume
    <2>12. VolumeInv'
      BY <2>9, <2>10, <2>11 DEF VolumeInv, ReplyAwaited
    <2> QED
      BY <2>8, <2>12 DEF ControlInv
  <1>4. CASE ~answered
    BY <1>1, <1>2, <1>4, ServeStep DEF ReadVolume
  <1> QED
    BY <1>3, <1>4

\* audiod starts again.
LEMMA RestartStep ==
  ASSUME ControlInv, Restart
  PROVE  ControlInv'
  <1>0. LinksOK /\ manager.fd \in BOOLEAN /\ GoodManager(manager)
    BY DEF ControlInv, GoodManager, GoodProcesses, ManagerType
  <1>1. /\ served' = FALSE /\ table' = NoTable /\ links' = <<>> /\ hung' = manager.fd
        /\ master' \in Levels /\ UNCHANGED <<manager, replies>>
    BY DEF Restart
  <1>2. ~HasLink' /\ links' \in Seq(LinkType) /\ Len(links') = 0 /\ DOMAIN links' = {}
    BY <1>0, <1>1, EmptySeq DEF HasLink
  <1>3. NoTable \in TableType /\ 0 <= MaxLinks
    BY ControlAssumption DEF NoTable, TableType, Unknown, RowType, ControlAssumption
  <1>4. LinksOK'
    BY <1>0, <1>1, <1>2, <1>3 DEF LinksOK
  <1>5. QueuesRun' /\ OwnRuns' /\ VolumeInv'
    BY <1>2 DEF QueuesRun, OwnRuns, VolumeInv
  <1>6. GoodManager(manager)'
    BY <1>0, <1>1 DEF GoodManager, GoodProcesses, Announces, Fits, OneClock, UsedIn
  <1> QED
    BY <1>4, <1>5, <1>6 DEF ControlInv

-----------------------------------------------------------------------------
(* The theorems. *)

\* It holds at the start,
LEMMA ControlInit ==
  ASSUME Init
  PROVE  ControlInv
  <1>1. PICK level \in Levels : manager = NewManager(level) /\ master = level
    BY DEF Init
  <1>2. /\ hung = FALSE /\ replies = <<>> /\ links = <<>> /\ served = FALSE /\ table = NoTable
    BY DEF Init
  <1>3. GoodManager(manager) /\ ~manager.fd
    BY <1>1, NewGood
  <1>4. ~HasLink /\ links \in Seq(LinkType) /\ Len(links) = 0 /\ DOMAIN links = {}
        /\ replies \in Seq(Levels)
    BY <1>2, <1>3, EmptySeq DEF HasLink
  <1>5. NoTable \in TableType /\ 0 <= MaxLinks
    BY ControlAssumption DEF NoTable, TableType, Unknown, RowType, ControlAssumption
  <1>6. LinksOK
    BY <1>1, <1>2, <1>3, <1>4, <1>5 DEF LinksOK
  <1> QED
    BY <1>3, <1>4, <1>6 DEF ControlInv, QueuesRun, OwnRuns, VolumeInv

\* and every step keeps it.
LEMMA ControlNext ==
  ASSUME ControlInv, [Next]_vars
  PROVE  ControlInv'
  <1>0. \A k \in 0 .. MaxQueue : k \in Nat
    BY ControlAssumption DEF ControlAssumption
  <1>1. ASSUME NEW k \in 0 .. MaxQueue, Calls(k) PROVE ControlInv'
    <2>1. ASSUME NEW p \in Pids, NEW clock \in BOOLEAN, Start(p, clock, k) PROVE ControlInv'
      BY <1>0, <2>1, StartStep
    <2>2. ASSUME NEW p \in Pids, Leave(p, k) PROVE ControlInv'
      BY <1>0, <2>2, LeaveStep
    <2>3. ASSUME NEW p \in Pids, NEW audible \in BOOLEAN, SetAudible(p, audible, k) PROVE ControlInv'
      BY <1>0, <2>3, AudibleStep
    <2>4. ASSUME NEW level \in Levels, SetVolume(level, k) PROVE ControlInv'
      BY <1>0, <2>4, VolumeStep
    <2> QED
      BY <1>1, <2>1, <2>2, <2>3, <2>4 DEF Calls
  <1>2. CASE Dispatch
    <2>1. CASE Connect(TRUE)
      BY <2>1, ConnectStep
    <2>2. CASE HangUp \/ VolumeTimeout
      BY <2>2, LoseStep DEF HangUp, VolumeTimeout
    <2>3. ASSUME NEW k \in 0 .. MaxQueue, Reply(k) PROVE ControlInv'
      BY <1>0, <2>3, ReplyStep
    <2> QED
      BY <1>2, <2>1, <2>2, <2>3 DEF Dispatch
  <1>3. CASE Serve
    <2>1. CASE Accept
      BY <2>1, ServeStep
    <2>2. CASE ReadCommand
      BY <2>2, CommandStep
    <2>3. CASE ReadEnd
      <3>1. master' \in Levels
        BY <2>3 DEF ReadEnd, ControlInv, LinksOK
      <3> QED
        BY <2>3, <3>1, ServeStep DEF ReadEnd
    <2>4. ASSUME NEW answered \in BOOLEAN, ReadVolume(answered) PROVE ControlInv'
      BY <2>4, ReadVolumeStep
    <2> QED
      BY <1>3, <2>1, <2>2, <2>3, <2>4 DEF Serve
  <1>4. CASE Failure
    <2>1. CASE ConnectFails \/ ManagerRestart
      BY <2>1, LoseStep
    <2>2. CASE Connect(FALSE)
      BY <2>2, ConnectStep
    <2>3. CASE Restart
      BY <2>3, RestartStep
    <2> QED
      BY <1>4, <2>1, <2>2, <2>3 DEF Failure
  <1>5. CASE Tick
    BY <1>5, TickStep
  <1>6. CASE UNCHANGED vars
    <2>1. UNCHANGED <<manager, hung, replies, links, served, table, master>>
      BY <1>6 DEF vars, audiod
    <2>2. GoodManager(manager)'
      BY <2>1 DEF ControlInv, GoodManager, GoodProcesses, Announces, Fits, OneClock, UsedIn
    <2>3. LinksOK' /\ VolumeInv'
      BY <2>1 DEF ControlInv, LinksOK, VolumeInv, ReplyAwaited, HasLink, Own
    <2>4. QueuesRun' /\ OwnRuns'
      BY <2>1 DEF ControlInv, QueuesRun, OwnRuns, StartOf, HasLink, Own, ViewOf
    <2> QED
      BY <2>2, <2>3, <2>4 DEF ControlInv
  <1> QED
    BY <1>1, <1>2, <1>3, <1>4, <1>5, <1>6 DEF Next

\* With nothing left to read on the manager's connection, audiod's table is the
\* manager's; nothing it announces is refused; without a link nothing is known.
LEMMA TablesFollow ==
  ASSUME ControlInv
  PROVE  TablesAgree
  <1>0. /\ GoodManager(manager) /\ manager \in ManagerType /\ Announces(manager) /\ LinksOK
        /\ QueuesRun /\ OwnRuns
    BY DEF ControlInv, GoodManager, GoodProcesses
  <1>1. TypeOK
    <2>1. /\ \A i \in DOMAIN replies : replies[i] \in Levels
          /\ \A i \in DOMAIN links : links[i] \in LinkType
      BY <1>0, LenProperties, ElementOfSeq DEF LinksOK
    <2>2. \A i \in DOMAIN links : links[i].open \in BOOLEAN /\ Len(links[i].queue) <= MaxQueue
      BY <1>0, <2>1 DEF LinksOK, LinkType
    <2> QED
      BY <1>0, <2>1, <2>2 DEF TypeOK, LinksOK, ManagerType, EntryType, TableType, RowType
  <1>2. Mirror
    <2> SUFFICES ASSUME OwnServed, links[1].queue = <<>>, NEW p \in Pids PROVE table[p] = View(p)
      BY DEF Mirror
    <2>1. HasLink /\ served /\ Own = 1
      BY DEF OwnServed
    <2>2. Leads(<<>>, table, ViewOf(manager))
      BY <1>0, <2>1 DEF OwnRuns, StartOf
    <2>3. table = ViewOf(manager)
      BY <1>0, <2>2, LeadsNone DEF LinksOK
    <2> QED
      BY <2>3 DEF ViewOf, View, Used
  <1>3. NeverRefused
    <2> SUFFICES ASSUME HasCommand, Next1.type = "ANNOUNCE" PROVE ~Refused(Next1)
      BY DEF NeverRefused
    <2> QED
      BY NextAccepted, AcceptedApplied
  <1>4. NoManagerNoProcess
    BY <1>0 DEF NoManagerNoProcess, LinksOK, Known, NoTable, Unknown
  <1>5. AnnouncedWhenReady
    BY <1>0 DEF AnnouncedWhenReady, Announces, Used, UsedIn, ManagerType
  <1> QED
    BY <1>1, <1>2, <1>3, <1>4, <1>5 DEF TablesAgree

\* The level that the manager calls applied is audiod's, and the reply it reads
\* is the one it waits for.
LEMMA VolumeFollows ==
  ASSUME ControlInv
  PROVE  VolumeAgrees
  <1>0. LinksOK /\ VolumeInv
    BY DEF ControlInv
  <1>1. RepliesExpected
    <2> SUFFICES ASSUME HasLink PROVE Len(replies) <= 1 /\ (replies # <<>> => Expected)
      BY DEF RepliesExpected
    <2>1. CASE replies = <<>>
      BY <2>1
    <2>2. CASE replies # <<>>
      <3>1. replies \in Seq(Levels) /\ Head(replies) = replies[1]
        BY <1>0, <2>2, Taken DEF LinksOK
      <3> QED
        <4>1. Len(replies) = 1 /\ replies[1] = manager.sent /\ manager.waiting
          BY <1>0, <2>2 DEF VolumeInv, ReplyAwaited
        <4> QED
          BY <3>1, <4>1 DEF Expected
    <2> QED
      BY <2>1, <2>2
  <1>2. VolumeApplied
    BY <1>0 DEF VolumeInv, VolumeApplied, OwnServed
  <1> QED
    BY <1>1, <1>2 DEF VolumeAgrees

\* audiod's table and the session manager's agree in every state of the
\* connection between them, whatever is lost, restarted or half sent.
THEOREM TablesCorrect == Spec => []TablesAgree
  <1>1. Init => ControlInv
    BY ControlInit
  <1>2. ControlInv /\ [Next]_vars => ControlInv'
    BY ControlNext
  <1>3. ControlInv => TablesAgree
    BY TablesFollow
  <1> QED
    BY <1>1, <1>2, <1>3, PTL DEF Spec

\* The volume the manager takes for applied is the one audiod plays at, and no
\* reply is ever taken for another's.
THEOREM VolumeCorrect == Spec => []VolumeAgrees
  <1>1. Init => ControlInv
    BY ControlInit
  <1>2. ControlInv /\ [Next]_vars => ControlInv'
    BY ControlNext
  <1>3. ControlInv => VolumeAgrees
    BY VolumeFollows
  <1> QED
    BY <1>1, <1>2, <1>3, PTL DEF Spec

=============================================================================
