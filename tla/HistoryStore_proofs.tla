------------------------ MODULE HistoryStore_proofs ------------------------
(***************************************************************************)
(* Theorems about HistoryStore, for any number of branches, lines, kills   *)
(* and power losses.                                                       *)
(***************************************************************************)
EXTENDS HistoryStore, SequenceTheorems, FiniteSetTheorems, WellFoundedInduction, TLAPS

-----------------------------------------------------------------------------
(* The inductive invariant *)

\* The number of whole events on the first n lines.
Rank(file, n) == Cardinality(EventLines(file, n))

\* No two events of the file have the same id.
Sound(file) ==
    /\ file \in Seq(Line)
    /\ \A i, j \in EventLines(file, Len(file)) :
         file[i].event.id = file[j].event.id => i = j

\* Because the number in an id counts the events up to its own.
Numbered(file) ==
    \A i \in EventLines(file, Len(file)) : file[i].event.id[2] = Rank(file, i)

\* chain() can follow an id over the first n lines, at most once over each.
Resolves(file, n, id) == \E way \in Seq(1..n) : Len(way) <= n /\ IsWay(file, way, id)

\* The ids of branch b from the number n, and a file in which the events that
\* have them have parents among them: chain() comes to no end from there.
From(b, n) == {b} \X (n..MaxLines)
Closed(file, b, n) ==
    \A i \in EventLines(file, Len(file)) :
        file[i].event.id \in From(b, n) => file[i].event.parent \in From(b, n)

LinesInv ==
    /\ Sound(lines)
    /\ Numbered(lines)
    /\ ~terminated => synced < Len(lines)

\* The heads that are kept lead over lines on the disk, and those of the disk
\* are older.
HeadsInv ==
    /\ Main \in DOMAIN diskHeads
    /\ DOMAIN diskHeads \subseteq DOMAIN heads
    /\ \A b \in DOMAIN heads : Resolves(lines, synced, kept[b])
    /\ \A b \in DOMAIN diskHeads :
         /\ Resolves(lines, synced, diskKept[b])
         /\ IsPrefix(ChainOf(lines, diskKept[b]), ChainOf(lines, kept[b]))

\* A line of the disk that holds an event of b, and holds it not whole.
Ruined(b) == \E i \in 1..synced : lines[i].reads # "event" /\ lines[i].event.branch = b

\* Nothing recorded from the number n on of branch b can be followed, and it is
\* not before the number of an event still to come.
Unfollowed(b, n) ==
    /\ n \in 1..(Rank(lines, synced) + 1)
    /\ Closed(lines, b, n)
    /\ heads[b] \in From(b, n)
    /\ b \in DOMAIN diskHeads /\ diskHeads[b] # diskKept[b] => diskHeads[b] \in From(b, n)
    /\ append # None /\ append.event.branch = b => n <= append.event.id[2]

\* A head that is not the one kept is lost, and stays so.
LostInv ==
    /\ \A b \in DOMAIN heads : heads[b] # kept[b] => Ruined(b) /\ \E n \in Nat : Unfollowed(b, n)
    /\ \A b \in DOMAIN diskHeads : diskHeads[b] # diskKept[b] => heads[b] # kept[b]

\* What an append in progress has read is still true, and what it has written
\* is the last line, which no head that is kept leads over.
AppendInv ==
    append # None =>
        /\ append.branches = heads
        /\ append.event.branch \in DOMAIN heads
        /\ append.event.parent = heads[append.event.branch]
        /\ append.event.id[1] = append.event.branch
        /\ append.stage = "write" =>
             /\ Readable
             /\ Len(lines) < MaxLines
             /\ append.event.id[2] = Rank(lines, Len(lines)) + 1
        /\ append.stage # "write" =>
             /\ Len(lines) > 0
             /\ lines[Len(lines)].event = append.event
             /\ append.event.id[2] > Rank(lines, Len(lines) - 1)
             /\ \A b \in DOMAIN heads : Resolves(lines, Len(lines) - 1, kept[b])
        /\ append.stage \in {"newline", "sync"} => synced < Len(lines)
        /\ append.stage \in {"sync", "head"} => terminated
        /\ append.stage = "head" => synced = Len(lines)

StoreInv == TypeOK /\ LinesInv /\ HeadsInv /\ LostInv /\ AppendInv

-----------------------------------------------------------------------------
(* Lines, and the way of chain() over them *)

\* Every nonempty set of naturals has a least element.
LEMMA LeastNatural ==
    ASSUME NEW T, T \subseteq Nat, T # {}
    PROVE  \E x \in T : \A y \in T : x <= y
<1> DEFINE Less == OpToRel(<, Nat)
<1>1. IsWellFoundedOn(Less, Nat)
  BY NatLessThanWellFounded
<1>2. Less = {pair \in Nat \X Nat : pair[1] < pair[2]}
  BY DEF OpToRel
<1> HIDE DEF Less
<1>3. PICK x \in T : \A y \in T : <<y, x>> \notin Less
  BY <1>1, WFMin
<1>4. \A y \in T : ~(y < x)
  BY <1>2, <1>3
<1> QED
  BY <1>4

LEMMA LineTypes ==
    ASSUME NEW file, file \in Seq(Line), NEW i \in 1..Len(file)
    PROVE  /\ file[i] \in Line
           /\ file[i].event \in Event
           /\ file[i].event.id \in EventId
           /\ file[i].event.id # None
           /\ file[i].event.parent \in EventId \cup {None}
           /\ file[i].event.id[1] \in Branches /\ file[i].event.id[2] \in 1..MaxLines
<1>1. file[i] \in Line
  BY ElementOfSeq, LenProperties
<1>2. file[i].event.id \in EventId
  BY <1>1 DEF Line, Event
<1>3. file[i].event.id[1] \in Branches /\ file[i].event.id[2] \in 1..MaxLines
  BY <1>2 DEF EventId
<1> QED
  BY <1>1, <1>2, <1>3, SpecialValues DEF Line, Event

LEMMA RankTypes ==
    ASSUME NEW file, NEW n \in Nat
    PROVE  /\ IsFiniteSet(EventLines(file, n))
           /\ Rank(file, n) \in 0..n
<1>1. IsFiniteSet(1..n) /\ Cardinality(1..n) = n
  <2>1. 0 \in Int /\ 1 \in Int /\ n \in Int
    OBVIOUS
  <2>2. IsFiniteSet(1..n) /\ Cardinality(1..n) = IF 1 > n THEN 0 ELSE n - 1 + 1
    BY <2>1, FS_Interval
  <2> QED
    BY <2>2
<1>2. EventLines(file, n) \in SUBSET (1..n)
  BY DEF EventLines
<1>3. IsFiniteSet(EventLines(file, n)) /\ Cardinality(EventLines(file, n)) <= n
  BY <1>1, <1>2, FS_Subset
<1>4. Cardinality(EventLines(file, n)) \in Nat
  BY <1>3, FS_CardinalityType
<1> QED
  BY <1>3, <1>4 DEF Rank

\* Every whole event has a rank of its own.
LEMMA RankGrows ==
    ASSUME NEW file, NEW m \in Nat, NEW n \in Nat
    PROVE  /\ m <= n => Rank(file, m) <= Rank(file, n)
           /\ m < n /\ n \in EventLines(file, n) => Rank(file, m) < Rank(file, n)
<1> DEFINE M == EventLines(file, m)
           N == EventLines(file, n)
<1>1. /\ IsFiniteSet(M) /\ IsFiniteSet(N) /\ Cardinality(M) \in Nat /\ Cardinality(N) \in Nat
  BY RankTypes, FS_CardinalityType
<1>2. ASSUME m <= n PROVE Cardinality(M) <= Cardinality(N)
  <2>1. M \in SUBSET N
    BY <1>2 DEF EventLines
  <2> QED
    BY <1>1, <2>1, FS_Subset
<1>3. ASSUME m < n, n \in EventLines(file, n) PROVE Cardinality(M) < Cardinality(N)
  <2>1. M \in SUBSET N /\ n \in N /\ n \notin M
    BY <1>3 DEF EventLines
  <2> HIDE DEF M, N
  <2>2. M # N
    BY <2>1
  <2>3. Cardinality(M) <= Cardinality(N) /\ Cardinality(M) # Cardinality(N)
    BY <1>1, <2>1, <2>2, FS_Subset, Zenon
  <2> QED
    BY <1>1, <2>3 DEF M, N
<1> QED
  BY <1>2, <1>3 DEF Rank

\* The line after the first n is an event, one more, or it is not.
LEMMA RankNext ==
    ASSUME NEW file, NEW n \in Nat
    PROVE  Rank(file, n + 1)
             = IF file[n + 1].reads = "event" THEN Rank(file, n) + 1 ELSE Rank(file, n)
<1>1. IsFiniteSet(EventLines(file, n)) /\ n + 1 \notin EventLines(file, n)
  <2>1. n + 1 \notin EventLines(file, n)
    BY DEF EventLines
  <2> QED
    BY <2>1, RankTypes
<1>2. 1..(n + 1) = (1..n) \cup {n + 1}
  OBVIOUS
<1>3. CASE file[n + 1].reads = "event"
  <2>1. EventLines(file, n + 1) = EventLines(file, n) \cup {n + 1}
    BY <1>2, <1>3 DEF EventLines
  <2> QED
    BY <1>1, <1>3, <2>1, FS_AddElement DEF Rank
<1>4. CASE file[n + 1].reads # "event"
  <2>1. EventLines(file, n + 1) = EventLines(file, n)
    BY <1>2, <1>4 DEF EventLines
  <2> QED
    BY <1>4, <2>1 DEF Rank
<1> QED
  BY <1>3, <1>4

\* The ranks of lines that stay are what they were.
LEMMA SameRank ==
    ASSUME NEW f, NEW g, NEW n \in Nat, \A i \in 1..n : g[i] = f[i], NEW m \in 0..n
    PROVE  Rank(g, m) = Rank(f, m) /\ EventLines(g, m) = EventLines(f, m)
<1>1. EventLines(g, m) = EventLines(f, m)
  BY DEF EventLines
<1> QED
  BY <1>1 DEF Rank

LEMMA NumberedIsSound ==
    ASSUME NEW file \in Seq(Line), Numbered(file)
    PROVE  Sound(file)
<1>1. ASSUME NEW i \in EventLines(file, Len(file)), NEW j \in EventLines(file, Len(file)),
             file[i].event.id = file[j].event.id
      PROVE  i = j
  <2>1. i \in Nat /\ j \in Nat /\ i \in EventLines(file, i) /\ j \in EventLines(file, j)
    BY LenProperties DEF EventLines
  <2>2. Rank(file, i) = Rank(file, j)
    BY <1>1 DEF Numbered
  <2>3. Rank(file, i) \in Nat /\ Rank(file, j) \in Nat
    BY <2>1, RankTypes
  <2>4. ~(i < j) /\ ~(j < i)
    BY <2>1, <2>2, <2>3, RankGrows
  <2> QED
    BY <2>1, <2>4
<1> QED
  BY <1>1 DEF Sound

\* by_id finds the line of an event.
LEMMA Found ==
    ASSUME NEW file, Sound(file), NEW i \in EventLines(file, Len(file))
    PROVE  LineOf(file, file[i].event.id) = i
<1> DEFINE places == {j \in EventLines(file, Len(file)) : file[j].event.id = file[i].event.id}
<1>1. places = {i}
  BY DEF Sound
<1>2. i \in Nat /\ Max({i}) = i
  <2>1. i \in Nat
    BY LenProperties DEF Sound, EventLines
  <2>2. \A x \in {i} : x = i /\ \A y \in {i} : x >= y
    BY <2>1
  <2> QED
    BY <2>1, <2>2 DEF Max
<1> QED
  BY <1>1, <1>2 DEF LineOf

\* What by_id finds is the line of the event; None is no event.
LEMMA IsFound ==
    ASSUME NEW file, Sound(file), NEW id, LineOf(file, id) # 0
    PROVE  /\ LineOf(file, id) \in EventLines(file, Len(file))
           /\ LineOf(file, id) \in 1..Len(file)
           /\ file[LineOf(file, id)].event.id = id
           /\ id # None
<1>1. PICK i \in EventLines(file, Len(file)) : file[i].event.id = id
  BY DEF LineOf
<1>2. LineOf(file, id) = i /\ i \in 1..Len(file)
  BY <1>1, Found DEF EventLines
<1> QED
  BY <1>1, <1>2, LineTypes DEF Sound

\* The last line of a way is the one its id names, and the others are named by
\* their successors.
LEMMA OnWay ==
    ASSUME NEW file, Sound(file), NEW id, NEW way \in Seq(1..Len(file)),
           IsWay(file, way, id), NEW k \in 1..Len(way)
    PROVE  /\ way[k] \in 1..Len(file) /\ way[k] \in EventLines(file, Len(file))
           /\ k = Len(way) => file[way[k]].event.id = id /\ way[k] = LineOf(file, id)
           /\ k < Len(way) => /\ file[way[k]].event.id = file[way[k + 1]].event.parent
                              /\ way[k] = LineOf(file, file[way[k + 1]].event.parent)
<1>1. way[k] \in 1..Len(file) /\ k \in Nat /\ Len(way) \in Nat
  BY ElementOfSeq, LenProperties
<1>2. way[k] # 0
  BY <1>1, LenProperties DEF Sound
<1>3. way[k] = LineOf(file, IF k = Len(way) THEN id ELSE file[way[k + 1]].event.parent)
  BY DEF IsWay
<1>4. CASE k = Len(way)
  BY <1>1, <1>2, <1>3, <1>4, IsFound
<1>5. CASE k < Len(way)
  BY <1>1, <1>2, <1>3, <1>5, IsFound
<1> QED
  BY <1>1, <1>4, <1>5

\* The way to an event is the way to its parent and the line of the event.
LEMMA WayExtends ==
    ASSUME NEW file, Sound(file), NEW i \in EventLines(file, Len(file)), NEW way \in Seq(1..Len(file)),
           IsWay(file, way, file[i].event.parent)
    PROVE  /\ Append(way, i) \in Seq(1..Len(file))
           /\ IsWay(file, Append(way, i), file[i].event.id)
<1> DEFINE longer == Append(way, i)
<1>1. /\ longer \in Seq(1..Len(file))
      /\ Len(longer) = Len(way) + 1
      /\ \A k \in 1..Len(way) : longer[k] = way[k]
      /\ longer[Len(way) + 1] = i
  <2>1. i \in 1..Len(file)
    BY DEF EventLines
  <2> QED
    BY <2>1
<1>2. Len(way) \in Nat /\ longer # <<>>
  BY <1>1, LenProperties
<1> HIDE DEF longer
<1>3. ASSUME NEW k \in 1..Len(longer)
      PROVE  longer[k] = LineOf(file, IF k = Len(longer) THEN file[i].event.id
                                      ELSE file[longer[k + 1]].event.parent)
  <2>1. CASE k = Len(longer)
    BY <1>1, <2>1, Found
  <2>2. CASE k # Len(longer)
    <3>1. k \in 1..Len(way) /\ longer[k] = way[k]
      BY <1>1, <1>2, <2>2
    <3>2. CASE k = Len(way)
      BY <1>1, <1>2, <2>2, <3>1, <3>2, OnWay
    <3>3. CASE k < Len(way)
      <4>1. k + 1 \in 1..Len(way) /\ longer[k + 1] = way[k + 1]
        <5>1. k + 1 \in 1..Len(way)
          BY <1>2, <3>1, <3>3
        <5> QED
          BY <1>1, <5>1
      <4>2. way[k] = LineOf(file, file[way[k + 1]].event.parent)
        BY <3>1, <3>3, OnWay
      <4> QED
        BY <2>2, <3>1, <4>1, <4>2
    <3> QED
      BY <1>2, <3>1, <3>2, <3>3
  <2> QED
    BY <2>1, <2>2
<1>4. file[longer[1]].event.parent = None
  <2>1. CASE way = <<>>
    <3>1. longer[1] = i
      BY <1>1, <2>1
    <3> QED
      BY <2>1, <3>1 DEF IsWay
  <2>2. CASE way # <<>>
    <3>1. 1 \in 1..Len(way)
      BY <1>2, <2>2, EmptySeq
    <3> QED
      BY <1>1, <2>2, <3>1 DEF IsWay
  <2> QED
    BY <2>1, <2>2
<1>5. file[i].event.id # None
  BY LineTypes DEF Sound, EventLines
<1> QED
  BY <1>1, <1>2, <1>3, <1>4, <1>5 DEF IsWay, longer

\* A way leads to the parent of a line on it by the lines before.
LEMMA WayBegins ==
    ASSUME NEW file, Sound(file), NEW id, NEW way \in Seq(1..Len(file)),
           IsWay(file, way, id), NEW k \in 1..Len(way)
    PROVE  /\ SubSeq(way, 1, k - 1) \in Seq(1..Len(file))
           /\ IsWay(file, SubSeq(way, 1, k - 1), file[way[k]].event.parent)
<1> DEFINE before == SubSeq(way, 1, k - 1)
<1>1. Len(way) \in Nat /\ \A i \in 1..Len(way) : way[i] \in 1..Len(file)
  BY ElementOfSeq, LenProperties
<1>2. /\ before \in Seq(1..Len(file))
      /\ Len(before) = k - 1
      /\ \A i \in 1..(k - 1) : before[i] = way[i]
  BY <1>1, SubSeqProperties
<1> HIDE DEF before
<1>3. CASE k = 1
  <2>1. before = <<>>
    BY <1>2, <1>3, EmptySeq
  <2>2. file[way[1]].event.parent = None
    BY <1>1, <1>3, EmptySeq DEF IsWay
  <2>3. IsWay(file, before, file[way[k]].event.parent)
    BY <1>3, <2>1, <2>2 DEF IsWay
  <2> QED
    BY <1>2, <2>3 DEF before
<1>4. CASE k # 1
  <2>1. k - 1 \in 1..Len(way) /\ k - 1 < Len(way) /\ (k - 1) + 1 = k
    BY <1>1, <1>4
  <2>2. way[k - 1] = LineOf(file, file[way[k]].event.parent) /\ way[k - 1] \in 1..Len(file)
    BY <2>1, OnWay
  <2>3. file[way[k]].event.parent # None
    <3>1. LineOf(file, file[way[k]].event.parent) # 0
      BY <2>2, LenProperties DEF Sound
    <3> QED
      BY <3>1, IsFound
  <2>4. before # <<>>
    BY <1>2, <2>1, EmptySeq
  <2>5. ASSUME NEW i \in 1..Len(before)
        PROVE  before[i] = LineOf(file, IF i = Len(before) THEN file[way[k]].event.parent
                                        ELSE file[before[i + 1]].event.parent)
    <3>1. CASE i = k - 1
      BY <1>2, <2>2, <3>1
    <3>2. CASE i # k - 1
      <4>1. i \in 1..Len(way) /\ i < Len(way) /\ i \in 1..(k - 1) /\ i + 1 \in 1..(k - 1)
        BY <1>1, <1>2, <3>2
      <4>2. before[i] = way[i] /\ before[i + 1] = way[i + 1]
        BY <1>2, <4>1
      <4>3. way[i] = LineOf(file, file[way[i + 1]].event.parent)
        BY <4>1, OnWay
      <4> QED
        BY <1>2, <3>2, <4>2, <4>3
    <3> QED
      BY <3>1, <3>2
  <2>6. before[1] = way[1] /\ file[way[1]].event.parent = None
    <3>1. 1 \in 1..(k - 1)
      BY <1>1, <1>4
    <3>2. way # <<>>
      BY <1>1, EmptySeq
    <3> QED
      BY <1>2, <3>1, <3>2 DEF IsWay
  <2>7. IsWay(file, before, file[way[k]].event.parent)
    BY <2>3, <2>4, <2>5, <2>6 DEF IsWay
  <2> QED
    BY <1>2, <2>7 DEF before
<1> QED
  BY <1>3, <1>4

\* Two ways to an event agree from its line backwards, as far as both go.
LEMMA WaysAgree ==
    ASSUME NEW file, Sound(file), NEW id, NEW u \in Seq(1..Len(file)), IsWay(file, u, id),
           NEW v \in Seq(1..Len(file)), IsWay(file, v, id),
           NEW n \in Nat, n < Len(u), n < Len(v)
    PROVE  u[Len(u) - n] = v[Len(v) - n]
<1> DEFINE T == {m \in Nat : m < Len(u) /\ m < Len(v) /\ u[Len(u) - m] # v[Len(v) - m]}
<1>1. SUFFICES ASSUME T # {} PROVE FALSE
  OBVIOUS
<1>2. PICK m \in T : \A k \in T : m <= k
  <2>1. T \subseteq Nat
    OBVIOUS
  <2> QED
    BY <1>1, <2>1, LeastNatural
<1>3. /\ m \in Nat /\ m < Len(u) /\ m < Len(v) /\ Len(u) \in Nat /\ Len(v) \in Nat
      /\ u[Len(u) - m] # v[Len(v) - m]
      /\ \A k \in Nat : k < m /\ k < Len(u) /\ k < Len(v) => u[Len(u) - k] = v[Len(v) - k]
  <2>1. m \in T /\ \A k \in Nat : k < m => ~(m <= k)
    OBVIOUS
  <2> QED
    BY <1>2, <2>1, LenProperties
<1> HIDE DEF T
<1>4. CASE m = 0
  <2>1. u[Len(u)] = LineOf(file, id) /\ v[Len(v)] = LineOf(file, id)
    <3>1. Len(u) \in 1..Len(u) /\ Len(v) \in 1..Len(v)
      BY <1>3, <1>4
    <3> QED
      BY <3>1, OnWay
  <2>2. Len(u) - m = Len(u) /\ Len(v) - m = Len(v)
    <3>1. Len(u) \in Nat /\ Len(v) \in Nat
      BY <1>3
    <3> QED
      BY <1>4, <3>1
  <2>3. u[Len(u) - m] # v[Len(v) - m]
    BY <1>3
  <2> QED
    BY <2>1, <2>2, <2>3
<1>5. CASE m # 0
  <2>1. m - 1 \in Nat /\ m - 1 < m /\ m - 1 < Len(u) /\ m - 1 < Len(v)
    <3>1. m \in Nat /\ m < Len(u) /\ m < Len(v) /\ Len(u) \in Nat /\ Len(v) \in Nat
      BY <1>3
    <3> QED
      BY <1>5, <3>1
  <2>2. u[Len(u) - (m - 1)] = v[Len(v) - (m - 1)]
    BY <1>3, <2>1
  <2>3. /\ Len(u) - (m - 1) = (Len(u) - m) + 1
        /\ Len(v) - (m - 1) = (Len(v) - m) + 1
        /\ Len(u) - m < Len(u) /\ Len(v) - m < Len(v)
        /\ Len(u) - m \in 1..Len(u) /\ Len(v) - m \in 1..Len(v)
    <3>1. m \in Nat /\ m < Len(u) /\ m < Len(v) /\ Len(u) \in Nat /\ Len(v) \in Nat
      BY <1>3
    <3> QED
      BY <1>5, <3>1
  <2> DEFINE a == Len(u) - m
             b == Len(v) - m
  <2>4. /\ a \in 1..Len(u) /\ a < Len(u) /\ b \in 1..Len(v) /\ b < Len(v)
        /\ u[a + 1] = v[b + 1] /\ u[a] # v[b]
    BY <1>3, <2>2, <2>3
  <2> HIDE DEF a, b
  <2>5. /\ u[a] = LineOf(file, file[u[a + 1]].event.parent)
        /\ v[b] = LineOf(file, file[v[b + 1]].event.parent)
    BY <2>4, OnWay
  <2> QED
    BY <2>4, <2>5
<1> QED
  BY <1>4, <1>5

LEMMA NoLonger ==
    ASSUME NEW file, Sound(file), NEW id, NEW u \in Seq(1..Len(file)), IsWay(file, u, id),
           NEW v \in Seq(1..Len(file)), IsWay(file, v, id)
    PROVE  Len(u) <= Len(v)
<1>1. SUFFICES ASSUME Len(v) < Len(u) PROVE FALSE
  BY LenProperties
<1>2. Len(u) \in Nat /\ Len(v) \in Nat
  BY LenProperties
<1>3. u # <<>> /\ v # <<>>
  BY <1>1, <1>2 DEF IsWay
<1>4. Len(v) > 0
  BY <1>2, <1>3, EmptySeq
<1>5. u[Len(u) - (Len(v) - 1)] = v[Len(v) - (Len(v) - 1)]
  <2>1. Len(v) - 1 \in Nat /\ Len(v) - 1 < Len(u) /\ Len(v) - 1 < Len(v)
    BY <1>1, <1>2, <1>4
  <2> QED
    BY <2>1, WaysAgree
<1>6. v[1] = u[(Len(u) - Len(v)) + 1]
  <2>1. Len(u) - (Len(v) - 1) = (Len(u) - Len(v)) + 1 /\ Len(v) - (Len(v) - 1) = 1
    BY <1>2
  <2> QED
    BY <1>5, <2>1
<1>7. Len(u) - Len(v) \in 1..Len(u) /\ Len(u) - Len(v) < Len(u)
  BY <1>1, <1>2, <1>4
<1>8. /\ u[Len(u) - Len(v)] = LineOf(file, file[v[1]].event.parent)
      /\ u[Len(u) - Len(v)] \in 1..Len(file)
  <2> DEFINE k == Len(u) - Len(v)
  <2>1. k \in 1..Len(u) /\ k < Len(u) /\ v[1] = u[k + 1]
    BY <1>6, <1>7
  <2> HIDE DEF k
  <2>2. u[k] \in 1..Len(file) /\ u[k] = LineOf(file, file[u[k + 1]].event.parent)
    BY <2>1, OnWay
  <2> QED
    BY <2>1, <2>2 DEF k
<1>9. LineOf(file, None) # 0
  BY <1>3, <1>8, LenProperties DEF IsWay, Sound
<1> QED
  BY <1>9, IsFound

\* There is one way to an event.
LEMMA WayUnique ==
    ASSUME NEW file, Sound(file), NEW id, NEW u \in Seq(1..Len(file)), IsWay(file, u, id),
           NEW v \in Seq(1..Len(file)), IsWay(file, v, id)
    PROVE  u = v
<1>1. Len(u) \in Nat /\ Len(u) = Len(v)
  <2>1. Len(u) <= Len(v) /\ Len(v) <= Len(u)
    BY NoLonger
  <2> QED
    BY <2>1, LenProperties
<1>2. ASSUME NEW k \in 1..Len(u) PROVE u[k] = v[k]
  <2>1. Len(u) - k \in Nat /\ Len(u) - k < Len(u) /\ Len(u) - (Len(u) - k) = k
    BY <1>1
  <2>2. u[Len(u) - (Len(u) - k)] = v[Len(v) - (Len(u) - k)]
    BY <1>1, <2>1, WaysAgree
  <2> QED
    BY <1>1, <2>1, <2>2
<1> QED
  BY <1>1, <1>2, SeqEqual

-----------------------------------------------------------------------------
(* The events that chain() returns *)

EventsOn(file, way) == [k \in 1..Len(way) |-> file[way[k]].event]

\* chain() returns the events of the one way.
LEMMA ChainIs ==
    ASSUME NEW file, Sound(file), NEW id, NEW way \in Seq(1..Len(file)), IsWay(file, way, id),
           Len(way) <= Len(file)
    PROVE  /\ ChainOf(file, id) = EventsOn(file, way)
           /\ ChainOf(file, id) \in Seq(Event)
           /\ ChainOf(file, id) # Broken
           /\ Len(ChainOf(file, id)) = Len(way)
<1>1. Len(way) \in Nat /\ Len(file) \in Nat /\ file \in Seq(Line)
  BY LenProperties DEF Sound
<1> DEFINE ways == {w \in BoundedSeq(1..Len(file), Len(file)) : IsWay(file, w, id)}
<1>3. \A w \in BoundedSeq(1..Len(file), Len(file)) : w \in Seq(1..Len(file))
  BY <1>1 DEF BoundedSeq, SeqOf
<1>4. way \in ways
  <2>1. way \in [1..Len(way) -> 1..Len(file)]
    BY LenProperties, ElementOfSeq
  <2> QED
    BY <1>1, <2>1 DEF BoundedSeq, SeqOf
<1>5. (CHOOSE w \in ways : TRUE) = way
  <2>1. (CHOOSE w \in ways : TRUE) \in ways
    BY <1>4
  <2> QED
    BY <1>3, <2>1, WayUnique
<1>6. ChainOf(file, id) = EventsOn(file, way)
  BY <1>4, <1>5 DEF ChainOf, EventsOn
<1>7. \A k \in 1..Len(way) : file[way[k]].event \in Event
  BY <1>1, OnWay, LineTypes
<1>8. ChainOf(file, id) \in Seq(Event) /\ Len(ChainOf(file, id)) = Len(way)
  BY <1>1, <1>6, <1>7 DEF EventsOn
<1> QED
  BY <1>6, <1>8, SpecialValues

\* A head that resolves has a way, over the lines it resolves in.
LEMMA Resolved ==
    ASSUME NEW file, Sound(file), NEW n \in 0..Len(file), NEW id, Resolves(file, n, id)
    PROVE  /\ \E way \in Seq(1..Len(file)) :
                /\ IsWay(file, way, id)
                /\ Len(way) <= n /\ Len(way) <= Len(file)
                /\ \A k \in 1..Len(way) : way[k] \in 1..n
           /\ ChainOf(file, id) \in Seq(Event)
           /\ ChainOf(file, id) # Broken
<1>1. Len(file) \in Nat
  BY LenProperties DEF Sound
<1>2. PICK way \in Seq(1..n) : Len(way) <= n /\ IsWay(file, way, id)
  BY DEF Resolves
<1> DEFINE m == Len(way)
<1>3. m \in Nat /\ \A k \in 1..m : way[k] \in 1..n /\ way[k] \in 1..Len(file)
  BY <1>1, ElementOfSeq, LenProperties
<1>4. way \in Seq(1..Len(file))
  <2> DEFINE S == 1..Len(file)
  <2>1. way \in [1..m -> S] /\ m \in Nat
    BY <1>3, LenProperties
  <2> HIDE DEF S, m
  <2>2. way \in Seq(S)
    BY <2>1
  <2> QED
    BY <2>2 DEF S
<1>5. m <= Len(file)
  BY <1>1, <1>2, <1>3
<1> QED
  BY <1>2, <1>3, <1>4, <1>5, ChainIs

\* A way over the first n lines makes its head resolve there.
LEMMA WayResolves ==
    ASSUME NEW file, NEW id, NEW n \in Nat, NEW way \in Seq(Nat), IsWay(file, way, id),
           Len(way) <= n, \A k \in 1..Len(way) : way[k] \in 1..n
    PROVE  Resolves(file, n, id)
<1> DEFINE S == 1..n
           m == Len(way)
<1>1. m \in Nat /\ way \in [1..m -> S]
  BY LenProperties
<1> HIDE DEF S, m
<1>2. way \in Seq(S)
  BY <1>1
<1> QED
  BY <1>2 DEF S, Resolves

LEMMA ResolvesInMore ==
    ASSUME NEW file, NEW id, NEW m \in Nat, NEW n \in Nat, m <= n, Resolves(file, m, id)
    PROVE  Resolves(file, n, id)
<1>1. PICK way \in Seq(1..m) : Len(way) <= m /\ IsWay(file, way, id)
  BY DEF Resolves
<1>2. Len(way) \in Nat /\ \A k \in 1..Len(way) : way[k] \in 1..n /\ way[k] \in Nat
  BY ElementOfSeq, LenProperties
<1>3. way \in Seq(Nat)
  <2> DEFINE l == Len(way)
  <2>1. l \in Nat /\ way \in [1..l -> Nat]
    BY <1>2, LenProperties
  <2> HIDE DEF l
  <2> QED
    BY <2>1
<1> QED
  BY <1>1, <1>2, <1>3, WayResolves

\* What follows the lines a head resolves in does not change its chain.
LEMMA SameChain ==
    ASSUME NEW f, Sound(f), NEW g, Sound(g), NEW n \in 0..Len(f), n <= Len(g),
           \A i \in 1..n : g[i] = f[i],
           NEW id, Resolves(f, n, id)
    PROVE  /\ ChainOf(g, id) = ChainOf(f, id)
           /\ Resolves(g, n, id)
<1>1. Len(f) \in Nat /\ Len(g) \in Nat /\ n \in 0..Len(g)
  BY LenProperties DEF Sound
<1>2. PICK way \in Seq(1..Len(f)) :
        /\ IsWay(f, way, id) /\ Len(way) <= n /\ Len(way) <= Len(f)
        /\ \A k \in 1..Len(way) : way[k] \in 1..n
  BY Resolved
<1>3. Len(way) \in Nat /\ way \in Seq(1..Len(g)) /\ way \in Seq(Nat) /\ Len(way) <= Len(g)
  <2>1. \A k \in 1..Len(way) : way[k] \in 1..Len(g)
    BY <1>1, <1>2
  <2>2. Len(way) \in Nat /\ way \in [1..Len(way) -> 1..Len(f)]
    BY LenProperties
  <2>3. way \in [1..Len(way) -> 1..Len(g)]
    BY <2>1, <2>2
  <2> DEFINE S == 1..Len(g)
             m == Len(way)
  <2>4. m \in Nat /\ way \in [1..m -> S] /\ way \in [1..m -> Nat]
    BY <1>1, <2>2, <2>3
  <2> HIDE DEF S, m
  <2>5. way \in Seq(S) /\ way \in Seq(Nat)
    BY <2>4
  <2> QED
    BY <1>1, <1>2, <2>2, <2>5 DEF S
<1>4. ASSUME NEW k \in 1..Len(way)
      PROVE  way[k] = LineOf(g, IF k = Len(way) THEN id ELSE g[way[k + 1]].event.parent)
  <2>1. way[k] \in 1..n /\ way[k] \in EventLines(f, Len(f)) /\ g[way[k]] = f[way[k]]
    BY <1>2, OnWay
  <2>2. way[k] \in EventLines(g, Len(g))
    BY <1>1, <2>1 DEF EventLines
  <2>3. LineOf(g, g[way[k]].event.id) = way[k]
    BY <2>2, Found
  <2>4. CASE k = Len(way)
    BY <1>2, <2>1, <2>3, <2>4, OnWay
  <2>5. CASE k # Len(way)
    <3>1. k < Len(way) /\ k + 1 \in 1..Len(way)
      BY <1>3, <2>5
    <3>2. g[way[k + 1]].event.parent = f[way[k + 1]].event.parent
      BY <1>2, <3>1
    <3> QED
      BY <1>2, <2>1, <2>3, <2>5, <3>1, <3>2, OnWay
  <2> QED
    BY <2>4, <2>5
<1>5. IsWay(g, way, id)
  <2>1. way = <<>> <=> id = None
    BY <1>2 DEF IsWay
  <2>2. way # <<>> => g[way[1]].event.parent = None
    <3>1. ASSUME way # <<>> PROVE way[1] \in 1..n
      BY <1>2, <1>3, <3>1, EmptySeq
    <3> QED
      BY <1>2, <3>1 DEF IsWay
  <2> QED
    BY <1>4, <2>1, <2>2 DEF IsWay
<1>6. EventsOn(g, way) = EventsOn(f, way)
  BY <1>2 DEF EventsOn
<1>7. ChainOf(g, id) = ChainOf(f, id)
  <2>1. ChainOf(f, id) = EventsOn(f, way)
    BY <1>2, ChainIs
  <2>2. ChainOf(g, id) = EventsOn(g, way)
    BY <1>3, <1>5, ChainIs
  <2> QED
    BY <1>6, <2>1, <2>2
<1>8. Resolves(g, n, id)
  BY <1>1, <1>2, <1>3, <1>5, WayResolves
<1> QED
  BY <1>7, <1>8

LEMMA ChainOfNone ==
    ASSUME NEW file, Sound(file)
    PROVE  ChainOf(file, None) = <<>> /\ \A n \in Nat : Resolves(file, n, None)
<1>1. IsWay(file, <<>>, None) /\ Len(<<>>) = 0 /\ \A S : <<>> \in Seq(S)
  BY EmptySeq DEF IsWay
<1>2. 0 <= Len(file)
  BY LenProperties DEF Sound
<1>3. ChainOf(file, None) \in Seq(Event) /\ Len(ChainOf(file, None)) = 0
  BY <1>1, <1>2, ChainIs
<1>4. \A n \in Nat : Resolves(file, n, None)
  <2> SUFFICES ASSUME NEW n \in Nat PROVE Resolves(file, n, None)
    OBVIOUS
  <2>1. Len(<<>>) <= n /\ <<>> \in Seq(1..n)
    BY <1>1
  <2> QED
    BY <1>1, <2>1, Zenon DEF Resolves
<1> QED
  BY <1>3, <1>4, EmptySeq

\* The chain of an event whose parent resolves before it is that of its parent,
\* and the event.
LEMMA ChainGrows ==
    ASSUME NEW file, Sound(file), NEW i \in EventLines(file, Len(file)),
           Resolves(file, i - 1, file[i].event.parent)
    PROVE  /\ ChainOf(file, file[i].event.parent) \in Seq(Event)
           /\ ChainOf(file, file[i].event.id)
                = Append(ChainOf(file, file[i].event.parent), file[i].event)
           /\ ChainOf(file, file[i].event.id) # Broken
           /\ Resolves(file, i, file[i].event.id)
<1>1. /\ Len(file) \in Nat /\ file \in Seq(Line) /\ i \in 1..Len(file)
      /\ i \in Nat /\ i - 1 \in 0..Len(file)
  BY LenProperties DEF Sound, EventLines
<1>3. PICK way \in Seq(1..Len(file)) :
        /\ IsWay(file, way, file[i].event.parent)
        /\ Len(way) <= i - 1 /\ Len(way) <= Len(file)
        /\ \A k \in 1..Len(way) : way[k] \in 1..(i - 1)
  BY <1>1, Resolved
<1> DEFINE longer == Append(way, i)
           chain == ChainOf(file, file[i].event.parent)
<1>4. longer \in Seq(1..Len(file)) /\ IsWay(file, longer, file[i].event.id)
  BY <1>3, WayExtends
<1>5. /\ Len(way) \in Nat
      /\ Len(longer) = Len(way) + 1
      /\ \A k \in 1..Len(way) : longer[k] = way[k]
      /\ longer[Len(way) + 1] = i
  BY <1>1, AppendProperties, LenProperties
<1> HIDE DEF longer
<1>12. Len(longer) <= i /\ Len(longer) <= Len(file)
  BY <1>1, <1>3, <1>5
<1>6. /\ chain = EventsOn(file, way)
      /\ chain \in Seq(Event) /\ Len(chain) = Len(way)
  BY <1>3, ChainIs
<1>7. /\ ChainOf(file, file[i].event.id) = EventsOn(file, longer)
      /\ ChainOf(file, file[i].event.id) \in Seq(Event)
      /\ ChainOf(file, file[i].event.id) # Broken
      /\ Len(ChainOf(file, file[i].event.id)) = Len(longer)
  BY <1>4, <1>12, ChainIs
<1>8. file[i].event \in Event
  BY <1>1, LineTypes
<1> DEFINE event == file[i].event
           new == Append(chain, event)
<1> HIDE DEF chain, event
<1>9. /\ new \in Seq(Event) /\ Len(new) = Len(way) + 1
      /\ \A k \in 1..Len(way) : new[k] = chain[k]
      /\ new[Len(way) + 1] = event
  BY <1>6, <1>8 DEF event
<1> HIDE DEF new
<1>10. ASSUME NEW k \in 1..Len(longer) PROVE ChainOf(file, file[i].event.id)[k] = new[k]
  <2>1. ChainOf(file, file[i].event.id)[k] = file[longer[k]].event
    BY <1>7 DEF EventsOn
  <2>2. CASE k \in 1..Len(way)
    BY <1>5, <1>6, <1>9, <2>1, <2>2 DEF EventsOn
  <2>3. CASE k = Len(way) + 1
    BY <1>5, <1>9, <2>1, <2>3 DEF event
  <2> QED
    BY <1>5, <2>2, <2>3
<1>11. ChainOf(file, file[i].event.id) = new
  BY <1>5, <1>7, <1>9, <1>10, SeqEqual
<1>13. Resolves(file, i, file[i].event.id)
  <2>1. \A k \in 1..Len(longer) : longer[k] \in 1..i /\ longer[k] \in Nat
    <3>1. \A k \in 1..Len(way) : longer[k] \in 1..(i - 1)
      BY <1>3, <1>5
    <3>2. \A k \in 1..Len(way) : longer[k] \in 1..i /\ longer[k] \in Nat
      BY <1>1, <3>1
    <3>3. \A k \in 1..Len(longer) : k \in 1..Len(way) \/ k = Len(way) + 1
      BY <1>5
    <3>4. i \in 1..i
      BY <1>1
    <3> QED
      BY <1>1, <1>5, <3>2, <3>3, <3>4
  <2>2. longer \in Seq(Nat)
    <3> DEFINE l == Len(longer)
    <3>1. l \in Nat /\ longer \in [1..l -> Nat]
      BY <1>4, <2>1, LenProperties
    <3> HIDE DEF l
    <3> QED
      BY <3>1
  <2> QED
    BY <1>1, <1>4, <1>12, <2>1, <2>2, WayResolves
<1> QED
  BY <1>6, <1>7, <1>11, <1>13 DEF new, chain, event

\* Before an event of a chain is the chain of its parent.
LEMMA ChainBegins ==
    ASSUME NEW file, Sound(file), NEW n \in 0..Len(file), NEW id, Resolves(file, n, id),
           NEW k \in 1..Len(ChainOf(file, id))
    PROVE  /\ ChainOf(file, ChainOf(file, id)[k].parent) = SubSeq(ChainOf(file, id), 1, k - 1)
           /\ Resolves(file, n, ChainOf(file, id)[k].parent)
<1>1. PICK way \in Seq(1..Len(file)) :
        /\ IsWay(file, way, id) /\ Len(way) <= n /\ Len(way) <= Len(file)
        /\ \A i \in 1..Len(way) : way[i] \in 1..n
  BY Resolved
<1> DEFINE chain == ChainOf(file, id)
           begin == SubSeq(way, 1, k - 1)
<1>2. /\ chain = EventsOn(file, way)
      /\ chain \in Seq(Event) /\ Len(chain) = Len(way) /\ Len(way) \in Nat
      /\ k \in 1..Len(way)
  BY <1>1, ChainIs, LenProperties
<1>3. chain[k] = file[way[k]].event /\ way[k] \in 1..n /\ way[k] \in 1..Len(file)
  BY <1>1, <1>2, OnWay DEF EventsOn
<1>4. /\ begin \in Seq(1..Len(file)) /\ IsWay(file, begin, chain[k].parent)
      /\ Len(begin) = k - 1
      /\ \A i \in 1..(k - 1) : begin[i] = way[i]
  <2>1. begin \in Seq(1..Len(file)) /\ IsWay(file, begin, chain[k].parent)
    BY <1>1, <1>2, <1>3, WayBegins
  <2>2. \A i \in 1..(k - 1) : way[i] \in 1..Len(file)
    BY <1>1, <1>2, OnWay
  <2> QED
    BY <1>2, <2>1, <2>2, SubSeqProperties
<1> HIDE DEF begin
<1>10. Len(begin) <= n /\ Len(begin) <= Len(file) /\ n \in Nat /\ Len(file) \in Nat
  BY <1>1, <1>2, <1>4, LenProperties DEF Sound
<1>5. /\ ChainOf(file, chain[k].parent) = EventsOn(file, begin)
      /\ ChainOf(file, chain[k].parent) \in Seq(Event)
      /\ Len(ChainOf(file, chain[k].parent)) = Len(begin)
  BY <1>4, <1>10, ChainIs
<1>9. Resolves(file, n, chain[k].parent)
  <2>1. \A i \in 1..Len(begin) : begin[i] \in 1..n /\ begin[i] \in Nat
    BY <1>1, <1>2, <1>4
  <2>2. begin \in Seq(Nat)
    <3> DEFINE l == Len(begin)
    <3>1. l \in Nat /\ begin \in [1..l -> Nat]
      BY <1>4, <2>1, LenProperties
    <3> HIDE DEF l
    <3> QED
      BY <3>1
  <2> QED
    BY <1>4, <1>10, <2>1, <2>2, WayResolves
<1> DEFINE part == SubSeq(chain, 1, k - 1)
<1> HIDE DEF chain
<1>6. /\ part \in Seq(Event) /\ Len(part) = k - 1
      /\ \A i \in 1..(k - 1) : part[i] = chain[i]
  BY <1>2, SubSeqProperties, ElementOfSeq
<1> HIDE DEF part
<1>7. ASSUME NEW i \in 1..(k - 1) PROVE ChainOf(file, chain[k].parent)[i] = part[i]
  <2>1. i \in 1..Len(begin) /\ i \in 1..Len(way)
    BY <1>2, <1>4
  <2>2. ChainOf(file, chain[k].parent)[i] = file[begin[i]].event /\ chain[i] = file[way[i]].event
    BY <1>2, <1>5, <2>1 DEF EventsOn
  <2> QED
    BY <1>4, <1>6, <2>2
<1>8. ChainOf(file, chain[k].parent) = part
  BY <1>4, <1>5, <1>6, <1>7, SeqEqual
<1> QED
  BY <1>8, <1>9 DEF chain, part

\* Among ids whose events have parents among them no way begins.
LEMMA NotFollowed ==
    ASSUME NEW file, Sound(file), NEW b \in Branches, NEW n \in Nat \ {0}, Closed(file, b, n),
           NEW id \in From(b, n)
    PROVE  /\ ChainOf(file, id) = Broken
           /\ \A m \in 0..Len(file) : ~Resolves(file, m, id)
<1>1. None \notin From(b, n) /\ Len(file) \in Nat
  <2>1. From(b, n) \subseteq EventId
    BY StoreConstants DEF From, EventId
  <2> QED
    BY <2>1, SpecialValues, LenProperties DEF Sound
<1>2. ASSUME NEW way \in Seq(1..Len(file)), IsWay(file, way, id) PROVE FALSE
  <2> DEFINE T == {m \in Nat : m < Len(way) /\ file[way[Len(way) - m]].event.id \notin From(b, n)}
  <2>1. Len(way) \in Nat /\ way # <<>>
    BY <1>1, <1>2, LenProperties DEF IsWay
  <2>2. Len(way) > 0
    BY <2>1, EmptySeq
  <2>3. T = {}
    <3>1. SUFFICES ASSUME T # {} PROVE FALSE
      OBVIOUS
    <3>2. T \subseteq Nat
      OBVIOUS
    <3>3. PICK m \in T : \A k \in T : m <= k
      BY <3>1, <3>2, LeastNatural
    <3> DEFINE k == Len(way) - m
    <3>4. m \in Nat /\ m < Len(way) /\ k \in 1..Len(way) /\ file[way[k]].event.id \notin From(b, n)
      BY <2>1
    <3>5. k # Len(way)
      BY <1>2, <3>4, OnWay
    <3>6. k < Len(way) /\ k + 1 \in 1..Len(way) /\ m - 1 \in Nat /\ m - 1 < Len(way)
          /\ Len(way) - (m - 1) = k + 1 /\ m - 1 < m
      BY <2>1, <3>4, <3>5
    <3>7. m - 1 \notin T
      BY <3>3, <3>4, <3>6
    <3>8. file[way[k + 1]].event.id \in From(b, n)
      BY <3>6, <3>7
    <3> HIDE DEF k, T
    <3>9. way[k + 1] \in EventLines(file, Len(file))
      BY <1>2, <3>6, OnWay
    <3>10. file[way[k + 1]].event.parent \in From(b, n)
      BY <3>8, <3>9 DEF Closed
    <3>11. file[way[k]].event.id = file[way[k + 1]].event.parent
      BY <1>2, <3>4, <3>6, OnWay
    <3> QED
      BY <3>4, <3>10, <3>11
  <2>4. Len(way) - 1 \in Nat /\ Len(way) - 1 < Len(way) /\ Len(way) - (Len(way) - 1) = 1
        /\ 1 \in 1..Len(way)
    BY <2>1, <2>2
  <2>5. file[way[1]].event.id \in From(b, n)
    <3>1. Len(way) - 1 \notin T
      BY <2>3
    <3> QED
      BY <2>4, <3>1
  <2>6. way[1] \in EventLines(file, Len(file))
    BY <1>2, <2>4, OnWay
  <2>7. file[way[1]].event.parent \in From(b, n)
    BY <2>5, <2>6 DEF Closed
  <2> QED
    BY <1>1, <1>2, <2>1, <2>7 DEF IsWay
<1>3. {way \in BoundedSeq(1..Len(file), Len(file)) : IsWay(file, way, id)} = {}
  <2>1. \A w \in BoundedSeq(1..Len(file), Len(file)) : w \in Seq(1..Len(file))
    BY <1>1 DEF BoundedSeq, SeqOf
  <2> QED
    BY <1>2, <2>1
<1>4. ChainOf(file, id) = Broken
  BY <1>3 DEF ChainOf
<1> QED
  BY <1>4, Resolved

LEMMA PrefixItself ==
    ASSUME NEW S, NEW s \in Seq(S)
    PROVE  IsPrefix(s, s)
BY LenProperties DEF IsPrefix

\* What begins a sequence begins the longer ones.
LEMMA PrefixOfLonger ==
    ASSUME NEW S, NEW s \in Seq(S), NEW t \in Seq(S), NEW e \in S, IsPrefix(s, t)
    PROVE  IsPrefix(s, Append(t, e))
<1> DEFINE u == Append(t, e)
<1>1. u \in Seq(S) /\ Len(u) = Len(t) + 1 /\ \A i \in 1..Len(t) : u[i] = t[i]
  OBVIOUS
<1> HIDE DEF u
<1>2. Len(s) \in Nat /\ Len(t) \in Nat /\ Len(s) <= Len(t)
  BY LenProperties DEF IsPrefix
<1> DEFINE n == Len(s)
<1>3. /\ SubSeq(t, 1, n) \in Seq(S) /\ Len(SubSeq(t, 1, n)) = n
      /\ \A i \in 1..n : SubSeq(t, 1, n)[i] = t[i]
  BY <1>2, SubSeqProperties, ElementOfSeq
<1>4. /\ SubSeq(u, 1, n) \in Seq(S) /\ Len(SubSeq(u, 1, n)) = n
      /\ \A i \in 1..n : SubSeq(u, 1, n)[i] = u[i]
  BY <1>1, <1>2, SubSeqProperties, ElementOfSeq
<1>5. \A i \in 1..n : u[i] = t[i]
  BY <1>1, <1>2
<1>6. SubSeq(u, 1, n) = SubSeq(t, 1, n)
  BY <1>3, <1>4, <1>5, SeqEqual
<1>7. n <= Len(u)
  BY <1>1, <1>2
<1> QED
  BY <1>6, <1>7 DEF IsPrefix, u
-----------------------------------------------------------------------------
(* How a step changes the lines *)

\* The first lines of a numbered file, and one more that is not an event or has
\* the next number, are a numbered file.
LEMMA OneMoreLine ==
    ASSUME NEW f \in Seq(Line), Numbered(f), NEW g \in Seq(Line), NEW n \in 0..Len(f),
           Len(g) \in {n, n + 1}, \A i \in 1..n : g[i] = f[i],
           Len(g) = n + 1 /\ g[n + 1].reads = "event" => g[n + 1].event.id[2] = Rank(f, n) + 1
    PROVE  Sound(g) /\ Numbered(g)
<1>1. Len(f) \in Nat /\ n \in Nat /\ n <= Len(f)
  BY LenProperties
<1>2. ASSUME NEW i \in EventLines(g, Len(g)) PROVE g[i].event.id[2] = Rank(g, i)
  <2>1. i \in 1..Len(g) /\ g[i].reads = "event"
    BY DEF EventLines
  <2>2. CASE i \in 1..n
    <3>1. i \in EventLines(f, Len(f)) /\ g[i] = f[i]
      BY <1>1, <2>1, <2>2 DEF EventLines
    <3>2. i \in 0..n
      BY <1>1, <2>2
    <3>3. Rank(g, i) = Rank(f, i)
      BY <1>1, <3>2, SameRank
    <3> QED
      BY <3>1, <3>3 DEF Numbered
  <2>3. CASE i \notin 1..n
    <3>1. i = n + 1 /\ Len(g) = n + 1
      BY <1>1, <2>1, <2>3
    <3>2. Rank(g, n + 1) = Rank(g, n) + 1
      BY <1>1, <2>1, <3>1, RankNext
    <3>3. Rank(g, n) = Rank(f, n)
      <4>1. n \in 0..n
        BY <1>1
      <4> QED
        BY <1>1, <4>1, SameRank
    <3> QED
      BY <2>1, <3>1, <3>2, <3>3
  <2> QED
    BY <2>2, <2>3
<1>3. Numbered(g)
  BY <1>2 DEF Numbered
<1> QED
  BY <1>3, NumberedIsSound

LEMMA StaysClosed ==
    ASSUME NEW f \in Seq(Line), NEW b, NEW m, Closed(f, b, m),
           NEW g \in Seq(Line), NEW n \in 0..Len(f),
           Len(g) \in {n, n + 1}, \A i \in 1..n : g[i] = f[i],
           Len(g) = n + 1 /\ g[n + 1].reads = "event" /\ g[n + 1].event.id \in From(b, m)
             => g[n + 1].event.parent \in From(b, m)
    PROVE  Closed(g, b, m)
<1>1. Len(f) \in Nat /\ n \in Nat /\ n <= Len(f)
  BY LenProperties
<1>2. ASSUME NEW i \in EventLines(g, Len(g)), g[i].event.id \in From(b, m)
      PROVE  g[i].event.parent \in From(b, m)
  <2>1. i \in 1..Len(g) /\ g[i].reads = "event"
    BY DEF EventLines
  <2>2. CASE i \in 1..n
    <3>1. i \in EventLines(f, Len(f)) /\ g[i] = f[i]
      BY <1>1, <2>1, <2>2 DEF EventLines
    <3> QED
      BY <1>2, <3>1 DEF Closed
  <2>3. CASE i \notin 1..n
    <3>1. i = n + 1 /\ Len(g) = n + 1
      BY <1>1, <2>1, <2>3
    <3> QED
      BY <1>2, <2>1, <3>1
  <2> QED
    BY <2>2, <2>3
<1> QED
  BY <1>2 DEF Closed

\* What is on the disk stays what it was: no chain that is kept changes.
LEMMA ChainsStay ==
    ASSUME Sound(lines), synced \in 0..Len(lines), Sound(lines)', synced' \in 0..Len(lines'),
           synced <= synced', \A i \in 1..synced : lines'[i] = lines[i],
           NEW id, Resolves(lines, synced, id)
    PROVE  /\ ChainOf(lines', id) = ChainOf(lines, id)
           /\ Resolves(lines', synced', id)
<1>1. Len(lines) \in Nat /\ Len(lines') \in Nat /\ synced <= Len(lines')
  BY LenProperties DEF Sound
<1>2. ChainOf(lines', id) = ChainOf(lines, id) /\ Resolves(lines', synced, id)
  BY <1>1, SameChain
<1>3. Resolves(lines', synced', id)
  BY <1>1, <1>2, ResolvesInMore
<1> QED
  BY <1>2, <1>3

LEMMA HeadsStay ==
    ASSUME HeadsInv, Sound(lines), synced \in 0..Len(lines), Sound(lines)',
           synced' \in 0..Len(lines'), synced <= synced',
           \A i \in 1..synced : lines'[i] = lines[i],
           UNCHANGED <<heads, diskHeads, kept, diskKept>>
    PROVE  HeadsInv'
<1>1. \A b \in DOMAIN heads :
        /\ ChainOf(lines', kept[b]) = ChainOf(lines, kept[b])
        /\ Resolves(lines', synced', kept[b])
  BY ChainsStay DEF HeadsInv
<1>2. \A b \in DOMAIN diskHeads :
        /\ b \in DOMAIN heads
        /\ ChainOf(lines', diskKept[b]) = ChainOf(lines, diskKept[b])
        /\ Resolves(lines', synced', diskKept[b])
  BY ChainsStay DEF HeadsInv
<1> QED
  BY <1>1, <1>2 DEF HeadsInv

\* A branch that is lost stays lost while the disk keeps its lines.
LEMMA BranchStaysLost ==
    ASSUME NEW b, NEW n \in Nat, Unfollowed(b, n), Ruined(b),
           synced \in Nat, synced' \in Nat, synced <= synced',
           \A i \in 1..synced : lines'[i] = lines[i],
           Closed(lines', b, n), heads'[b] \in From(b, n),
           b \in DOMAIN diskHeads' /\ diskHeads'[b] # diskKept'[b] => diskHeads'[b] \in From(b, n),
           append' # None /\ append'.event.branch = b => n <= append'.event.id[2]
    PROVE  Ruined(b)' /\ Unfollowed(b, n)'
<1>1. Ruined(b)'
  <2>1. PICK i \in 1..synced : lines[i].reads # "event" /\ lines[i].event.branch = b
    BY DEF Ruined
  <2>2. i \in 1..synced' /\ lines'[i] = lines[i]
    OBVIOUS
  <2> QED
    BY <2>1, <2>2 DEF Ruined
<1>2. n \in 1..(Rank(lines', synced') + 1)
  <2>1. Rank(lines', synced) = Rank(lines, synced)
    <3>1. synced \in 0..synced
      OBVIOUS
    <3> QED
      BY <3>1, SameRank
  <2>2. Rank(lines', synced) <= Rank(lines', synced')
    BY RankGrows
  <2>3. Rank(lines', synced) \in Nat /\ Rank(lines', synced') \in Nat
    BY RankTypes
  <2>4. n \in 1..(Rank(lines, synced) + 1)
    BY DEF Unfollowed
  <2> QED
    BY <2>1, <2>2, <2>3, <2>4
<1>3. Unfollowed(b, n)'
  BY <1>2 DEF Unfollowed
<1> QED
  BY <1>1, <1>3

LEMMA LostStays ==
    ASSUME LostInv, synced \in Nat, synced' \in Nat, synced <= synced',
           \A i \in 1..synced : lines'[i] = lines[i],
           \A b \in DOMAIN heads, n \in Nat : Unfollowed(b, n) => Closed(lines', b, n),
           UNCHANGED <<heads, diskHeads, kept, diskKept>>,
           append' # None => append # None /\ append'.event = append.event
    PROVE  LostInv'
<1>1. ASSUME NEW b \in DOMAIN heads', heads'[b] # kept'[b]
      PROVE  Ruined(b)' /\ \E n \in Nat : Unfollowed(b, n)'
  <2>1. b \in DOMAIN heads /\ Ruined(b)
    BY <1>1 DEF LostInv
  <2>2. PICK n \in Nat : Unfollowed(b, n)
    BY <1>1 DEF LostInv
  <2>3. /\ Closed(lines', b, n) /\ heads'[b] \in From(b, n)
        /\ b \in DOMAIN diskHeads' /\ diskHeads'[b] # diskKept'[b] => diskHeads'[b] \in From(b, n)
        /\ append' # None /\ append'.event.branch = b => n <= append'.event.id[2]
    BY <2>1, <2>2 DEF Unfollowed
  <2> QED
    BY <2>1, <2>2, <2>3, BranchStaysLost
<1>2. \A b \in DOMAIN diskHeads' : diskHeads'[b] # diskKept'[b] => heads'[b] # kept'[b]
  BY DEF LostInv
<1> QED
  BY <1>1, <1>2 DEF LostInv

\* The bytes of an event go after everything that a head which is kept leads to.
LEMMA TextAdded ==
    ASSUME StoreInv, append # None, append.stage = "write",
           NEW reads \in {"event", "error", "skipped"}, AddText(append.event, reads)
    PROVE  /\ lines' \in Seq(Line) /\ Len(lines') \in Nat /\ Len(lines') <= MaxLines
           /\ Sound(lines)' /\ Numbered(lines)'
           /\ synced < Len(lines')
           /\ lines'[Len(lines')].event = append.event
           /\ Len(lines') - 1 \in synced..Len(lines)
           /\ \A i \in 1..(Len(lines') - 1) : lines'[i] = lines[i]
           /\ \A i \in 1..synced : lines'[i] = lines[i]
           /\ append.event.id[2] > Rank(lines', Len(lines') - 1)
           /\ \A b \in DOMAIN heads, n \in Nat : Unfollowed(b, n) => Closed(lines', b, n)
<1>1. /\ lines \in Seq(Line) /\ Len(lines) \in Nat /\ Len(lines) <= MaxLines
      /\ synced \in 0..Len(lines) /\ terminated \in BOOLEAN
      /\ append.event \in Event
  BY LenProperties DEF StoreInv, TypeOK, Appends
<1>2. /\ Len(lines) < MaxLines /\ MaxLines \in Nat
      /\ append.event.id[1] = append.event.branch
      /\ append.event.id[2] = Rank(lines, Len(lines)) + 1
      /\ append.event.branch \in DOMAIN heads
      /\ append.event.parent = heads[append.event.branch]
  BY StoreConstants DEF StoreInv, AppendInv
<1>3. Numbered(lines) /\ (~terminated => synced < Len(lines))
  BY DEF StoreInv, LinesInv
<1> DEFINE n == IF terminated THEN Len(lines) ELSE Len(lines) - 1
           last == Len(lines)
           joined == IF "skipped" \in {reads, lines[last].reads} THEN "skipped" ELSE "error"
           own == [event |-> append.event, reads |-> reads]
           broken == [event |-> append.event, reads |-> joined]
<1>4. /\ own \in Line /\ own.event = append.event /\ own.reads = reads
      /\ broken \in Line /\ broken.event = append.event /\ broken.reads # "event"
  <2>1. joined \in {"error", "skipped"}
    OBVIOUS
  <2> HIDE DEF joined
  <2> QED
    BY <1>1, <2>1 DEF Line
<1>5. lines' = IF terminated THEN Append(lines, own) ELSE [lines EXCEPT ![last] = broken]
  BY DEF AddText
<1>6. /\ n \in 0..Len(lines) /\ synced <= n /\ n \in Nat
      /\ terminated => n = Len(lines)
      /\ ~terminated => Len(lines) = n + 1
  BY <1>1, <1>3
<1> HIDE DEF n, joined, own, broken, last
<1>7. /\ lines' \in Seq(Line) /\ Len(lines') = n + 1
      /\ \A i \in 1..n : lines'[i] = lines[i]
      /\ lines'[n + 1].event = append.event
      /\ lines'[n + 1].reads = "event" => n = Len(lines)
  <2>1. CASE terminated
    <3>1. lines' = Append(lines, own) /\ n = Len(lines)
      BY <1>5, <1>6, <2>1
    <3>2. /\ lines' \in Seq(Line) /\ Len(lines') = Len(lines) + 1
          /\ \A i \in 1..Len(lines) : lines'[i] = lines[i]
          /\ lines'[Len(lines) + 1] = own
      BY <1>1, <1>4, <3>1
    <3> QED
      BY <1>4, <3>1, <3>2
  <2>2. CASE ~terminated
    <3>1. lines' = [lines EXCEPT ![last] = broken] /\ last = n + 1 /\ Len(lines) = n + 1
      BY <1>5, <1>6, <2>2 DEF last
    <3>2. last \in 1..Len(lines)
      BY <1>6, <3>1
    <3>3. /\ lines' \in Seq(Line) /\ Len(lines') = Len(lines)
          /\ lines'[last] = broken
          /\ \A i \in 1..Len(lines) : i # last => lines'[i] = lines[i]
      BY <1>1, <1>4, <3>1, <3>2
    <3>4. \A i \in 1..n : i \in 1..Len(lines) /\ i # last
      BY <1>6, <3>1
    <3> QED
      BY <1>4, <3>1, <3>3, <3>4
  <2> QED
    BY <1>1, <2>1, <2>2
<1>8. Sound(lines)' /\ Numbered(lines)'
  <2>1. lines'[n + 1].reads = "event" => lines'[n + 1].event.id[2] = Rank(lines, n) + 1
    BY <1>2, <1>7
  <2>2. Sound(lines') /\ Numbered(lines')
    BY <1>1, <1>3, <1>6, <1>7, <2>1, OneMoreLine
  <2> QED
    BY <2>2
<1>9. append.event.id[2] > Rank(lines', n)
  <2>1. Rank(lines', n) = Rank(lines, n)
    <3>1. n \in 0..n
      BY <1>6
    <3> QED
      BY <1>6, <1>7, <3>1, SameRank
  <2>3. Rank(lines, n) <= Rank(lines, Len(lines))
    BY <1>1, <1>6, RankGrows
  <2>2. Rank(lines, n) \in Nat /\ Rank(lines, Len(lines)) \in Nat
    BY <1>1, <1>6, RankTypes
  <2> QED
    BY <1>2, <2>1, <2>2, <2>3
<1>10. ASSUME NEW b \in DOMAIN heads, NEW m \in Nat, Unfollowed(b, m)
       PROVE  Closed(lines', b, m)
  <2>1. Closed(lines, b, m) /\ heads[b] \in From(b, m)
    BY <1>10 DEF Unfollowed
  <2>2. ASSUME append.event.id \in From(b, m) PROVE append.event.parent \in From(b, m)
    <3>1. append.event.id[1] = b
      BY <2>2 DEF From
    <3> QED
      BY <1>2, <2>1, <3>1
  <2> QED
    BY <1>1, <1>6, <1>7, <2>1, <2>2, StaysClosed
<1>11. /\ Len(lines') - 1 = n /\ n \in synced..Len(lines)
       /\ Len(lines') <= MaxLines /\ Len(lines') \in Nat /\ synced < Len(lines')
       /\ \A i \in 1..synced : i \in 1..n
  BY <1>1, <1>2, <1>6, <1>7
<1> QED
  BY <1>7, <1>8, <1>9, <1>10, <1>11

-----------------------------------------------------------------------------
(* Every step keeps the invariant *)

LEMMA HeadTypes ==
    ASSUME NEW hs \in Heads
    PROVE  /\ DOMAIN hs \subseteq Branches
           /\ hs \in [DOMAIN hs -> EventId \cup {None}]
           /\ \A b \in DOMAIN hs : hs[b] \in EventId \cup {None}
BY DEF Heads

LEMMA InitInv == Init => StoreInv
<1> SUFFICES ASSUME Init PROVE StoreInv
  OBVIOUS
<1>1. /\ lines = <<>> /\ lines \in Seq(Line) /\ Len(lines) = 0 /\ synced = 0 /\ terminated = TRUE
      /\ append = None /\ crashes = 0 /\ MaxLines \in Nat /\ MaxCrashes \in Nat
      /\ heads = [b \in {Main} |-> None] /\ diskHeads = heads
      /\ kept = heads /\ diskKept = heads
  BY StoreConstants DEF Init
<1>2. /\ heads \in Heads /\ DOMAIN heads = {Main} /\ heads[Main] = None
      /\ heads \in [DOMAIN heads -> EventId \cup {None}]
  <2>1. heads \in [{Main} -> EventId \cup {None}] /\ {Main} \in SUBSET Branches
    BY <1>1, StoreConstants
  <2> QED
    BY <1>1, <2>1 DEF Heads
<1>3. Sound(lines) /\ Numbered(lines)
  <2>1. EventLines(lines, Len(lines)) = {}
    BY <1>1 DEF EventLines
  <2> QED
    BY <1>1, <2>1 DEF Sound, Numbered
<1>4. HeadsInv
  <2>1. ChainOf(lines, None) = <<>> /\ IsPrefix(<<>>, <<>>)
    BY <1>3, ChainOfNone DEF IsPrefix
  <2>2. Resolves(lines, synced, None)
    <3>1. synced \in Nat
      BY <1>1
    <3> QED
      BY <1>3, <3>1, ChainOfNone
  <2> QED
    BY <1>1, <1>2, <2>1, <2>2 DEF HeadsInv
<1>5. TypeOK
  BY <1>1, <1>2 DEF TypeOK
<1> QED
  BY <1>1, <1>3, <1>4, <1>5 DEF StoreInv, LinesInv, AppendInv, LostInv

LEMMA BeginAppendKeeps ==
    ASSUME StoreInv, NEW b \in DOMAIN heads, NEW body \in Bodies, BeginAppend(b, body)
    PROVE  StoreInv'
<1>1. /\ append = None /\ Readable /\ Len(lines) < MaxLines
      /\ append' = [stage |-> "write", branches |-> heads,
                    event |-> [id |-> <<b, Count(lines) + 1>>, parent |-> heads[b],
                               branch |-> b, body |-> body]]
      /\ UNCHANGED <<lines, terminated, synced, heads, diskHeads, crashes, kept, diskKept>>
  BY DEF BeginAppend
<1>2. /\ TypeOK /\ heads \in Heads /\ b \in Branches /\ heads[b] \in EventId \cup {None}
      /\ Len(lines) \in Nat /\ MaxLines \in Nat /\ synced \in Nat /\ synced <= Len(lines)
  BY HeadTypes, LenProperties, StoreConstants DEF StoreInv, TypeOK
<1>3. Count(lines) = Rank(lines, Len(lines)) /\ Count(lines) \in 0..Len(lines)
  BY <1>2, RankTypes DEF Count, Rank
<1> DEFINE event == [id |-> <<b, Count(lines) + 1>>, parent |-> heads[b], branch |-> b, body |-> body]
<1>4. event \in Event
  <2>1. <<b, Count(lines) + 1>> \in EventId
    BY <1>1, <1>2, <1>3 DEF EventId
  <2> QED
    BY <1>2, <2>1 DEF Event
<1>5. append' \in Appends /\ append' # None
  <2>1. append' \in Appends
    BY <1>1, <1>2, <1>4 DEF Appends
  <2> QED
    BY <2>1, SpecialValues
<1>6. TypeOK'
  BY <1>1, <1>2, <1>5 DEF TypeOK
<1>7. LinesInv' /\ HeadsInv'
  BY <1>1 DEF StoreInv, LinesInv, HeadsInv
<1>8. LostInv'
  <2>1. ASSUME NEW a \in DOMAIN heads', heads'[a] # kept'[a]
        PROVE  Ruined(a)' /\ \E n \in Nat : Unfollowed(a, n)'
    <3>1. a \in DOMAIN heads /\ Ruined(a)
      BY <1>1, <2>1 DEF StoreInv, LostInv
    <3>2. PICK n \in Nat : Unfollowed(a, n)
      BY <1>1, <2>1 DEF StoreInv, LostInv
    <3>3. n <= append'.event.id[2]
      <4>1. n <= Rank(lines, synced) + 1 /\ Rank(lines, synced) <= Rank(lines, Len(lines))
        BY <1>2, <3>2, RankGrows DEF Unfollowed
      <4>2. Rank(lines, synced) \in Nat /\ Rank(lines, Len(lines)) \in Nat
        BY <1>2, RankTypes
      <4>3. append'.event.id[2] = Rank(lines, Len(lines)) + 1
        BY <1>1, <1>3
      <4> QED
        BY <4>1, <4>2, <4>3
    <3>4. Unfollowed(a, n)'
      BY <1>1, <3>2, <3>3 DEF Unfollowed
    <3> QED
      BY <1>1, <3>1, <3>4 DEF Ruined
  <2>2. \A a \in DOMAIN diskHeads' : diskHeads'[a] # diskKept'[a] => heads'[a] # kept'[a]
    BY <1>1 DEF StoreInv, LostInv
  <2> QED
    BY <2>1, <2>2 DEF LostInv
<1>9. AppendInv'
  BY <1>1, <1>3 DEF AppendInv, Readable
<1> QED
  BY <1>6, <1>7, <1>8, <1>9 DEF StoreInv

\* A step that only moves an append to its next stage changes it in that.
LEMMA StageMoves ==
    ASSUME TypeOK, append # None, NEW stage \in {"write", "newline", "sync", "head"},
           append' = [append EXCEPT !.stage = stage]
    PROVE  /\ append' \in Appends /\ append' # None
           /\ append'.stage = stage /\ append'.event = append.event
           /\ append'.branches = append.branches
<1>1. append \in Appends
  BY DEF TypeOK
<1>2. append' \in Appends
  BY <1>1 DEF Appends
<1> QED
  BY <1>1, <1>2, SpecialValues DEF Appends

LEMMA WriteEventKeeps ==
    ASSUME StoreInv, WriteEvent
    PROVE  StoreInv'
<1>1. /\ append # None /\ append.stage = "write" /\ AddText(append.event, "event")
      /\ terminated' = FALSE /\ append' = [append EXCEPT !.stage = "newline"]
      /\ UNCHANGED <<synced, heads, diskHeads, crashes, kept, diskKept>>
  BY DEF WriteEvent
<1>2. /\ TypeOK /\ Sound(lines) /\ synced \in 0..Len(lines) /\ Len(lines) \in Nat
      /\ synced \in Nat
  BY LenProperties DEF StoreInv, LinesInv, TypeOK
<1>3. /\ lines' \in Seq(Line) /\ Len(lines') \in Nat /\ Len(lines') <= MaxLines
      /\ Sound(lines)' /\ Numbered(lines)'
      /\ synced < Len(lines')
      /\ lines'[Len(lines')].event = append.event
      /\ Len(lines') - 1 \in synced..Len(lines)
      /\ \A i \in 1..(Len(lines') - 1) : lines'[i] = lines[i]
      /\ \A i \in 1..synced : lines'[i] = lines[i]
      /\ append.event.id[2] > Rank(lines', Len(lines') - 1)
      /\ \A b \in DOMAIN heads, n \in Nat : Unfollowed(b, n) => Closed(lines', b, n)
  BY <1>1, TextAdded
<1>4. /\ append' \in Appends /\ append' # None /\ append'.stage = "newline"
      /\ append'.event = append.event /\ append'.branches = append.branches
  BY <1>1, <1>2, StageMoves
<1>5. TypeOK'
  <2>1. synced' \in 0..Len(lines')
    BY <1>1, <1>2, <1>3
  <2> QED
    BY <1>1, <1>2, <1>3, <1>4, <2>1 DEF TypeOK
<1>6. LinesInv'
  BY <1>1, <1>3 DEF LinesInv
<1>7. HeadsInv'
  <2>1. synced' \in 0..Len(lines') /\ synced <= synced'
    BY <1>1, <1>2, <1>5 DEF TypeOK
  <2> QED
    BY <1>1, <1>2, <1>3, <2>1, HeadsStay DEF StoreInv
<1>8. LostInv'
  <2>1. synced' \in Nat /\ synced <= synced' /\ LostInv
    BY <1>1, <1>2 DEF StoreInv
  <2> QED
    BY <1>1, <1>2, <1>3, <1>4, <2>1, LostStays
<1>9. \A b \in DOMAIN heads' : Resolves(lines', Len(lines') - 1, kept'[b])
  <2> SUFFICES ASSUME NEW b \in DOMAIN heads
               PROVE  Resolves(lines', Len(lines') - 1, kept[b])
    BY <1>1
  <2>1. Resolves(lines, synced, kept[b])
    BY DEF StoreInv, HeadsInv
  <2>2. synced <= Len(lines') /\ Len(lines') - 1 \in Nat /\ synced <= Len(lines') - 1
    BY <1>2, <1>3
  <2>3. Sound(lines')
    BY <1>3
  <2>4. Resolves(lines', synced, kept[b])
    BY <1>2, <1>3, <2>1, <2>2, <2>3, SameChain
  <2> QED
    BY <1>2, <2>2, <2>4, ResolvesInMore
<1>10. AppendInv'
  <2>1. /\ append.branches = heads /\ append.event.branch \in DOMAIN heads
        /\ append.event.parent = heads[append.event.branch]
        /\ append.event.id[1] = append.event.branch
    BY <1>1 DEF StoreInv, AppendInv
  <2>2. Len(lines') > 0 /\ synced' < Len(lines')
    BY <1>1, <1>2, <1>3
  <2> QED
    BY <1>1, <1>3, <1>4, <1>9, <2>1, <2>2 DEF AppendInv
<1> QED
  BY <1>5, <1>6, <1>7, <1>8, <1>10 DEF StoreInv

LEMMA WriteNewlineKeeps ==
    ASSUME StoreInv, WriteNewline
    PROVE  StoreInv'
<1>1. /\ append # None /\ append.stage = "newline"
      /\ terminated' = TRUE /\ append' = [append EXCEPT !.stage = "sync"]
      /\ UNCHANGED <<lines, synced, heads, diskHeads, crashes, kept, diskKept>>
  BY DEF WriteNewline
<1>2. /\ append' \in Appends /\ append' # None /\ append'.stage = "sync"
      /\ append'.event = append.event /\ append'.branches = append.branches
  BY <1>1, StageMoves DEF StoreInv
<1>3. TypeOK'
  BY <1>1, <1>2 DEF StoreInv, TypeOK
<1>4. LinesInv' /\ HeadsInv'
  BY <1>1 DEF StoreInv, LinesInv, HeadsInv
<1>5. LostInv'
  <2>1. synced \in Nat /\ synced' \in Nat /\ synced <= synced' /\ LostInv
    BY <1>1, LenProperties DEF StoreInv, TypeOK
  <2>2. \A b \in DOMAIN heads, n \in Nat : Unfollowed(b, n) => Closed(lines', b, n)
    BY <1>1 DEF Unfollowed
  <2> QED
    BY <1>1, <1>2, <2>1, <2>2, LostStays
<1>6. AppendInv'
  BY <1>1, <1>2 DEF StoreInv, AppendInv
<1> QED
  BY <1>3, <1>4, <1>5, <1>6 DEF StoreInv

LEMMA SyncEventsKeeps ==
    ASSUME StoreInv, SyncEvents
    PROVE  StoreInv'
<1>1. /\ append # None /\ append.stage = "sync"
      /\ synced' = Len(lines) /\ append' = [append EXCEPT !.stage = "head"]
      /\ UNCHANGED <<lines, terminated, heads, diskHeads, crashes, kept, diskKept>>
  BY DEF SyncEvents
<1>2. /\ append' \in Appends /\ append' # None /\ append'.stage = "head"
      /\ append'.event = append.event /\ append'.branches = append.branches
  BY <1>1, StageMoves DEF StoreInv
<1>3. Len(lines) \in Nat /\ synced \in 0..Len(lines) /\ Sound(lines)
  BY LenProperties DEF StoreInv, TypeOK, LinesInv
<1>4. TypeOK'
  BY <1>1, <1>2, <1>3 DEF StoreInv, TypeOK
<1>5. terminated
  BY <1>1 DEF StoreInv, AppendInv
<1>6. LinesInv'
  BY <1>1, <1>3, <1>5 DEF StoreInv, LinesInv
<1>7. /\ Sound(lines)' /\ synced' \in 0..Len(lines') /\ synced <= synced'
      /\ synced \in Nat /\ synced' \in Nat
      /\ \A i \in 1..synced : lines'[i] = lines[i]
  BY <1>1, <1>3
<1>8. HeadsInv'
  BY <1>1, <1>3, <1>7, HeadsStay DEF StoreInv
<1>9. LostInv'
  <2>1. \A b \in DOMAIN heads, n \in Nat : Unfollowed(b, n) => Closed(lines', b, n)
    BY <1>1 DEF Unfollowed
  <2>2. LostInv
    BY DEF StoreInv
  <2> QED
    BY <1>1, <1>2, <1>7, <2>1, <2>2, LostStays
<1>10. AppendInv'
  BY <1>1, <1>2 DEF StoreInv, AppendInv
<1> QED
  BY <1>4, <1>6, <1>8, <1>9, <1>10 DEF StoreInv

\* A head that is lost is followed no more.
LEMMA LostIsBroken ==
    ASSUME StoreInv, NEW b \in DOMAIN heads, heads[b] # kept[b]
    PROVE  ChainOf(lines, heads[b]) = Broken
<1>1. PICK n \in Nat : Unfollowed(b, n)
  BY DEF StoreInv, LostInv
<1>2. Sound(lines) /\ b \in Branches
  BY HeadTypes DEF StoreInv, LinesInv, TypeOK
<1>3. n \in Nat \ {0} /\ Closed(lines, b, n) /\ heads[b] \in From(b, n)
  BY <1>1 DEF Unfollowed
<1> QED
  BY <1>2, <1>3, NotFollowed

\* The new head leads to the new event, and by it to the chain there was; or to
\* nothing, because the event ran into another or its branch was lost before.
LEMMA HeadMoves ==
    ASSUME StoreInv, WriteHead
    PROVE  LET b == append.event.branch
               id == append.event.id
           IN  /\ b \in DOMAIN heads
               /\ heads' = [heads EXCEPT ![b] = id]
               /\ Len(lines) \in 1..Len(lines) /\ synced = Len(lines)
               /\ lines[Len(lines)].event = append.event
               /\ append.event \in Event
               /\ ChainOf(lines, id) # Broken =>
                    /\ heads[b] = kept[b]
                    /\ kept' = [kept EXCEPT ![b] = id]
                    /\ ChainOf(lines, kept[b]) \in Seq(Event)
                    /\ ChainOf(lines, id) = Append(ChainOf(lines, kept[b]), append.event)
                    /\ Resolves(lines, synced, id)
               /\ ChainOf(lines, id) = Broken =>
                    /\ kept' = kept
                    /\ kept[b] # id
                    /\ Ruined(b)
                    /\ \E n \in 1..(Rank(lines, synced) + 1) :
                         /\ Closed(lines, b, n) /\ id \in From(b, n)
                         /\ b \in DOMAIN diskHeads /\ diskHeads[b] # diskKept[b]
                              => diskHeads[b] \in From(b, n)
<1> DEFINE b == append.event.branch
           id == append.event.id
           last == Len(lines)
<1>1. /\ append # None /\ append.stage = "head"
      /\ heads' = [append.branches EXCEPT ![b] = id]
      /\ kept' = IF ChainOf(lines, id) = Broken THEN kept ELSE [kept EXCEPT ![b] = id]
  BY DEF WriteHead, KeepHead
<1>2. /\ append.branches = heads /\ b \in DOMAIN heads
      /\ append.event.parent = heads[b]
      /\ id[1] = b
      /\ Len(lines) > 0 /\ lines[Len(lines)].event = append.event
      /\ id[2] > Rank(lines, Len(lines) - 1)
      /\ Resolves(lines, Len(lines) - 1, kept[b])
      /\ synced = Len(lines)
  BY <1>1 DEF StoreInv, AppendInv
<1>3. /\ last \in 1..last /\ last \in Nat /\ last - 1 \in Nat /\ last - 1 \in 0..last
      /\ Sound(lines) /\ Numbered(lines) /\ lines \in Seq(Line)
  BY <1>2, LenProperties DEF StoreInv, LinesInv, TypeOK
<1>4. append.event \in Event /\ id \in EventId /\ b \in Branches
  BY <1>1 DEF StoreInv, TypeOK, Appends, Event
<1>5. /\ id = <<b, id[2]>> /\ id[2] \in 1..MaxLines /\ MaxLines \in Nat
  BY <1>2, <1>4, StoreConstants DEF EventId
<1>6. ASSUME NEW n \in Nat, n <= id[2] PROVE id \in From(b, n)
  <2>1. id[2] \in n..MaxLines
    BY <1>5, <1>6
  <2> QED
    BY <1>5, <2>1 DEF From
<1>7. ASSUME heads[b] # kept[b]
      PROVE  /\ ChainOf(lines, id) = Broken
             /\ Ruined(b)
             /\ \E n \in 1..(Rank(lines, synced) + 1) :
                  /\ Closed(lines, b, n) /\ id \in From(b, n)
                  /\ b \in DOMAIN diskHeads /\ diskHeads[b] # diskKept[b]
                       => diskHeads[b] \in From(b, n)
  <2>1. PICK n \in Nat : Unfollowed(b, n)
    BY <1>2, <1>7 DEF StoreInv, LostInv
  <2>2. /\ n \in 1..(Rank(lines, synced) + 1) /\ n \in Nat \ {0}
        /\ Closed(lines, b, n)
        /\ b \in DOMAIN diskHeads /\ diskHeads[b] # diskKept[b] => diskHeads[b] \in From(b, n)
        /\ n <= id[2]
    BY <1>1, <2>1 DEF Unfollowed
  <2>3. id \in From(b, n)
    BY <1>6, <2>2
  <2>4. ChainOf(lines, id) = Broken
    BY <1>3, <1>4, <2>2, <2>3, NotFollowed
  <2>5. Ruined(b)
    BY <1>2, <1>7 DEF StoreInv, LostInv
  <2> QED
    BY <2>2, <2>3, <2>4, <2>5
<1>8. ASSUME heads[b] = kept[b], lines[last].reads = "event"
      PROVE  /\ ChainOf(lines, kept[b]) \in Seq(Event)
             /\ ChainOf(lines, id) = Append(ChainOf(lines, kept[b]), append.event)
             /\ Resolves(lines, synced, id)
             /\ ChainOf(lines, id) # Broken
  <2>1. last \in EventLines(lines, Len(lines))
    BY <1>3, <1>8 DEF EventLines
  <2>2. lines[last].event.id = id /\ lines[last].event.parent = kept[b]
    BY <1>2, <1>8
  <2> QED
    BY <1>2, <1>3, <2>1, <2>2, ChainGrows
<1>9. ASSUME heads[b] = kept[b], lines[last].reads # "event"
      PROVE  /\ ChainOf(lines, id) = Broken
             /\ Ruined(b)
             /\ \E n \in 1..(Rank(lines, synced) + 1) :
                  /\ Closed(lines, b, n) /\ id \in From(b, n)
                  /\ b \in DOMAIN diskHeads /\ diskHeads[b] # diskKept[b]
                       => diskHeads[b] \in From(b, n)
  <2> DEFINE n == Rank(lines, last) + 1
  <2>1. Ruined(b)
    BY <1>2, <1>3, <1>9 DEF Ruined
  <2>2. Rank(lines, last) = Rank(lines, last - 1) /\ Rank(lines, last) \in Nat
    <3>1. (last - 1) + 1 = last
      BY <1>3
    <3>2. Rank(lines, (last - 1) + 1) = Rank(lines, last - 1)
      BY <1>3, <1>9, <3>1, RankNext
    <3> QED
      BY <1>3, <3>1, <3>2, RankTypes
  <2>3. id \in From(b, n)
    <3>1. n \in Nat /\ n <= id[2]
      BY <1>2, <1>5, <2>2
    <3> QED
      BY <1>6, <3>1
  <2>4. Closed(lines, b, n)
    <3>1. ASSUME NEW i \in EventLines(lines, Len(lines)) PROVE lines[i].event.id \notin From(b, n)
      <4>1. i \in Nat /\ i <= last
        BY <1>3, <3>1 DEF EventLines
      <4>2. Rank(lines, i) <= Rank(lines, last) /\ Rank(lines, i) \in Nat
        BY <1>3, <4>1, RankGrows, RankTypes
      <4>3. lines[i].event.id[2] = Rank(lines, i)
        BY <1>3, <3>1 DEF Numbered
      <4>4. lines[i].event.id[2] \notin n..MaxLines
        BY <2>2, <4>2, <4>3
      <4> QED
        BY <4>4 DEF From
    <3> QED
      BY <3>1 DEF Closed
  <2>5. ChainOf(lines, id) = Broken
    <3>1. n \in Nat \ {0}
      BY <2>2
    <3> QED
      BY <1>3, <1>4, <2>3, <2>4, <3>1, NotFollowed
  <2>6. ~(b \in DOMAIN diskHeads /\ diskHeads[b] # diskKept[b])
    BY <1>9 DEF StoreInv, LostInv
  <2>7. n \in 1..(Rank(lines, synced) + 1)
    BY <1>2, <2>2
  <2> QED
    BY <2>1, <2>3, <2>4, <2>5, <2>6, <2>7
<1>10. ChainOf(lines, kept[b]) # Broken
  BY <1>2, <1>3, Resolved
<1>11. ASSUME ChainOf(lines, id) # Broken
       PROVE  /\ heads[b] = kept[b]
              /\ kept' = [kept EXCEPT ![b] = id]
              /\ ChainOf(lines, kept[b]) \in Seq(Event)
              /\ ChainOf(lines, id) = Append(ChainOf(lines, kept[b]), append.event)
              /\ Resolves(lines, synced, id)
  <2>1. heads[b] = kept[b] /\ lines[last].reads = "event"
    BY <1>7, <1>9, <1>11
  <2> QED
    BY <1>1, <1>8, <1>11, <2>1
<1>12. ASSUME ChainOf(lines, id) = Broken
       PROVE  /\ kept' = kept
              /\ kept[b] # id
              /\ Ruined(b)
              /\ \E n \in 1..(Rank(lines, synced) + 1) :
                   /\ Closed(lines, b, n) /\ id \in From(b, n)
                   /\ b \in DOMAIN diskHeads /\ diskHeads[b] # diskKept[b]
                        => diskHeads[b] \in From(b, n)
  <2>1. heads[b] # kept[b] \/ lines[last].reads # "event"
    BY <1>8, <1>12
  <2>2. kept' = kept /\ kept[b] # id
    BY <1>1, <1>10, <1>12
  <2> QED
    BY <1>7, <1>9, <2>1, <2>2
<1> QED
  BY <1>1, <1>2, <1>3, <1>4, <1>11, <1>12

LEMMA WriteHeadKeeps ==
    ASSUME StoreInv, WriteHead
    PROVE  StoreInv'
<1> DEFINE b == append.event.branch
           id == append.event.id
           followed == ChainOf(lines, id) # Broken
<1>1. /\ append' = None
      /\ UNCHANGED <<lines, terminated, synced, diskHeads, crashes, diskKept>>
  BY DEF WriteHead
<1>2. /\ b \in DOMAIN heads /\ heads' = [heads EXCEPT ![b] = id]
      /\ append.event \in Event /\ id \in EventId
      /\ followed =>
           /\ heads[b] = kept[b]
           /\ kept' = [kept EXCEPT ![b] = id]
           /\ ChainOf(lines, kept[b]) \in Seq(Event)
           /\ ChainOf(lines, id) = Append(ChainOf(lines, kept[b]), append.event)
           /\ Resolves(lines, synced, id)
      /\ ~followed =>
           /\ kept' = kept
           /\ kept[b] # id
           /\ Ruined(b)
           /\ \E n \in 1..(Rank(lines, synced) + 1) :
                /\ Closed(lines, b, n) /\ id \in From(b, n)
                /\ b \in DOMAIN diskHeads /\ diskHeads[b] # diskKept[b]
                     => diskHeads[b] \in From(b, n)
  BY HeadMoves DEF Event
<1>3. /\ TypeOK /\ DOMAIN kept = DOMAIN heads /\ Sound(lines) /\ synced \in 0..Len(lines)
      /\ synced \in Nat
  BY LenProperties DEF StoreInv, TypeOK, LinesInv
<1> HIDE DEF b, id, followed
<1>4. /\ heads' \in Heads /\ DOMAIN heads' = DOMAIN heads
      /\ kept' \in [DOMAIN heads' -> EventId \cup {None}]
  <2>1. heads \in [DOMAIN heads -> EventId \cup {None}] /\ DOMAIN heads \in SUBSET Branches
    BY HeadTypes DEF StoreInv, TypeOK
  <2>2. heads' \in [DOMAIN heads -> EventId \cup {None}]
    BY <1>2, <2>1
  <2>3. kept \in [DOMAIN heads -> EventId \cup {None}]
    BY <1>3 DEF TypeOK
  <2>4. kept' \in [DOMAIN heads -> EventId \cup {None}]
    BY <1>2, <2>3
  <2> QED
    BY <1>2, <2>1, <2>2, <2>4 DEF Heads
<1>5. TypeOK'
  BY <1>1, <1>3, <1>4 DEF TypeOK
<1>6. LinesInv'
  BY <1>1 DEF StoreInv, LinesInv
<1>7. \A a \in DOMAIN heads : /\ heads'[a] = IF a = b THEN id ELSE heads[a]
                              /\ kept'[a] = IF a = b /\ followed THEN id ELSE kept[a]
  BY <1>2, <1>3
<1>8. HeadsInv'
  <2>1. \A a \in DOMAIN heads' : Resolves(lines', synced', kept'[a])
    BY <1>1, <1>2, <1>4, <1>7 DEF StoreInv, HeadsInv
  <2>2. ASSUME NEW a \in DOMAIN diskHeads
        PROVE  /\ Resolves(lines', synced', diskKept'[a])
               /\ IsPrefix(ChainOf(lines', diskKept'[a]), ChainOf(lines', kept'[a]))
    <3>1. /\ Resolves(lines, synced, diskKept[a]) /\ a \in DOMAIN heads
          /\ IsPrefix(ChainOf(lines, diskKept[a]), ChainOf(lines, kept[a]))
      BY DEF StoreInv, HeadsInv
    <3>2. ChainOf(lines, diskKept[a]) \in Seq(Event)
      BY <1>3, <3>1, Resolved
    <3>3. IsPrefix(ChainOf(lines, diskKept[a]), ChainOf(lines, kept'[a]))
      <4>1. CASE a = b /\ followed
        <5>1. IsPrefix(ChainOf(lines, diskKept[a]),
                       Append(ChainOf(lines, kept[b]), append.event))
          BY <1>2, <3>1, <3>2, <4>1, PrefixOfLonger
        <5> QED
          BY <1>2, <1>7, <3>1, <4>1, <5>1
      <4>2. CASE ~(a = b /\ followed)
        BY <1>7, <3>1, <4>2
      <4> QED
        BY <4>1, <4>2
    <3> QED
      BY <1>1, <3>1, <3>3
  <2> QED
    BY <1>1, <1>4, <2>1, <2>2 DEF StoreInv, HeadsInv
<1>9. LostInv'
  <2>1. ASSUME NEW a \in DOMAIN heads', heads'[a] # kept'[a]
        PROVE  Ruined(a)' /\ \E n \in Nat : Unfollowed(a, n)'
    <3>1. CASE a = b
      <4>1. ~followed
        BY <1>4, <1>7, <2>1, <3>1
      <4>2. PICK n \in 1..(Rank(lines, synced) + 1) :
              /\ Closed(lines, b, n) /\ id \in From(b, n)
              /\ b \in DOMAIN diskHeads /\ diskHeads[b] # diskKept[b]
                   => diskHeads[b] \in From(b, n)
        BY <1>2, <4>1
      <4>3. /\ n \in 1..(Rank(lines, synced) + 1)
            /\ Closed(lines, a, n) /\ heads'[a] \in From(a, n)
            /\ a \in DOMAIN diskHeads /\ diskHeads[a] # diskKept[a]
                 => diskHeads[a] \in From(a, n)
            /\ Ruined(a)
        BY <1>2, <1>7, <3>1, <4>1, <4>2
      <4>4. Ruined(a)' /\ Unfollowed(a, n)'
        BY <1>1, <4>3 DEF Ruined, Unfollowed
      <4>5. n \in Nat
        BY <1>3, <4>2, RankTypes
      <4> QED
        BY <4>4, <4>5
    <3>2. CASE a # b
      <4>1. a \in DOMAIN heads /\ heads'[a] = heads[a] /\ kept'[a] = kept[a]
        BY <1>4, <1>7, <3>2
      <4>2. Ruined(a) /\ \E n \in Nat : Unfollowed(a, n)
        BY <2>1, <4>1 DEF StoreInv, LostInv
      <4>3. PICK n \in Nat : Unfollowed(a, n)
        BY <4>2
      <4>4. Unfollowed(a, n)' /\ Ruined(a)'
        BY <1>1, <4>1, <4>2, <4>3 DEF Unfollowed, Ruined
      <4> QED
        BY <4>4
    <3> QED
      BY <3>1, <3>2
  <2>2. ASSUME NEW a \in DOMAIN diskHeads', diskHeads'[a] # diskKept'[a]
        PROVE  heads'[a] # kept'[a]
    <3>1. a \in DOMAIN diskHeads /\ a \in DOMAIN heads /\ heads[a] # kept[a]
      BY <1>1, <2>2 DEF StoreInv, LostInv, HeadsInv
    <3>2. CASE a = b
      <4>1. ~followed
        BY <1>2, <3>1, <3>2
      <4> QED
        BY <1>2, <1>7, <3>1, <3>2, <4>1
    <3>3. CASE a # b
      BY <1>7, <3>1, <3>3
    <3> QED
      BY <3>2, <3>3
  <2> QED
    BY <2>1, <2>2 DEF LostInv
<1> QED
  BY <1>1, <1>5, <1>6, <1>8, <1>9 DEF StoreInv, AppendInv

\* The head of a fork is that of a chain which begins the chain of its source.
LEMMA HeadForks ==
    ASSUME StoreInv, NEW s \in Branches, NEW t \in Branches, Fork(s, t)
    PROVE  /\ s \in DOMAIN heads /\ t \notin DOMAIN heads
           /\ heads[s] = kept[s]
           /\ ChainOf(lines, kept[s]) \in Seq(Event)
           /\ \E i \in 1..Len(ChainOf(lines, kept[s])) :
                LET parent == ChainOf(lines, kept[s])[i].parent
                IN  /\ parent \in EventId \cup {None}
                    /\ heads' = [b \in DOMAIN heads \cup {t} |-> IF b = t THEN parent ELSE heads[b]]
                    /\ kept' = [b \in DOMAIN kept \cup {t} |-> IF b = t THEN parent ELSE kept[b]]
                    /\ ChainOf(lines, parent) = SubSeq(ChainOf(lines, kept[s]), 1, i - 1)
                    /\ Resolves(lines, synced, parent)
<1> DEFINE source == ChainOf(lines, heads[s])
<1>1. s \in DOMAIN heads /\ t \notin DOMAIN heads /\ source # Broken
  BY DEF Fork
<1>2. PICK i \in 1..Len(source) :
        /\ heads' = [b \in DOMAIN heads \cup {t} |-> IF b = t THEN source[i].parent ELSE heads[b]]
        /\ kept' = [b \in DOMAIN kept \cup {t} |-> IF b = t THEN source[i].parent ELSE kept[b]]
  BY DEF Fork
<1>3. heads[s] = kept[s]
  BY <1>1, LostIsBroken
<1>4. Sound(lines) /\ synced \in 0..Len(lines) /\ Resolves(lines, synced, heads[s])
  BY <1>1, <1>3 DEF StoreInv, LinesInv, TypeOK, HeadsInv
<1>5. source \in Seq(Event)
  BY <1>4, Resolved
<1>6. source[i].parent \in EventId \cup {None}
  <2>1. source[i] \in Event
    BY <1>2, <1>5, ElementOfSeq
  <2> QED
    BY <2>1 DEF Event
<1>7. /\ ChainOf(lines, source[i].parent) = SubSeq(source, 1, i - 1)
      /\ Resolves(lines, synced, source[i].parent)
  BY <1>2, <1>4, ChainBegins
<1> QED
  BY <1>1, <1>2, <1>3, <1>5, <1>6, <1>7

LEMMA ForkKeeps ==
    ASSUME StoreInv, NEW s \in Branches, NEW t \in Branches, Fork(s, t)
    PROVE  StoreInv'
<1>1. /\ append = None
      /\ UNCHANGED <<lines, terminated, synced, diskHeads, append, crashes, diskKept>>
  BY DEF Fork
<1>2. t \notin DOMAIN heads /\ TypeOK /\ DOMAIN kept = DOMAIN heads
  BY HeadForks DEF StoreInv, TypeOK
<1>3. PICK parent \in EventId \cup {None} :
        /\ heads' = [b \in DOMAIN heads \cup {t} |-> IF b = t THEN parent ELSE heads[b]]
        /\ kept' = [b \in DOMAIN kept \cup {t} |-> IF b = t THEN parent ELSE kept[b]]
        /\ Resolves(lines, synced, parent)
  BY HeadForks
<1>4. /\ DOMAIN heads' = DOMAIN heads \cup {t} /\ heads'[t] = parent /\ kept'[t] = parent
      /\ \A b \in DOMAIN heads : heads'[b] = heads[b] /\ kept'[b] = kept[b]
  BY <1>2, <1>3
<1>5. heads' \in Heads /\ kept' \in [DOMAIN heads' -> EventId \cup {None}]
  <2>1. \A b \in DOMAIN heads : heads[b] \in EventId \cup {None}
    BY <1>2, HeadTypes DEF TypeOK
  <2>2. DOMAIN heads \cup {t} \in SUBSET Branches
    BY <1>2, HeadTypes DEF TypeOK
  <2>3. heads' \in [DOMAIN heads \cup {t} -> EventId \cup {None}]
    BY <1>3, <2>1
  <2>4. kept \in [DOMAIN heads -> EventId \cup {None}]
    BY <1>2 DEF TypeOK
  <2>5. kept' \in [DOMAIN heads \cup {t} -> EventId \cup {None}]
    BY <1>2, <1>3, <2>4
  <2> QED
    BY <1>4, <2>2, <2>3, <2>5 DEF Heads
<1>6. TypeOK'
  BY <1>1, <1>2, <1>5 DEF TypeOK
<1>7. LinesInv'
  BY <1>1 DEF StoreInv, LinesInv
<1>8. HeadsInv'
  <2>1. DOMAIN diskHeads \subseteq DOMAIN heads
    BY DEF StoreInv, HeadsInv
  <2> QED
    BY <1>1, <1>3, <1>4, <2>1 DEF StoreInv, HeadsInv
<1>9. LostInv'
  <2>1. ASSUME NEW b \in DOMAIN heads', heads'[b] # kept'[b]
        PROVE  Ruined(b)' /\ \E n \in Nat : Unfollowed(b, n)'
    <3>1. b \in DOMAIN heads /\ heads'[b] = heads[b] /\ kept'[b] = kept[b]
      BY <1>4, <2>1
    <3>2. Ruined(b) /\ \E n \in Nat : Unfollowed(b, n)
      BY <2>1, <3>1 DEF StoreInv, LostInv
    <3>3. PICK n \in Nat : Unfollowed(b, n)
      BY <3>2
    <3>4. Unfollowed(b, n)' /\ Ruined(b)'
      BY <1>1, <3>1, <3>2, <3>3 DEF Unfollowed, Ruined
    <3> QED
      BY <3>4
  <2>2. ASSUME NEW b \in DOMAIN diskHeads', diskHeads'[b] # diskKept'[b]
        PROVE  heads'[b] # kept'[b]
    BY <1>1, <1>4, <2>2 DEF StoreInv, LostInv, HeadsInv
  <2> QED
    BY <2>1, <2>2 DEF LostInv
<1> QED
  BY <1>1, <1>6, <1>7, <1>8, <1>9 DEF StoreInv, AppendInv

LEMMA WriteBackHeadsKeeps ==
    ASSUME StoreInv, WriteBackHeads
    PROVE  StoreInv'
<1>1. /\ diskHeads' = heads /\ diskKept' = kept
      /\ UNCHANGED <<lines, terminated, synced, heads, append, crashes, kept>>
  BY DEF WriteBackHeads
<1>2. TypeOK'
  BY <1>1 DEF StoreInv, TypeOK
<1>3. LinesInv' /\ AppendInv'
  BY <1>1 DEF StoreInv, LinesInv, AppendInv, Readable
<1>4. \A b \in DOMAIN heads : IsPrefix(ChainOf(lines, kept[b]), ChainOf(lines, kept[b]))
  <2>1. Sound(lines) /\ synced \in 0..Len(lines)
    BY DEF StoreInv, LinesInv, TypeOK
  <2>2. \A b \in DOMAIN heads : ChainOf(lines, kept[b]) \in Seq(Event)
    BY <2>1, Resolved DEF StoreInv, HeadsInv
  <2> QED
    BY <2>2, PrefixItself
<1>5. HeadsInv'
  BY <1>1, <1>4 DEF StoreInv, HeadsInv
<1>6. LostInv'
  <2>1. ASSUME NEW b \in DOMAIN heads', heads'[b] # kept'[b]
        PROVE  Ruined(b)' /\ \E n \in Nat : Unfollowed(b, n)'
    <3>1. b \in DOMAIN heads /\ heads[b] # kept[b]
      BY <1>1, <2>1
    <3>2. Ruined(b) /\ \E n \in Nat : Unfollowed(b, n)
      BY <3>1 DEF StoreInv, LostInv
    <3>3. PICK n \in Nat : Unfollowed(b, n)
      BY <3>2
    <3>4. Unfollowed(b, n)' /\ Ruined(b)'
      BY <1>1, <3>2, <3>3 DEF Unfollowed, Ruined
    <3> QED
      BY <3>4
  <2> QED
    BY <1>1, <2>1 DEF LostInv
<1> QED
  BY <1>2, <1>3, <1>5, <1>6 DEF StoreInv

LEMMA KillProcessKeeps ==
    ASSUME StoreInv, KillProcess
    PROVE  StoreInv'
<1>1. /\ append # None /\ append' = None
      /\ crashes' \in 0..MaxCrashes
      /\ UNCHANGED <<synced, heads, diskHeads, kept, diskKept>>
  BY StoreConstants DEF KillProcess, StoreInv, TypeOK
<1>2. AppendInv'
  BY <1>1 DEF AppendInv
<1>3. /\ Sound(lines) /\ synced \in 0..Len(lines) /\ Len(lines) \in Nat
      /\ synced \in Nat /\ synced' \in Nat /\ synced <= synced' /\ LostInv
  BY <1>1, LenProperties DEF StoreInv, LinesInv, TypeOK
<1>4. CASE UNCHANGED <<lines, terminated>>
  <2>1. TypeOK' /\ LinesInv' /\ HeadsInv'
    BY <1>1, <1>4 DEF StoreInv, TypeOK, LinesInv, HeadsInv
  <2>2. \A b \in DOMAIN heads, n \in Nat : Unfollowed(b, n) => Closed(lines', b, n)
    BY <1>4 DEF Unfollowed
  <2>3. LostInv'
    BY <1>1, <1>3, <1>4, <2>2, LostStays
  <2> QED
    BY <1>2, <2>1, <2>3 DEF StoreInv
<1>5. ASSUME NEW reads \in {"error", "skipped"}, append.stage = "write",
             AddText(append.event, reads), terminated' = FALSE
      PROVE  StoreInv'
  <2>1. /\ lines' \in Seq(Line) /\ Len(lines') <= MaxLines /\ Len(lines') \in Nat
        /\ Sound(lines)' /\ Numbered(lines)'
        /\ synced < Len(lines')
        /\ \A i \in 1..synced : lines'[i] = lines[i]
        /\ \A b \in DOMAIN heads, n \in Nat : Unfollowed(b, n) => Closed(lines', b, n)
    BY <1>1, <1>5, TextAdded
  <2>2. synced' \in 0..Len(lines') /\ synced <= synced'
    BY <1>1, <1>3, <2>1
  <2>3. TypeOK'
    BY <1>1, <1>5, <2>1, <2>2 DEF StoreInv, TypeOK
  <2>4. LinesInv'
    BY <1>1, <2>1 DEF LinesInv
  <2>5. HeadsInv'
    BY <1>1, <1>3, <2>1, <2>2, HeadsStay DEF StoreInv
  <2>6. LostInv'
    BY <1>1, <1>3, <2>1, LostStays
  <2> QED
    BY <1>2, <2>3, <2>4, <2>5, <2>6 DEF StoreInv
<1> QED
  BY <1>4, <1>5 DEF KillProcess

\* A power loss keeps every line that was synced.
LEMMA PowerLost ==
    ASSUME StoreInv, LosePower
    PROVE  /\ lines' \in Seq(Line) /\ Len(lines') <= MaxLines
           /\ Sound(lines)' /\ Numbered(lines)'
           /\ synced' \in 0..Len(lines') /\ synced <= synced'
           /\ terminated' \in BOOLEAN /\ (~terminated' => synced' < Len(lines'))
           /\ \A i \in 1..synced : lines'[i] = lines[i]
           /\ \A b, m : Closed(lines, b, m) => Closed(lines', b, m)
<1>1. /\ Numbered(lines) /\ Len(lines) \in Nat /\ Len(lines) <= MaxLines
      /\ MaxLines \in Nat /\ lines \in Seq(Line)
      /\ synced \in 0..Len(lines) /\ terminated \in BOOLEAN
      /\ ~terminated => synced < Len(lines)
  BY LenProperties, StoreConstants DEF StoreInv, LinesInv, TypeOK
<1> DEFINE Whole(n) == /\ lines' = SubSeq(lines, 1, n)
                       /\ terminated' \in IF n = synced THEN {n < Len(lines) \/ terminated}
                                          ELSE {terminated, FALSE}
           Cut(n) == /\ n > synced
                     /\ \E reads \in {"error", "skipped"} :
                          lines' = [SubSeq(lines, 1, n) EXCEPT ![n].reads = reads]
                     /\ terminated' = FALSE
<1>2. /\ synced' = IF terminated' THEN Len(lines') ELSE Len(lines') - 1
      /\ \E n \in synced..Len(lines) : Whole(n) \/ Cut(n)
  BY DEF LosePower
<1>3. PICK n \in synced..Len(lines) : Whole(n) \/ Cut(n)
  BY <1>2
<1>4. n \in Nat /\ n \in 0..Len(lines) /\ synced <= n /\ n <= MaxLines
  BY <1>1
<1> DEFINE part == SubSeq(lines, 1, n)
<1>5. part \in Seq(Line) /\ Len(part) = n /\ \A i \in 1..n : part[i] = lines[i]
  <2>1. \A i \in 1..n : lines[i] \in Line
    BY <1>1, <1>4, LineTypes
  <2> QED
    BY <1>1, <1>4, <2>1, SubSeqProperties
<1>6. /\ lines' \in Seq(Line) /\ Len(lines') = n
      /\ terminated' \in BOOLEAN /\ (~terminated' => synced < n)
      /\ \E m \in synced..n :
           /\ n \in {m, m + 1}
           /\ \A i \in 1..m : lines'[i] = lines[i]
           /\ n = m + 1 => lines'[n].reads # "event"
  <2>1. CASE Whole(n)
    <3>1. lines' = part
      BY <2>1
    <3> HIDE DEF part
    <3>2. terminated' \in BOOLEAN /\ (~terminated' => synced < n)
      <4>1. CASE n = synced
        <5>1. terminated' = (n < Len(lines) \/ terminated)
          BY <2>1, <4>1
        <5>2. n < Len(lines) \/ terminated
          BY <1>1, <4>1
        <5> QED
          BY <5>1, <5>2
      <4>2. CASE n # synced
        <5>1. terminated' \in BOOLEAN
          BY <1>1, <2>1, <4>2
        <5>2. synced < n
          BY <1>1, <1>4, <4>2
        <5> QED
          BY <5>1, <5>2
      <4> QED
        BY <4>1, <4>2
    <3>3. n \in synced..n /\ n # n + 1
      BY <1>1, <1>4
    <3> QED
      BY <1>5, <3>1, <3>2, <3>3
  <2>2. CASE Cut(n)
    <3>1. PICK reads \in {"error", "skipped"} : lines' = [part EXCEPT ![n].reads = reads]
      BY <2>2
    <3> HIDE DEF part
    <3>2. n \in 1..n /\ n - 1 \in synced..n /\ synced < n /\ (n - 1) + 1 = n
      BY <1>1, <1>4, <2>2
    <3> DEFINE cut == [part[n] EXCEPT !.reads = reads]
    <3>3. part[n] \in Line
      BY <1>5, <3>2, ElementOfSeq
    <3>4. cut \in Line /\ cut.reads = reads
      BY <3>3 DEF Line
    <3>5. lines' = [part EXCEPT ![n] = cut]
      BY <3>1
    <3> HIDE DEF cut
    <3>6. /\ lines' \in Seq(Line) /\ Len(lines') = n /\ lines'[n] = cut
          /\ \A i \in 1..n : i # n => lines'[i] = part[i]
      BY <1>5, <3>2, <3>4, <3>5
    <3>7. \A i \in 1..(n - 1) : i \in 1..n /\ i # n
      BY <1>4
    <3>8. \A i \in 1..(n - 1) : lines'[i] = lines[i]
      BY <1>5, <3>6, <3>7
    <3> QED
      BY <2>2, <3>2, <3>4, <3>6, <3>8
  <2> QED
    BY <1>3, <2>1, <2>2
<1>7. PICK m \in synced..n :
        /\ n \in {m, m + 1}
        /\ \A i \in 1..m : lines'[i] = lines[i]
        /\ n = m + 1 => lines'[n].reads # "event"
  BY <1>6
<1>8. m \in 0..Len(lines) /\ Len(lines') \in {m, m + 1}
  BY <1>1, <1>4, <1>6, <1>7
<1>9. Sound(lines') /\ Numbered(lines')
  BY <1>1, <1>6, <1>7, <1>8, OneMoreLine
<1>10. ASSUME NEW b, NEW k, Closed(lines, b, k) PROVE Closed(lines', b, k)
  BY <1>1, <1>6, <1>7, <1>8, <1>10, StaysClosed
<1>11. synced' \in 0..Len(lines') /\ synced <= synced' /\ (~terminated' => synced' < Len(lines'))
  BY <1>1, <1>2, <1>4, <1>6
<1>12. \A i \in 1..synced : lines'[i] = lines[i]
  BY <1>1, <1>7
<1> QED
  BY <1>4, <1>6, <1>9, <1>10, <1>11, <1>12

LEMMA LosePowerKeeps ==
    ASSUME StoreInv, LosePower
    PROVE  StoreInv'
<1>1. /\ heads' = diskHeads /\ diskHeads' = diskHeads /\ append' = None
      /\ kept' = diskKept /\ diskKept' = diskKept
      /\ crashes' \in 0..MaxCrashes
  BY StoreConstants DEF LosePower, StoreInv, TypeOK
<1>2. /\ lines' \in Seq(Line) /\ Len(lines') <= MaxLines
      /\ Sound(lines)' /\ Numbered(lines)'
      /\ synced' \in 0..Len(lines') /\ synced <= synced'
      /\ terminated' \in BOOLEAN /\ (~terminated' => synced' < Len(lines'))
      /\ \A i \in 1..synced : lines'[i] = lines[i]
      /\ \A b, m : Closed(lines, b, m) => Closed(lines', b, m)
  BY PowerLost
<1>3. Sound(lines) /\ synced \in 0..Len(lines) /\ synced \in Nat /\ synced' \in Nat
  BY <1>2, LenProperties DEF StoreInv, LinesInv, TypeOK
<1>4. TypeOK'
  BY <1>1, <1>2 DEF StoreInv, TypeOK
<1>5. LinesInv' /\ AppendInv'
  BY <1>1, <1>2 DEF LinesInv, AppendInv
<1>6. \A b \in DOMAIN diskHeads :
        /\ Resolves(lines', synced', diskKept[b])
        /\ IsPrefix(ChainOf(lines', diskKept[b]), ChainOf(lines', diskKept[b]))
  <2>1. ASSUME NEW b \in DOMAIN diskHeads
        PROVE  /\ Resolves(lines', synced', diskKept[b])
               /\ IsPrefix(ChainOf(lines', diskKept[b]), ChainOf(lines', diskKept[b]))
    <3>1. Resolves(lines, synced, diskKept[b])
      BY DEF StoreInv, HeadsInv
    <3>2. ChainOf(lines, diskKept[b]) \in Seq(Event)
      BY <1>3, <3>1, Resolved
    <3>3. /\ ChainOf(lines', diskKept[b]) = ChainOf(lines, diskKept[b])
          /\ Resolves(lines', synced', diskKept[b])
      BY <1>2, <1>3, <3>1, ChainsStay
    <3> QED
      BY <3>2, <3>3, PrefixItself
  <2> QED
    BY <2>1
<1>7. HeadsInv'
  BY <1>1, <1>6 DEF StoreInv, HeadsInv
<1>8. LostInv'
  <2>1. ASSUME NEW b \in DOMAIN heads', heads'[b] # kept'[b]
        PROVE  Ruined(b)' /\ \E n \in Nat : Unfollowed(b, n)'
    <3>1. /\ b \in DOMAIN diskHeads /\ diskHeads[b] # diskKept[b]
          /\ b \in DOMAIN heads /\ heads[b] # kept[b]
      BY <1>1, <2>1 DEF StoreInv, LostInv, HeadsInv
    <3>2. Ruined(b) /\ \E n \in Nat : Unfollowed(b, n)
      BY <3>1 DEF StoreInv, LostInv
    <3>3. PICK n \in Nat : Unfollowed(b, n)
      BY <3>2
    <3>4. Closed(lines', b, n) /\ diskHeads[b] \in From(b, n)
      BY <1>2, <3>1, <3>3 DEF Unfollowed
    <3>5. /\ heads'[b] \in From(b, n)
          /\ b \in DOMAIN diskHeads' /\ diskHeads'[b] # diskKept'[b] => diskHeads'[b] \in From(b, n)
          /\ append' # None /\ append'.event.branch = b => n <= append'.event.id[2]
      BY <1>1, <3>4
    <3> QED
      BY <1>2, <1>3, <3>2, <3>3, <3>4, <3>5, BranchStaysLost
  <2> QED
    BY <1>1, <2>1 DEF LostInv
<1> QED
  BY <1>4, <1>5, <1>7, <1>8 DEF StoreInv

LEMMA StepsKeep == StoreInv /\ [Next]_vars => StoreInv'
<1> SUFFICES ASSUME StoreInv, [Next]_vars PROVE StoreInv'
  OBVIOUS
<1>1. ASSUME NEW b \in DOMAIN heads, NEW body \in Bodies, BeginAppend(b, body) PROVE StoreInv'
  BY <1>1, BeginAppendKeeps
<1>2. CASE WriteEvent
  BY <1>2, WriteEventKeeps
<1>3. CASE WriteNewline
  BY <1>3, WriteNewlineKeeps
<1>4. CASE SyncEvents
  BY <1>4, SyncEventsKeeps
<1>5. CASE WriteHead
  BY <1>5, WriteHeadKeeps
<1>6. ASSUME NEW s \in Branches, NEW t \in Branches, Fork(s, t) PROVE StoreInv'
  BY <1>6, ForkKeeps
<1>7. CASE WriteBackHeads
  BY <1>7, WriteBackHeadsKeeps
<1>8. CASE KillProcess
  BY <1>8, KillProcessKeeps
<1>9. CASE LosePower
  BY <1>9, LosePowerKeeps
<1>10. CASE UNCHANGED vars
  BY <1>10 DEF vars, StoreInv, TypeOK, LinesInv, HeadsInv, LostInv, AppendInv, Ruined,
               Unfollowed, Readable
<1> QED
  BY <1>1, <1>2, <1>3, <1>4, <1>5, <1>6, <1>7, <1>8, <1>9, <1>10 DEF Next

-----------------------------------------------------------------------------
(* The theorems *)

\* In every reachable state the number in an event's id is the number of events
\* up to it; a head that is kept leads over synced lines and a head that is not
\* leads to nothing for good, because a synced line of its branch is ruined; the
\* heads of the disk are older; and what an append has read is still true.
THEOREM Invariant == Spec => []StoreInv
BY InitInv, StepsKeep, PTL DEF Spec

\* Every variable of the store keeps its type.
THEOREM TypeCorrect == Spec => []TypeOK
<1>1. StoreInv => TypeOK
  BY DEF StoreInv
<1> QED
  BY <1>1, Invariant, PTL

\* However many appends are interrupted, lines skipped and heads lost, no two
\* events of the file have the same id, although append() only counts what
\* events() returns.
THEOREM IdsAreUnique == Spec => []EventIdsUnique
<1>1. StoreInv => EventIdsUnique
  BY DEF StoreInv, LinesInv, Sound, EventIdsUnique
<1> QED
  BY <1>1, Invariant, PTL

\* chain() finds every event a head leads to, without meeting one twice, in the
\* part of the file that no power loss takes, for the heads in use and for those
\* a power loss would leave; a branch for which it does not is one of which an
\* event ran into a line that was left unfinished.
THEOREM HeadsAlwaysResolve == Spec => []HeadsResolve
<1>1. ASSUME StoreInv PROVE HeadsResolve
  <2>1. Sound(lines) /\ synced \in 0..Len(lines) /\ Len(lines) \in Nat
    BY <1>1, LenProperties DEF StoreInv, LinesInv, TypeOK
  <2>2. ASSUME NEW id, Resolves(lines, synced, id)
        PROVE  /\ ChainOf(lines, id) # Broken
               /\ \A i \in 1..Len(ChainOf(lines, id)) :
                    LineOf(lines, ChainOf(lines, id)[i].id) \in 1..synced
    <3>1. PICK way \in Seq(1..Len(lines)) :
            /\ IsWay(lines, way, id) /\ Len(way) <= Len(lines)
            /\ \A k \in 1..Len(way) : way[k] \in 1..synced
      BY <2>1, <2>2, Resolved
    <3>2. /\ ChainOf(lines, id) = EventsOn(lines, way) /\ ChainOf(lines, id) # Broken
          /\ Len(ChainOf(lines, id)) = Len(way)
      BY <2>1, <3>1, ChainIs
    <3>3. ASSUME NEW i \in 1..Len(way)
          PROVE  LineOf(lines, ChainOf(lines, id)[i].id) \in 1..synced
      <4>1. ChainOf(lines, id)[i].id = lines[way[i]].event.id
        BY <3>2 DEF EventsOn
      <4>2. way[i] \in EventLines(lines, Len(lines)) /\ way[i] \in 1..synced
        BY <2>1, <3>1, OnWay
      <4>3. LineOf(lines, lines[way[i]].event.id) = way[i]
        BY <2>1, <4>2, Found
      <4> QED
        BY <4>1, <4>2, <4>3
    <3> QED
      BY <3>2, <3>3
  <2>3. ASSUME NEW b \in DOMAIN heads, heads[b] # kept[b]
        PROVE  /\ Ruined(b) /\ ChainOf(lines, heads[b]) = Broken
               /\ b \in DOMAIN diskHeads /\ diskHeads[b] # diskKept[b]
                    => ChainOf(lines, diskHeads[b]) = Broken
    <3>1. PICK n \in Nat : Unfollowed(b, n)
      BY <1>1, <2>3 DEF StoreInv, LostInv
    <3>2. /\ b \in Branches /\ n \in Nat \ {0} /\ Closed(lines, b, n)
          /\ heads[b] \in From(b, n)
          /\ b \in DOMAIN diskHeads /\ diskHeads[b] # diskKept[b] => diskHeads[b] \in From(b, n)
      BY <1>1, <3>1, HeadTypes DEF Unfollowed, StoreInv, TypeOK
    <3>3. Ruined(b)
      BY <1>1, <2>3 DEF StoreInv, LostInv
    <3> QED
      BY <2>1, <3>2, <3>3, NotFollowed
  <2>4. ASSUME NEW id, NEW b, Resolves(lines, synced, id) \/ (Ruined(b) /\ ChainOf(lines, id) = Broken)
        PROVE  IF ChainOf(lines, id) = Broken
               THEN \E i \in 1..synced : lines[i].reads # "event" /\ lines[i].event.branch = b
               ELSE \A i \in 1..Len(ChainOf(lines, id)) :
                      LineOf(lines, ChainOf(lines, id)[i].id) \in 1..synced
    BY <2>2, <2>4 DEF Ruined
  <2>5. ASSUME NEW b \in DOMAIN heads
        PROVE  Resolves(lines, synced, heads[b]) \/ (Ruined(b) /\ ChainOf(lines, heads[b]) = Broken)
    BY <1>1, <2>3 DEF StoreInv, HeadsInv
  <2>6. ASSUME NEW b \in DOMAIN diskHeads
        PROVE  \/ Resolves(lines, synced, diskHeads[b])
               \/ Ruined(b) /\ ChainOf(lines, diskHeads[b]) = Broken
    <3>1. CASE diskHeads[b] = diskKept[b]
      BY <1>1, <3>1 DEF StoreInv, HeadsInv
    <3>2. CASE diskHeads[b] # diskKept[b]
      <4>1. b \in DOMAIN heads /\ heads[b] # kept[b]
        BY <1>1, <3>2 DEF StoreInv, HeadsInv, LostInv
      <4> QED
        BY <2>3, <3>2, <4>1
    <3> QED
      BY <3>1, <3>2
  <2>7. ASSUME NEW hs \in {heads, diskHeads}, NEW b \in DOMAIN hs
        PROVE  IF ChainOf(lines, hs[b]) = Broken
               THEN \E i \in 1..synced : lines[i].reads # "event" /\ lines[i].event.branch = b
               ELSE \A i \in 1..Len(ChainOf(lines, hs[b])) :
                      LineOf(lines, ChainOf(lines, hs[b])[i].id) \in 1..synced
    <3>1. Resolves(lines, synced, hs[b]) \/ (Ruined(b) /\ ChainOf(lines, hs[b]) = Broken)
      BY <2>5, <2>6, <2>7
    <3> QED
      BY <2>4, <3>1
  <2> QED
    BY <2>7 DEF HeadsResolve
<1> QED
  BY <1>1, Invariant, PTL

\* Without a power loss every step leaves a branch its head or moves it to an
\* event that was written with that head as its parent.
THEOREM HeadsOnlyAdvance == Spec => HeadsKept
<1> DEFINE Kept ==
      \/ PowerLoss /\ append' = None /\ heads' = diskHeads /\ crashes' > crashes
      \/ \A b \in DOMAIN heads :
           /\ b \in DOMAIN heads'
           /\ \/ heads'[b] = heads[b]
              \/ \E i \in 1..Len(lines) :
                   lines[i].event.id = heads'[b] /\ lines[i].event.parent = heads[b]
<1>1. ASSUME StoreInv, [Next]_vars PROVE [Kept]_vars
  <2>1. CASE UNCHANGED heads
    BY <2>1
  <2>2. CASE WriteHead
    <3>1. /\ append.event.branch \in DOMAIN heads
          /\ heads' = [heads EXCEPT ![append.event.branch] = append.event.id]
          /\ Len(lines) \in 1..Len(lines)
          /\ lines[Len(lines)].event = append.event
      BY <1>1, <2>2, HeadMoves
    <3>2. append.event.parent = heads[append.event.branch]
      BY <1>1, <2>2 DEF WriteHead, StoreInv, AppendInv
    <3> QED
      BY <3>1, <3>2
  <2>3. ASSUME NEW s \in Branches, NEW t \in Branches, Fork(s, t) PROVE Kept
    BY <2>3 DEF Fork
  <2>4. CASE LosePower
    BY <1>1, <2>4 DEF LosePower, StoreInv, TypeOK
  <2> QED
    BY <1>1, <2>1, <2>2, <2>3, <2>4
       DEF Next, vars, BeginAppend, WriteEvent, WriteNewline, SyncEvents, WriteBackHeads,
           KillProcess
<1> QED
  BY <1>1, Invariant, PTL DEF Spec, HeadsKept

-----------------------------------------------------------------------------
(* The files implement the ledger *)

LEMMA BodiesTypes ==
    ASSUME NEW c \in Seq(Event)
    PROVE  /\ BodiesOf(c) \in Seq(Bodies) /\ Len(BodiesOf(c)) = Len(c)
           /\ \A i \in 1..Len(c) : BodiesOf(c)[i] = c[i].body /\ c[i].body \in Bodies
<1>1. Len(c) \in Nat
  BY LenProperties
<1>2. \A i \in 1..Len(c) : c[i].body \in Bodies
  <2>1. \A i \in 1..Len(c) : c[i] \in Event
    BY ElementOfSeq
  <2> QED
    BY <2>1 DEF Event
<1>3. BodiesOf(c) \in [1..Len(c) -> Bodies]
  BY <1>2 DEF BodiesOf
<1>4. BodiesOf(c) \in Seq(Bodies) /\ Len(BodiesOf(c)) = Len(c)
  BY <1>1, <1>3
<1> QED
  BY <1>2, <1>4 DEF BodiesOf

LEMMA BodiesGrow ==
    ASSUME NEW c \in Seq(Event), NEW e \in Event
    PROVE  BodiesOf(Append(c, e)) = Append(BodiesOf(c), e.body)
<1> DEFINE longer == Append(c, e)
           bodies == BodiesOf(c)
<1>1. /\ longer \in Seq(Event) /\ Len(longer) = Len(c) + 1 /\ Len(c) \in Nat
      /\ \A i \in 1..Len(c) : longer[i] = c[i]
      /\ longer[Len(c) + 1] = e
  BY LenProperties
<1> HIDE DEF longer
<1>2. /\ bodies \in Seq(Bodies) /\ Len(bodies) = Len(c)
      /\ \A i \in 1..Len(c) : bodies[i] = c[i].body
  BY BodiesTypes
<1> HIDE DEF bodies
<1> DEFINE body == e.body
           new == Append(bodies, body)
<1>3. body \in Bodies
  BY DEF Event
<1> HIDE DEF body
<1>4. /\ new \in Seq(Bodies) /\ Len(new) = Len(c) + 1
      /\ \A i \in 1..Len(c) : new[i] = bodies[i]
      /\ new[Len(c) + 1] = body
  BY <1>2, <1>3
<1> HIDE DEF new
<1>5. /\ BodiesOf(longer) \in Seq(Bodies) /\ Len(BodiesOf(longer)) = Len(c) + 1
      /\ \A i \in 1..(Len(c) + 1) : BodiesOf(longer)[i] = longer[i].body
  BY <1>1, BodiesTypes
<1>6. ASSUME NEW i \in 1..(Len(c) + 1) PROVE BodiesOf(longer)[i] = new[i]
  <2>1. CASE i \in 1..Len(c)
    BY <1>1, <1>2, <1>4, <1>5, <2>1
  <2>2. CASE i = Len(c) + 1
    BY <1>1, <1>4, <1>5, <2>2 DEF body
  <2> QED
    BY <1>1, <2>1, <2>2
<1>7. BodiesOf(longer) = new
  BY <1>4, <1>5, <1>6, SeqEqual
<1> QED
  BY <1>7 DEF longer, new, bodies, body

LEMMA BodiesBegin ==
    ASSUME NEW c \in Seq(Event), NEW n \in 0..Len(c)
    PROVE  BodiesOf(SubSeq(c, 1, n)) = SubSeq(BodiesOf(c), 1, n)
<1> DEFINE part == SubSeq(c, 1, n)
           bodies == BodiesOf(c)
           begin == SubSeq(bodies, 1, n)
<1>1. Len(c) \in Nat /\ \A i \in 1..n : i \in 1..Len(c)
  BY LenProperties
<1>2. /\ part \in Seq(Event) /\ Len(part) = n
      /\ \A i \in 1..n : part[i] = c[i]
  BY <1>1, SubSeqProperties, ElementOfSeq
<1> HIDE DEF part
<1>3. /\ bodies \in Seq(Bodies) /\ Len(bodies) = Len(c)
      /\ \A i \in 1..Len(c) : bodies[i] = c[i].body /\ bodies[i] \in Bodies
  BY BodiesTypes
<1> HIDE DEF bodies
<1>4. /\ begin \in Seq(Bodies) /\ Len(begin) = n
      /\ \A i \in 1..n : begin[i] = bodies[i]
  BY <1>1, <1>3, SubSeqProperties
<1> HIDE DEF begin
<1>5. /\ BodiesOf(part) \in Seq(Bodies) /\ Len(BodiesOf(part)) = n
      /\ \A i \in 1..n : BodiesOf(part)[i] = part[i].body
  BY <1>2, BodiesTypes
<1>6. \A i \in 1..n : BodiesOf(part)[i] = begin[i]
  BY <1>1, <1>2, <1>3, <1>4, <1>5
<1>7. BodiesOf(part) = begin
  BY <1>4, <1>5, <1>6, SeqEqual
<1> QED
  BY <1>7 DEF part, begin, bodies

LEMMA BodiesPrefix ==
    ASSUME NEW c \in Seq(Event), NEW d \in Seq(Event), IsPrefix(c, d)
    PROVE  IsPrefix(BodiesOf(c), BodiesOf(d))
<1>1. /\ Len(c) \in 0..Len(d) /\ Len(c) \in 0..Len(c)
      /\ SubSeq(c, 1, Len(c)) = SubSeq(d, 1, Len(c))
  BY LenProperties DEF IsPrefix
<1>2. /\ SubSeq(BodiesOf(c), 1, Len(c)) = BodiesOf(SubSeq(c, 1, Len(c)))
      /\ SubSeq(BodiesOf(d), 1, Len(c)) = BodiesOf(SubSeq(d, 1, Len(c)))
  BY <1>1, BodiesBegin
<1>3. Len(BodiesOf(c)) = Len(c) /\ Len(BodiesOf(d)) = Len(d)
  BY BodiesTypes
<1> QED
  BY <1>1, <1>2, <1>3 DEF IsPrefix

LEMMA ChainTypes ==
    ASSUME StoreInv
    PROVE  /\ \A b \in DOMAIN heads : ChainOf(lines, kept[b]) \in Seq(Event)
           /\ \A b \in DOMAIN diskHeads : ChainOf(lines, diskKept[b]) \in Seq(Event)
           /\ DOMAIN kept = DOMAIN heads /\ DOMAIN diskKept = DOMAIN diskHeads
           /\ DOMAIN heads \subseteq Branches
<1>1. Sound(lines) /\ synced \in 0..Len(lines)
  BY DEF StoreInv, LinesInv, TypeOK
<1>2. \A b \in DOMAIN heads : ChainOf(lines, kept[b]) \in Seq(Event)
  BY <1>1, Resolved DEF StoreInv, HeadsInv
<1>3. \A b \in DOMAIN diskHeads : ChainOf(lines, diskKept[b]) \in Seq(Event)
  BY <1>1, Resolved DEF StoreInv, HeadsInv
<1>4. DOMAIN kept = DOMAIN heads /\ DOMAIN diskKept = DOMAIN diskHeads
  BY DEF StoreInv, TypeOK
<1> QED
  BY <1>2, <1>3, <1>4, HeadTypes DEF StoreInv, TypeOK

\* A step that keeps the heads and what is on the disk keeps the history.
LEMMA SameHistory ==
    ASSUME StoreInv, StoreInv', synced <= synced',
           \A i \in 1..synced : lines'[i] = lines[i], UNCHANGED <<heads, kept>>
    PROVE  UNCHANGED <<DOMAIN heads, History(lines, kept)>>
<1>1. /\ Sound(lines) /\ synced \in 0..Len(lines)
      /\ Sound(lines)' /\ synced' \in 0..Len(lines')
  BY DEF StoreInv, LinesInv, TypeOK
<1>2. \A b \in DOMAIN heads : ChainOf(lines', kept[b]) = ChainOf(lines, kept[b])
  BY <1>1, ChainsStay DEF StoreInv, HeadsInv
<1>3. DOMAIN kept = DOMAIN heads
  BY ChainTypes
<1>4. History(lines, kept)' = History(lines, kept)
  BY <1>2, <1>3 DEF History
<1> QED
  BY <1>4

\* A new head that leads to its event is an append to the ledger; one that leads
\* nowhere is the end of reading every branch.
LEMMA WriteHeadIsAppend ==
    ASSUME StoreInv, WriteHead
    PROVE  Ledger!Next
<1> DEFINE b == append.event.branch
           event == append.event
           before == ChainOf(lines, kept[b])
           old == History(lines, kept)
           new == History(lines, kept)'
<1>1. /\ b \in DOMAIN heads /\ event \in Event
      /\ heads' = [heads EXCEPT ![b] = event.id]
      /\ ChainOf(lines, event.id) # Broken =>
           /\ heads[b] = kept[b]
           /\ kept' = [kept EXCEPT ![b] = event.id]
           /\ before \in Seq(Event)
           /\ ChainOf(lines, event.id) = Append(before, event)
      /\ ChainOf(lines, event.id) = Broken => kept' = kept /\ kept[b] # event.id
  BY HeadMoves
<1>2. UNCHANGED <<lines, terminated, synced, diskHeads, crashes>>
  BY DEF WriteHead
<1>3. /\ DOMAIN heads \subseteq Branches
      /\ DOMAIN kept = DOMAIN heads
      /\ heads = [a \in DOMAIN heads |-> heads[a]] /\ kept = [a \in DOMAIN heads |-> kept[a]]
  BY HeadTypes, ChainTypes DEF StoreInv, TypeOK
<1>4. DOMAIN heads' = DOMAIN heads /\ heads'[b] = event.id
  BY <1>1
<1>5. CASE ChainOf(lines, event.id) = Broken
  <2>1. kept' = kept /\ heads' # kept'
    BY <1>1, <1>4, <1>5
  <2>2. /\ (Readable /\ heads = kept)' = FALSE
        /\ UNCHANGED <<DOMAIN heads, History(lines, kept)>>
    BY <1>2, <1>4, <2>1 DEF History
  <2>3. Ledger!TearLine
    BY <2>2, Zenon DEF Ledger!TearLine
  <2> QED
    BY <2>3 DEF Ledger!Next
<1>6. CASE ChainOf(lines, event.id) # Broken
  <2>1. /\ heads[b] = kept[b] /\ before \in Seq(Event)
        /\ ChainOf(lines, event.id) = Append(before, event)
        /\ DOMAIN kept' = DOMAIN heads /\ kept'[b] = event.id
        /\ \A a \in DOMAIN heads : a # b => kept'[a] = kept[a] /\ heads'[a] = heads[a]
    BY <1>1, <1>3, <1>6
  <2>2. BodiesOf(Append(before, event)) = Append(BodiesOf(before), event.body)
    BY <1>1, <2>1, BodiesGrow
  <2>3. old[b] = BodiesOf(before) /\ old[b] \in Seq(Bodies) /\ event.body \in Bodies
    <3>1. old[b] = BodiesOf(before)
      BY <1>1, <1>3 DEF History
    <3> QED
      BY <1>1, <2>1, <3>1, BodiesTypes DEF Event
  <2>4. /\ new[b] = Append(old[b], event.body)
        /\ \A a \in Branches : a # b => new[a] = old[a]
    <3>1. new[b] = BodiesOf(ChainOf(lines, event.id))
      BY <1>1, <1>2, <1>3, <2>1 DEF History
    <3>2. new[b] = Append(old[b], event.body)
      BY <2>1, <2>2, <2>3, <3>1
    <3>3. ASSUME NEW a \in Branches, a # b PROVE new[a] = old[a]
      BY <1>2, <1>3, <2>1, <3>3 DEF History
    <3> QED
      BY <3>2, <3>3
  <2>5. /\ old = [a \in Branches |-> old[a]] /\ new = [a \in Branches |-> new[a]]
    BY DEF History
  <2>6. (heads' = kept') <=> (heads = kept)
    <3>1. ASSUME heads' = kept' PROVE heads = kept
      <4>1. \A a \in DOMAIN heads : heads[a] = kept[a]
        BY <2>1, <3>1
      <4> QED
        BY <1>3, <4>1, Zenon
    <3>2. ASSUME heads = kept PROVE heads' = kept'
      BY <1>1, <1>6, <3>2
    <3> QED
      BY <3>1, <3>2
  <2>7. (Readable /\ heads = kept)' \in {Readable /\ heads = kept, FALSE}
    <3>1. Readable' <=> Readable
      BY <1>2 DEF Readable
    <3> QED
      BY <2>6, <3>1
  <2> HIDE DEF b, event, before, old, new
  <2> DEFINE body == event.body
  <2> HIDE DEF body
  <2>8. new = [old EXCEPT ![b] = Append(old[b], body)]
    <3>1. old = [a \in Branches |-> old[a]] /\ new = [a \in Branches |-> new[a]] /\ b \in Branches
      BY <1>1, <1>3, <2>5
    <3>2. new[b] = Append(old[b], body) /\ \A a \in Branches : a # b => new[a] = old[a]
      BY <2>4 DEF body
    <3> QED
      BY <3>1, <3>2, Zenon
  <2>9. Len(new[b]) = Len(old[b]) + 1 /\ new[b][Len(new[b])] = body /\ body \in Bodies
    BY <2>3, <2>4, AppendProperties DEF body
  <2>10. Ledger!Last(new[b]) = body
    BY <2>9 DEF Ledger!Last
  <2>11. \E a \in Branches : Ledger!AppendTo(a)
    <3>1. /\ b \in DOMAIN heads /\ b \in Branches
          /\ Len(History(lines, kept)'[b]) = Len(History(lines, kept)[b]) + 1
          /\ Ledger!Last(History(lines, kept)'[b]) \in Bodies
          /\ History(lines, kept)'
               = [History(lines, kept) EXCEPT
                    ![b] = Append(@, Ledger!Last(History(lines, kept)'[b]))]
          /\ (Readable /\ heads = kept)' \in {Readable /\ heads = kept, FALSE}
          /\ UNCHANGED DOMAIN heads
      BY <1>1, <1>3, <1>4, <2>7, <2>8, <2>9, <2>10 DEF old, new
    <3> QED
      BY <3>1, Zenon DEF Ledger!AppendTo
  <2> QED
    BY <2>11 DEF Ledger!Next
<1> QED
  BY <1>5, <1>6

LEMMA ForkIsFork ==
    ASSUME StoreInv, NEW s \in Branches, NEW t \in Branches, Fork(s, t)
    PROVE  Ledger!Next
<1> DEFINE source == ChainOf(lines, kept[s])
           old == History(lines, kept)
           new == History(lines, kept)'
<1>1. /\ s \in DOMAIN heads /\ t \notin DOMAIN heads
      /\ source \in Seq(Event)
  BY HeadForks
<1>2. PICK i \in 1..Len(source) :
        /\ heads' = [b \in DOMAIN heads \cup {t} |->
                       IF b = t THEN source[i].parent ELSE heads[b]]
        /\ kept' = [b \in DOMAIN kept \cup {t} |->
                      IF b = t THEN source[i].parent ELSE kept[b]]
        /\ ChainOf(lines, source[i].parent) = SubSeq(source, 1, i - 1)
  BY HeadForks
<1>3. UNCHANGED lines
  BY DEF Fork
<1>4. i - 1 \in 0..Len(source) /\ BodiesOf(SubSeq(source, 1, i - 1)) = SubSeq(BodiesOf(source), 1, i - 1)
  <2>1. i - 1 \in 0..Len(source)
    BY <1>1, <1>2, LenProperties
  <2> QED
    BY <1>1, <2>1, BodiesBegin
<1>5. /\ DOMAIN heads' = DOMAIN heads \cup {t} /\ DOMAIN kept' = DOMAIN heads \cup {t}
      /\ DOMAIN kept = DOMAIN heads
      /\ kept'[t] = source[i].parent /\ \A b \in DOMAIN heads : kept'[b] = kept[b]
      /\ heads'[t] = kept'[t] /\ \A b \in DOMAIN heads : heads'[b] = heads[b]
  BY <1>1, <1>2, ChainTypes
<1>6. old[s] = BodiesOf(source) /\ Len(old[s]) = Len(source)
  BY <1>1, <1>5, BodiesTypes DEF History
<1>7. /\ new[t] = SubSeq(old[s], 1, i - 1)
      /\ \A b \in Branches : b # t => new[b] = old[b]
  <2>1. new[t] = BodiesOf(ChainOf(lines, source[i].parent))
    BY <1>3, <1>5 DEF History
  <2>2. new[t] = SubSeq(old[s], 1, i - 1)
    BY <1>2, <1>4, <1>6, <2>1
  <2>3. ASSUME NEW b \in Branches, b # t PROVE new[b] = old[b]
    BY <1>3, <1>5, <2>3 DEF History
  <2> QED
    BY <2>2, <2>3
<1>8. old = [b \in Branches |-> old[b]] /\ new = [b \in Branches |-> new[b]]
  BY DEF History
<1>9. (Readable /\ heads = kept)' = (Readable /\ heads = kept)
  <2>1. Readable' <=> Readable
    BY <1>3 DEF Readable
  <2>2. ASSUME heads' = kept' PROVE heads = kept
    <3>1. \A b \in DOMAIN heads : heads[b] = kept[b]
      BY <1>5, <2>2
    <3>2. heads = [b \in DOMAIN heads |-> heads[b]] /\ kept = [b \in DOMAIN heads |-> kept[b]]
      BY HeadTypes DEF StoreInv, TypeOK
    <3> QED
      BY <3>1, <3>2, Zenon
  <2>3. ASSUME heads = kept PROVE heads' = kept'
    BY <1>2, <2>3
  <2> QED
    BY <2>1, <2>2, <2>3
<1> HIDE DEF source, old, new
<1>10. new = [old EXCEPT ![t] = SubSeq(old[s], 1, i - 1)]
  BY <1>7, <1>8, Zenon
<1>11. i - 1 \in 0..Len(old[s])
  BY <1>4, <1>6
<1>12. Ledger!ForkFrom(s, t)
  <2>1. /\ s \in DOMAIN heads /\ t \in Branches \ DOMAIN heads
        /\ DOMAIN heads' = DOMAIN heads \cup {t}
        /\ \E n \in 0..Len(History(lines, kept)[s]) :
             History(lines, kept)'
               = [History(lines, kept) EXCEPT ![t] = SubSeq(History(lines, kept)[s], 1, n)]
        /\ UNCHANGED (Readable /\ heads = kept)
    BY <1>1, <1>5, <1>9, <1>10, <1>11 DEF old, new
  <2> QED
    BY <2>1, Zenon DEF Ledger!ForkFrom
<1> QED
  BY <1>12 DEF Ledger!Next

LEMMA LosePowerLosesHeads ==
    ASSUME StoreInv, LosePower
    PROVE  Ledger!Next
<1>1. PowerLoss /\ heads' = diskHeads /\ kept' = diskKept
  BY DEF LosePower
<1>2. /\ Sound(lines) /\ synced \in 0..Len(lines)
      /\ Sound(lines)' /\ synced' \in 0..Len(lines') /\ synced <= synced'
      /\ \A i \in 1..synced : lines'[i] = lines[i]
  BY PowerLost DEF StoreInv, LinesInv, TypeOK
<1>3. /\ DOMAIN heads' \subseteq DOMAIN heads /\ Main \in DOMAIN heads'
      /\ DOMAIN kept = DOMAIN heads /\ DOMAIN diskKept = DOMAIN diskHeads
  BY <1>1, ChainTypes DEF StoreInv, HeadsInv
<1>4. ASSUME NEW b \in Branches
      PROVE  IsPrefix(History(lines, kept)'[b], History(lines, kept)[b])
  <2>1. CASE b \in DOMAIN diskHeads
    <3>1. /\ Resolves(lines, synced, diskKept[b]) /\ b \in DOMAIN heads
          /\ IsPrefix(ChainOf(lines, diskKept[b]), ChainOf(lines, kept[b]))
      BY <2>1 DEF StoreInv, HeadsInv
    <3>2. ChainOf(lines', diskKept[b]) = ChainOf(lines, diskKept[b])
      BY <1>2, <3>1, ChainsStay
    <3>3. /\ History(lines, kept)'[b] = BodiesOf(ChainOf(lines, diskKept[b]))
          /\ History(lines, kept)[b] = BodiesOf(ChainOf(lines, kept[b]))
      BY <1>1, <1>3, <2>1, <3>1, <3>2 DEF History
    <3> QED
      BY <2>1, <3>1, <3>3, ChainTypes, BodiesPrefix
  <2>2. CASE b \notin DOMAIN diskHeads
    <3>1. History(lines, kept)'[b] = <<>>
      BY <1>1, <1>3, <2>2 DEF History
    <3>2. History(lines, kept)[b] \in Seq(Bodies)
      <4>1. CASE b \in DOMAIN heads
        BY <1>3, <4>1, ChainTypes, BodiesTypes DEF History
      <4>2. CASE b \notin DOMAIN heads
        BY <1>3, <4>2 DEF History
      <4> QED
        BY <4>1, <4>2
    <3> DEFINE chain == History(lines, kept)[b]
    <3> HIDE DEF chain
    <3>3. chain \in Seq(Bodies)
      BY <3>2 DEF chain
    <3>4. SubSeq(chain, 1, 0) = <<>> /\ 0 <= Len(chain)
      BY <3>3, LenProperties, SubSeqEmpty
    <3>5. IsPrefix(<<>>, chain)
      BY <3>4, SubSeqEmpty DEF IsPrefix
    <3> QED
      BY <3>1, <3>5 DEF chain
  <2> QED
    BY <2>1, <2>2
<1>5. Ledger!LoseHeads
  <2>1. (Readable /\ heads = kept)' \in BOOLEAN
    OBVIOUS
  <2>2. \A b \in Branches :
          Ledger!IsPrefix(History(lines, kept)'[b], History(lines, kept)[b])
    BY <1>4 DEF IsPrefix, Ledger!IsPrefix
  <2> QED
    BY <1>1, <1>3, <2>1, <2>2, Zenon DEF Ledger!LoseHeads
<1> QED
  BY <1>5 DEF Ledger!Next

\* More text makes the file unreadable or leaves it readable.
LEMMA TextIsTear ==
    ASSUME StoreInv, StoreInv', append # None, append.stage = "write",
           NEW reads \in {"event", "error", "skipped"},
           AddText(append.event, reads), UNCHANGED <<synced, heads, kept>>
    PROVE  [Ledger!Next]_(Ledger!vars)
<1>1. \A i \in 1..synced : lines'[i] = lines[i]
  BY TextAdded
<1>2. synced <= synced'
  BY LenProperties DEF StoreInv, TypeOK
<1>3. UNCHANGED <<DOMAIN heads, History(lines, kept)>>
  BY <1>1, <1>2, SameHistory
<1>4. Readable
  BY DEF StoreInv, AppendInv
<1>5. CASE Readable'
  <2>1. UNCHANGED (Readable /\ heads = kept)
    BY <1>4, <1>5
  <2> QED
    BY <1>3, <2>1, Zenon DEF Ledger!vars
<1>6. CASE ~Readable'
  <2>1. Ledger!TearLine
    BY <1>3, <1>6 DEF Ledger!TearLine
  <2> QED
    BY <2>1 DEF Ledger!Next
<1> QED
  BY <1>5, <1>6

LEMMA StepsImplementLedger ==
    ASSUME StoreInv, StoreInv', [Next]_vars
    PROVE  [Ledger!Next]_(Ledger!vars)
<1>1. CASE UNCHANGED <<lines, heads, kept>>
  BY <1>1 DEF Ledger!vars, History, Readable, ChainOf
<1>2. CASE WriteEvent
  BY <1>2, TextIsTear DEF WriteEvent
<1>3. CASE WriteHead
  BY <1>3, WriteHeadIsAppend
<1>4. ASSUME NEW s \in Branches, NEW t \in Branches, Fork(s, t)
      PROVE  [Ledger!Next]_(Ledger!vars)
  BY <1>4, ForkIsFork
<1>5. CASE KillProcess
  <2>1. CASE UNCHANGED <<lines, terminated>>
    BY <1>1, <1>5, <2>1 DEF KillProcess
  <2>2. ASSUME append.stage = "write",
               NEW reads \in {"error", "skipped"}, AddText(append.event, reads)
        PROVE  [Ledger!Next]_(Ledger!vars)
    BY <1>5, <2>2, TextIsTear DEF KillProcess
  <2> QED
    BY <1>5, <2>1, <2>2 DEF KillProcess
<1>6. CASE LosePower
  BY <1>6, LosePowerLosesHeads
<1> QED
  BY <1>1, <1>2, <1>3, <1>4, <1>5, <1>6
     DEF Next, vars, BeginAppend, WriteNewline, SyncEvents, WriteBackHeads

\* The files keep the promise of the ledger: a branch gets longer by the event
\* whose head is written, a fork begins like its source, an event that is lost
\* in an unfinished line costs the ability to read the whole history and nothing
\* that was recorded, and only a power loss takes events back.
THEOREM FilesImplementLedger == Spec => ImplementsLedger
<1>1. Init => Ledger!Init
  <2>1. ASSUME Init PROVE Ledger!Init
    <3>1. /\ lines = <<>> /\ heads = [b \in {Main} |-> None] /\ kept = heads /\ StoreInv
      BY <2>1, InitInv DEF Init
    <3>2. ChainOf(lines, None) = <<>>
      BY <3>1, ChainOfNone DEF StoreInv, LinesInv
    <3>3. BodiesOf(<<>>) = <<>>
      <4>1. <<>> \in Seq(Event) /\ Len(<<>>) = 0
        OBVIOUS
      <4> QED
        BY <4>1, BodiesTypes, EmptySeq
    <3>4. History(lines, kept) = [b \in Branches |-> <<>>] /\ DOMAIN heads = {Main}
      BY <3>1, <3>2, <3>3 DEF History
    <3>5. (Readable /\ heads = kept) = TRUE
      BY <3>1 DEF Readable
    <3> QED
      BY <3>4, <3>5 DEF Ledger!Init
  <2> QED
    BY <2>1
<1>2. StoreInv /\ [Next]_vars => StoreInv' /\ [Ledger!Next]_(Ledger!vars)
  BY StepsKeep, StepsImplementLedger
<1> QED
  BY <1>1, <1>2, InitInv, PTL DEF Spec, ImplementsLedger, Ledger!Spec

=============================================================================
