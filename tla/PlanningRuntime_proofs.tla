------------------------ MODULE PlanningRuntime_proofs ------------------------
(***************************************************************************)
(* Theorems about PlanningRuntime, for any number of processes, branches,  *)
(* candidates, decisions and operations, and any number of processes that  *)
(* are killed.                                                             *)
(***************************************************************************)
EXTENDS PlanningRuntime, SequenceTheorems, WellFoundedInduction, TLAPS

-----------------------------------------------------------------------------
(* The inductive invariant *)

Committing == {"lock", "event", "checkpoint", "head"}
Deciding == {"decide", "apply", "dispatch", "answer", "replace"}
Forking == {"parent", "create", "lineage", "firsthead"}
Steps == {"idle", "resume", "replay"} \cup Committing \cup Deciding \cup Forking

\* The variables that only one kind of value fits. (TypeOK and more.)
TypeInv ==
    /\ events \subseteq Seq(Content) /\ checkpoints \subseteq events
    /\ lineage \in [Branches -> Lineages \cup {None}]
    /\ head \in [Branches -> Heads \cup {None}]
    /\ lock \in [Branches -> Processes \cup {None}]
    /\ pc \in [Processes -> Steps]
    /\ op \in [Processes -> Operations \cup {None}]
    /\ \A p \in Processes : pc[p] = "idle" <=> op[p] = None
    /\ started \in 0..MaxOperations /\ crashes \in 0..MaxCrashes

\* The output of the newest of the first n events that has one is x.
IsStateAt(e, n, x) ==
    \E i \in 1..n : /\ e[i].output = x /\ x # None
                    /\ \A j \in (i + 1)..n : e[j].output = None

\* A history begins with the only event that has no input, and every other has
\* the state as its input that the events before it led to.
IsHistory(e) ==
    /\ e[1].input = None /\ e[1].output = <<>>
    /\ \A n \in 2..Len(e) : e[n].input # None /\ IsStateAt(e, n - 1, e[n].input)

\* An event and all before it are stored, each with its checkpoint.
IsKept(e, stored) == \A n \in 1..Len(e) : SubSeq(e, 1, n) \in stored

\* Every stored event was made at the end of its branch, whether or not a head
\* was ever written for it.
EventInv ==
    \A e \in events :
        /\ e # <<>> /\ IsHistory(e) /\ IsKept(Front(e), checkpoints)
        /\ head[Last(e).branch] # None
        /\ IsPrefix(Front(e), head[Last(e).branch].event)

\* What a branch can start from.
IsBase(base, stored) == base = NoLineage \/ \E e \in stored : base = CheckpointOf(e)

BranchInv ==
    /\ head[Main] # None
    /\ \A b \in Branches :
          /\ lineage[b] # None => IsBase(lineage[b], checkpoints)
          /\ head[b] # None =>
                /\ lineage[b] # None /\ IsPrefix(lineage[b].event, head[b].event)
                /\ IsKept(head[b].event, checkpoints) /\ head[b].revision = Len(head[b].event)

IsAttempted(e, b, state) ==
    \E i \in DOMAIN e : e[i].kind = "attempt" /\ e[i].branch = b /\ e[i].input = state

AskedInv ==
    \A a \in asked :
        /\ a.branch \in Branches /\ head[a.branch] # None
        /\ IsAttempted(head[a.branch].event, a.branch, a.input)

\* What an operation knows of the branch it works on at each of its steps.
Known(p) ==
    LET o == op[p]
        b == op[p].branch
    IN  /\ pc[p] \in Committing \cup Deciding \cup {"replay"} => head[b] # None
        /\ pc[p] \in Deciding => o.state \in State /\ head[b].event # <<>>
        /\ pc[p] \in {"event", "checkpoint", "head", "lineage", "firsthead"} => lock[b] = p
        /\ pc[p] \in {"checkpoint", "head"} =>
              o.expected = head[b].event /\ NewEvent(p) \in events
        /\ pc[p] = "head" => NewEvent(p) \in checkpoints
        /\ pc[p] = "dispatch" => IsAttempted(head[b].event, b, o.state)
        /\ pc[p] = "firsthead" => lineage[b] = o.base /\ head[b] = None

\* What an operation is, at each of its steps: a commit is of an event that was
\* made from the state in memory, and only an initialization has none.
Sound(p) ==
    LET o == op[p]
        c == op[p].content
    IN  /\ pc[p] \in Committing =>
              /\ c \in Content /\ c.branch = o.branch
              /\ c.input = None <=> o.expected = <<>>
              /\ c.input = None => c.output = <<>>
              /\ o.next \in {"idle", "decide", "apply", "dispatch"}
              /\ o.next # "idle" => o.state \in State \/ c.output # None
              /\ o.next = "dispatch" => c.kind = "attempt" /\ c.input = o.state
                                        /\ o.state \in State /\ c.output = None
        /\ pc[p] \in {"resume"} \cup Forking =>
              /\ o.next \in {"idle", "resume"} /\ o.state = None /\ IsBase(o.base, checkpoints)
              /\ pc[p] = "parent" => o.base # NoLineage
              /\ o.next = "resume" \/ pc[p] = "resume" => o.base = NoLineage

OperationInv == \A p \in Processes : Known(p) /\ Sound(p)

HistoryInv ==
    TypeInv /\ EventInv /\ BranchInv /\ AskedInv /\ OperationInv

-----------------------------------------------------------------------------
(* Numbers and sequences *)

\* A set of places in a sequence has a last one.
LEMMA LastPlace ==
    ASSUME NEW n \in Nat, NEW T \in SUBSET (1..n), T # {}
    PROVE  Max(T) \in T /\ \A y \in T : y <= Max(T)
<1> DEFINE Less == OpToRel(<, Nat)
           Rest == {n - y : y \in T}
<1>1. IsWellFoundedOn(Less, Nat)
  BY NatLessThanWellFounded
<1>2. Less = {pair \in Nat \X Nat : pair[1] < pair[2]}
  BY DEF OpToRel
<1>3. Rest \subseteq Nat /\ Rest # {}
  <2>1. \A y \in T : y \in 1..n /\ n - y \in Nat
    OBVIOUS
  <2> QED
    BY <2>1
<1> HIDE DEF Less
<1>4. PICK x \in Rest : \A y \in Rest : <<y, x>> \notin Less
  <2> HIDE DEF Rest
  <2> QED
    BY <1>1, <1>3, WFMin
<1>5. PICK z \in T : x = n - z
  BY <1>4
<1>6. \A y \in T : z >= y
  <2> SUFFICES ASSUME NEW y \in T
               PROVE  z >= y
    OBVIOUS
  <2>1. n - y \in Rest /\ n - y \in Nat /\ x \in Nat
    BY <1>3
  <2>2. ~(n - y < x)
    BY <1>2, <1>4, <2>1
  <2> QED
    BY <1>5, <2>2
<1>7. Max(T) \in T /\ \A y \in T : Max(T) >= y
  BY <1>6 DEF Max
<1> QED
  BY <1>7

LEMMA PrefixPoints ==
    ASSUME NEW S, NEW s \in Seq(S), NEW t \in Seq(S)
    PROVE  IsPrefix(s, t) <=> Len(s) <= Len(t) /\ \A i \in 1..Len(s) : s[i] = t[i]
<1>1. SubSeq(s, 1, Len(s)) = s
  BY SubSeqFull
<1>2. CASE Len(s) <= Len(t)
  <2>1. /\ SubSeq(t, 1, Len(s)) \in Seq(S) /\ Len(SubSeq(t, 1, Len(s))) = Len(s)
        /\ \A i \in 1..Len(s) : SubSeq(t, 1, Len(s))[i] = t[i]
    <3>1. \A i \in 1..Len(s) : t[i] \in S
      BY <1>2
    <3> QED
      BY <3>1, SubSeqProperties
  <2>2. s = SubSeq(t, 1, Len(s)) <=> \A i \in 1..Len(s) : s[i] = t[i]
    BY <2>1, SeqEqual
  <2> QED
    BY <1>1, <1>2, <2>2 DEF IsPrefix
<1>3. CASE ~(Len(s) <= Len(t))
  BY <1>3 DEF IsPrefix
<1> QED
  BY <1>2, <1>3

LEMMA Beginning ==
    ASSUME NEW S, NEW s \in Seq(S), NEW n \in 0..Len(s)
    PROVE  /\ SubSeq(s, 1, n) \in Seq(S) /\ Len(SubSeq(s, 1, n)) = n
           /\ \A i \in 1..n : SubSeq(s, 1, n)[i] = s[i]
           /\ IsPrefix(SubSeq(s, 1, n), s)
<1>1. \A i \in 1..n : s[i] \in S
  OBVIOUS
<1>2. /\ SubSeq(s, 1, n) \in Seq(S) /\ Len(SubSeq(s, 1, n)) = n
      /\ \A i \in 1..n : SubSeq(s, 1, n)[i] = s[i]
  BY <1>1, SubSeqProperties
<1> DEFINE t == SubSeq(s, 1, n)
<1> HIDE DEF t
<1>3. t \in Seq(S) /\ Len(t) = n /\ (\A i \in 1..n : t[i] = s[i]) /\ Len(s) \in Nat
  BY <1>2 DEF t
<1>4. IsPrefix(t, s)
  BY <1>3, PrefixPoints
<1> QED
  BY <1>2, <1>4 DEF t

\* The beginnings of two sequences, one a prefix of the other, are the same.
LEMMA SameBeginning ==
    ASSUME NEW S, NEW s \in Seq(S), NEW t \in Seq(S), IsPrefix(s, t), NEW n \in 0..Len(s)
    PROVE  SubSeq(s, 1, n) = SubSeq(t, 1, n)
<1>1. Len(s) <= Len(t) /\ \A i \in 1..Len(s) : s[i] = t[i]
  BY PrefixPoints
<1>2. n \in 0..Len(t)
  BY <1>1
<1> QED
  BY <1>1, <1>2, Beginning, SeqEqual

LEMMA Appended ==
    ASSUME NEW S, NEW s \in Seq(S), NEW x \in S
    PROVE  /\ Append(s, x) \in Seq(S) /\ Append(s, x) # <<>> /\ Len(Append(s, x)) = Len(s) + 1
           /\ \A i \in 1..Len(s) : Append(s, x)[i] = s[i]
           /\ Append(s, x)[Len(s) + 1] = x
           /\ Last(Append(s, x)) = x /\ Front(Append(s, x)) = s
           /\ IsPrefix(s, Append(s, x))
<1>1. /\ Append(s, x) \in Seq(S) /\ Append(s, x) # <<>> /\ Len(Append(s, x)) = Len(s) + 1
      /\ \A i \in 1..Len(s) : Append(s, x)[i] = s[i]
      /\ Append(s, x)[Len(s) + 1] = x
  BY AppendProperties
<1>2. IsPrefix(s, Append(s, x))
  <2> DEFINE t == Append(s, x)
  <2> HIDE DEF t
  <2>1. t \in Seq(S) /\ Len(t) = Len(s) + 1 /\ \A i \in 1..Len(s) : t[i] = s[i]
    BY <1>1 DEF t
  <2>2. IsPrefix(s, t)
    BY <2>1, PrefixPoints
  <2> QED
    BY <2>2 DEF t
<1>3. Front(Append(s, x)) = s
  <2>1. Len(s) \in 0..Len(s) /\ Len(s) \in 0..Len(Append(s, x))
    BY <1>1
  <2>2. SubSeq(s, 1, Len(s)) = SubSeq(Append(s, x), 1, Len(s))
    BY <1>1, <1>2, <2>1, SameBeginning
  <2> QED
    BY <1>1, <2>2, SubSeqFull DEF Front
<1> QED
  BY <1>1, <1>2, <1>3 DEF Last

LEMMA FrontProperties ==
    ASSUME NEW S, NEW s \in Seq(S), s # <<>>
    PROVE  /\ Len(s) \in Nat \ {0} /\ Last(s) \in S /\ Last(s) = s[Len(s)]
           /\ Front(s) \in Seq(S) /\ Len(Front(s)) = Len(s) - 1
           /\ \A i \in 1..(Len(s) - 1) : Front(s)[i] = s[i]
           /\ IsPrefix(Front(s), s)
<1>1. Len(s) \in Nat \ {0}
  BY EmptySeq
<1>2. Len(s) - 1 \in 0..Len(s) /\ Front(s) = SubSeq(s, 1, Len(s) - 1)
  BY <1>1 DEF Front
<1>3. Last(s) \in S /\ Last(s) = s[Len(s)]
  BY <1>1 DEF Last
<1> DEFINE m == Len(s) - 1
<1> HIDE DEF m
<1>4. m \in 0..Len(s) /\ Front(s) = SubSeq(s, 1, m)
  BY <1>2 DEF m
<1>5. /\ Front(s) \in Seq(S) /\ Len(Front(s)) = m /\ (\A i \in 1..m : Front(s)[i] = s[i])
      /\ IsPrefix(Front(s), s)
  BY <1>4, Beginning
<1> QED
  BY <1>1, <1>3, <1>5 DEF m

LEMMA PrefixTransitive ==
    ASSUME NEW S, NEW s \in Seq(S), NEW t \in Seq(S), NEW u \in Seq(S),
           IsPrefix(s, t), IsPrefix(t, u)
    PROVE  IsPrefix(s, u)
  BY PrefixPoints

LEMMA PrefixItself ==
    ASSUME NEW S, NEW s \in Seq(S)
    PROVE  IsPrefix(s, s) /\ IsPrefix(<<>>, s)
<1>1. IsPrefix(s, s)
  BY PrefixPoints
<1> DEFINE t == SubSeq(s, 1, 0)
<1>2. t = <<>> /\ IsPrefix(t, s)
  BY SubSeqEmpty, Beginning
<1> QED
  BY <1>1, <1>2

LEMMA States ==
    /\ <<>> \in State
    /\ \A s \in State : s \in Seq(Candidates) /\ Len(s) \in 0..MaxDecisions
    /\ \A s \in State, c \in Candidates : Len(s) < MaxDecisions => Append(s, c) \in State
<1>1. \A s : s \in State <=> s \in Seq(Candidates) /\ Len(s) <= MaxDecisions
  <2>1. ASSUME NEW s \in State
        PROVE  s \in Seq(Candidates) /\ Len(s) <= MaxDecisions
    <3>1. PICK n \in 0..MaxDecisions : s \in [1..n -> Candidates]
      BY DEF State
    <3> QED
      BY <3>1, HistoryConstants, SeqDef, LenProperties
  <2>2. ASSUME NEW s \in Seq(Candidates), Len(s) <= MaxDecisions
        PROVE  s \in State
    <3>1. s \in [1..Len(s) -> Candidates] /\ Len(s) \in 0..MaxDecisions
      BY <2>2, HistoryConstants, LenProperties
    <3> QED
      BY <3>1 DEF State
  <2> QED
    BY <2>1, <2>2
<1>2. <<>> \in State
  <2>1. <<>> \in Seq(Candidates) /\ Len(<<>>) = 0 /\ 0 <= MaxDecisions
    BY HistoryConstants, EmptySeq
  <2> QED
    BY <1>1, <2>1, Zenon
<1>3. ASSUME NEW s \in State, NEW c \in Candidates, Len(s) < MaxDecisions
      PROVE  Append(s, c) \in State
  <2>1. s \in Seq(Candidates) /\ Len(s) + 1 <= MaxDecisions
    BY <1>1, <1>3, HistoryConstants, LenProperties
  <2>2. Append(s, c) \in Seq(Candidates) /\ Len(Append(s, c)) = Len(s) + 1
    BY <2>1, AppendProperties
  <2>3. Append(s, c) \in Seq(Candidates) /\ Len(Append(s, c)) <= MaxDecisions
    BY <2>1, <2>2
  <2> QED
    BY <1>1, <2>3, Zenon
<1> QED
  BY <1>1, <1>2, <1>3, HistoryConstants, LenProperties

-----------------------------------------------------------------------------
(* Histories *)

LEMMA SameState ==
    ASSUME NEW s, NEW t, NEW n \in Nat, \A i \in 1..n : s[i] = t[i], NEW x
    PROVE  IsStateAt(s, n, x) <=> IsStateAt(t, n, x)
<1>1. \A i \in 1..n : \A j \in (i + 1)..n : j \in 1..n
  OBVIOUS
<1> QED
  BY <1>1 DEF IsStateAt

LEMMA OneState ==
    ASSUME NEW e, NEW n \in Nat, NEW x, NEW y, IsStateAt(e, n, x), IsStateAt(e, n, y)
    PROVE  x = y
<1>1. PICK i \in 1..n : e[i].output = x /\ x # None /\ \A j \in (i + 1)..n : e[j].output = None
  BY DEF IsStateAt
<1>2. PICK k \in 1..n : e[k].output = y /\ y # None /\ \A j \in (k + 1)..n : e[j].output = None
  BY DEF IsStateAt
<1>3. ~(i < k) /\ ~(k < i)
  BY <1>1, <1>2
<1>4. i = k
  BY <1>3
<1> QED
  BY <1>1, <1>2, <1>4

\* The operator the program computes the state with is the newest output.
LEMMA CurrentIsState ==
    ASSUME NEW e \in Seq(Content), e # <<>>, IsHistory(e), NEW base
    PROVE  IsStateAt(e, Len(e), CurrentState(base, e)) /\ CurrentState(base, e) \in State
<1> DEFINE outputs == {i \in DOMAIN e : e[i].output # None}
<1>1. Len(e) \in Nat /\ Len(e) >= 1 /\ DOMAIN e = 1..Len(e)
  BY EmptySeq, LenProperties
<1>2. outputs \in SUBSET (1..Len(e)) /\ outputs # {}
  <2>1. 1 \in DOMAIN e /\ <<>> # None
    BY <1>1, States, NoneIsNothing
  <2>2. 1 \in outputs
    BY <2>1 DEF IsHistory
  <2> QED
    BY <1>1, <2>2
<1>3. CurrentState(base, e) = e[Max(outputs)].output
  BY <1>2 DEF CurrentState
<1>4. Max(outputs) \in outputs /\ \A y \in outputs : y <= Max(outputs)
  <2> HIDE DEF outputs
  <2> QED
    BY <1>1, <1>2, LastPlace
<1> DEFINE m == Max(outputs)
<1>5. m \in 1..Len(e) /\ e[m].output # None /\ \A y \in DOMAIN e : e[y].output # None => y <= m
  BY <1>1, <1>4
<1> HIDE DEF m
<1>6. \A j \in (m + 1)..Len(e) : e[j].output = None
  BY <1>1, <1>5
<1>7. e[m].output \in State
  <2>1. e[m] \in Content
    BY <1>1, <1>5, ElementOfSeq
  <2> QED
    BY <1>5, <2>1 DEF Content
<1> QED
  BY <1>3, <1>5, <1>6, <1>7 DEF IsStateAt, m

LEMMA HistoryBegins ==
    ASSUME NEW e \in Seq(Content), IsHistory(e), NEW n \in 1..Len(e)
    PROVE  IsHistory(SubSeq(e, 1, n)) /\ SubSeq(e, 1, n) # <<>>
<1> DEFINE t == SubSeq(e, 1, n)
<1>1. n \in Nat /\ n \in 0..Len(e) /\ Len(e) \in Nat /\ 1 <= n
  BY LenProperties
<1>2. t \in Seq(Content) /\ Len(t) = n /\ \A i \in 1..n : t[i] = e[i]
  BY <1>1, Beginning
<1> HIDE DEF t
<1>3. ASSUME NEW k \in 2..n
      PROVE  t[k].input # None /\ IsStateAt(t, k - 1, t[k].input)
  <2>1. e[k].input # None /\ IsStateAt(e, k - 1, e[k].input)
    BY <1>1 DEF IsHistory
  <2>2. k - 1 \in Nat /\ \A i \in 1..(k - 1) : e[i] = t[i]
    BY <1>1, <1>2
  <2>3. t[k] = e[k]
    BY <1>1, <1>2
  <2> QED
    BY <2>1, <2>2, <2>3, SameState
<1>4. t[1] = e[1] /\ t # <<>>
  BY <1>1, <1>2, EmptySeq
<1> QED
  BY <1>2, <1>3, <1>4 DEF IsHistory, t

LEMMA HistoryGrows ==
    ASSUME NEW e \in Seq(Content), NEW c \in Content,
           e = <<>> => c.input = None /\ c.output = <<>>,
           e # <<>> => IsHistory(e) /\ c.input # None /\ IsStateAt(e, Len(e), c.input)
    PROVE  IsHistory(Append(e, c))
<1> DEFINE t == Append(e, c)
<1>1. /\ t \in Seq(Content) /\ Len(t) = Len(e) + 1 /\ Len(e) \in Nat
      /\ (\A i \in 1..Len(e) : t[i] = e[i]) /\ t[Len(e) + 1] = c
  BY Appended, LenProperties
<1> HIDE DEF t
<1>2. CASE e = <<>>
  <2>1. Len(e) = 0
    BY <1>2, EmptySeq
  <2>2. t[1] = c /\ Len(t) = 1
    BY <1>1, <2>1
  <2> QED
    BY <1>2, <2>2 DEF IsHistory, t
<1>3. CASE e # <<>>
  <2>1. Len(e) >= 1
    BY <1>1, <1>3, EmptySeq
  <2>2. t[1] = e[1]
    BY <1>1, <2>1
  <2>3. ASSUME NEW k \in 2..Len(t)
        PROVE  t[k].input # None /\ IsStateAt(t, k - 1, t[k].input)
    <3>1. k - 1 \in Nat /\ \A i \in 1..(k - 1) : e[i] = t[i]
      BY <1>1
    <3>2. CASE k <= Len(e)
      <4>1. t[k] = e[k] /\ e[k].input # None /\ IsStateAt(e, k - 1, e[k].input)
        BY <1>1, <1>3, <3>2 DEF IsHistory
      <4> QED
        BY <3>1, <4>1, SameState
    <3>3. CASE k = Len(e) + 1
      <4>1. t[k] = c /\ k - 1 = Len(e)
        BY <1>1, <3>3
      <4> QED
        BY <1>3, <3>1, <4>1, SameState
    <3> QED
      BY <1>1, <3>2, <3>3
  <2> QED
    BY <1>3, <2>2, <2>3 DEF IsHistory, t
<1> QED
  BY <1>2, <1>3

LEMMA KeptGrows ==
    ASSUME NEW stored, NEW e \in Seq(Content), NEW c \in Content, IsKept(e, stored), Append(e, c) \in stored
    PROVE  IsKept(Append(e, c), stored)
<1> DEFINE t == Append(e, c)
<1>1. /\ t \in Seq(Content) /\ Len(t) = Len(e) + 1 /\ Len(e) \in Nat /\ IsPrefix(e, t)
      /\ t \in stored
  BY Appended, LenProperties
<1> HIDE DEF t
<1>2. ASSUME NEW n \in 1..Len(t)
      PROVE  SubSeq(t, 1, n) \in stored
  <2>1. CASE n <= Len(e)
    <3>1. SubSeq(t, 1, n) = SubSeq(e, 1, n)
      BY <1>1, <2>1, SameBeginning
    <3>2. n \in 1..Len(e)
      BY <1>1, <2>1
    <3>3. SubSeq(e, 1, n) \in stored
      BY <3>2, Zenon DEF IsKept
    <3> QED
      BY <3>1, <3>3
  <2>2. CASE n = Len(t)
    BY <1>1, <2>2, SubSeqFull
  <2> QED
    BY <1>1, <2>1, <2>2
<1> QED
  BY <1>2 DEF IsKept, t

LEMMA KeptBegins ==
    ASSUME NEW stored, NEW e \in Seq(Content), NEW t \in Seq(Content), IsPrefix(t, e), IsKept(e, stored)
    PROVE  IsKept(t, stored)
<1>1. Len(t) \in Nat /\ Len(e) \in Nat /\ Len(t) <= Len(e)
  BY PrefixPoints, LenProperties
<1>2. ASSUME NEW n \in 1..Len(t)
      PROVE  SubSeq(t, 1, n) \in stored
  <2>1. SubSeq(t, 1, n) = SubSeq(e, 1, n)
    BY <1>1, SameBeginning
  <2>2. n \in 1..Len(e)
    BY <1>1
  <2>3. SubSeq(e, 1, n) \in stored
    BY <2>2, Zenon DEF IsKept
  <2> QED
    BY <2>1, <2>3
<1> QED
  BY <1>2 DEF IsKept

LEMMA AttemptStays ==
    ASSUME NEW e \in Seq(Content), NEW t \in Seq(Content), IsPrefix(e, t), NEW b, NEW x,
           IsAttempted(e, b, x)
    PROVE  IsAttempted(t, b, x)
<1>1. Len(e) \in Nat /\ Len(t) \in Nat /\ Len(e) <= Len(t) /\ DOMAIN e = 1..Len(e)
      /\ DOMAIN t = 1..Len(t) /\ \A i \in 1..Len(e) : e[i] = t[i]
  BY PrefixPoints, LenProperties
<1> QED
  BY <1>1 DEF IsAttempted

-----------------------------------------------------------------------------
(* Steps *)

\* What a step of p leaves to the others: their operations, their locks, what
\* is stored, and the branches that p has not locked; a head only moves on.
Grows(p) ==
    /\ \A q \in Processes \ {p} : pc'[q] = pc[q] /\ op'[q] = op[q]
    /\ \A b \in Branches : lock[b] \notin {p, None} => lock'[b] = lock[b]
    /\ events \subseteq events' /\ checkpoints \subseteq checkpoints'
    /\ \A b \in Branches :
          /\ head[b] # None => head'[b] # None /\ IsPrefix(head[b].event, head'[b].event)
          /\ lock[b] # p => head'[b] = head[b] /\ lineage'[b] = lineage[b]

LEMMA BaseStays ==
    ASSUME NEW s, NEW t, s \subseteq t, NEW base, IsBase(base, s)
    PROVE  IsBase(base, t)
  BY DEF IsBase

LEMMA HeadTypes ==
    ASSUME TypeInv, NEW b \in Branches, head[b] # None
    PROVE  /\ head[b] \in Heads /\ head[b].event \in Seq(Content) /\ head[b].revision \in Nat
  BY DEF TypeInv, Heads

LEMMA OperationTypes ==
    ASSUME NEW o \in Operations
    PROVE  /\ o # None /\ o.branch \in Branches /\ o.base \in Lineages
           /\ o.state \in State \cup {None} /\ o.content \in Content \cup {None}
           /\ o.expected \in Seq(Content) /\ o.explicit \in Nat
           /\ o.next \in {"idle", "resume", "decide", "apply", "dispatch"}
  BY NoneIsNothing DEF Operations

LEMMA OthersKnow ==
    ASSUME HistoryInv, TypeInv', NEW p \in Processes, Grows(p), NEW q \in Processes \ {p}
    PROVE  Known(q)' /\ Sound(q)'
<1>0. TypeInv /\ Known(q) /\ Sound(q) /\ pc'[q] = pc[q] /\ op'[q] = op[q]
  BY DEF HistoryInv, OperationInv, Grows
<1>1. CASE pc[q] = "idle"
  BY <1>0, <1>1 DEF Known, Sound, Committing, Deciding, Forking
<1>2. CASE pc[q] # "idle"
  <2> DEFINE b == op[q].branch
  <2>1. op[q] \in Operations /\ b \in Branches
    BY <1>0, <1>2, OperationTypes DEF TypeInv
  <2> HIDE DEF b
  <2>2. head[b] # None => /\ head'[b] # None /\ head[b].event \in Seq(Content)
                          /\ head'[b].event \in Seq(Content)
                          /\ IsPrefix(head[b].event, head'[b].event)
    <3>1. head'[b] # None => head'[b] \in Heads
      BY <1>0, <2>1 DEF TypeInv
    <3> QED
      BY <1>0, <2>1, <3>1, HeadTypes DEF Grows, Heads
  <2>3. lock[b] = q => lock'[b] = q /\ head'[b] = head[b] /\ lineage'[b] = lineage[b]
    <3>1. q # None /\ q # p
      BY HistoryConstants
    <3> QED
      BY <2>1, <3>1 DEF Grows
  <2>4. events \subseteq events' /\ checkpoints \subseteq checkpoints'
    BY DEF Grows
  <2>5. head[b] # None /\ head[b].event # <<>> => head'[b].event # <<>>
    BY <2>2, PrefixPoints, EmptySeq
  <2>6. IsAttempted(head[b].event, b, op[q].state) /\ head[b] # None
           => IsAttempted(head'[b].event, b, op[q].state)
    BY <2>2, AttemptStays
  <2>7. NewEvent(q)' = NewEvent(q)
    BY <1>0 DEF NewEvent
  <2>8. Known(q)'
    BY <1>0, <2>2, <2>3, <2>4, <2>5, <2>6, <2>7 DEF Known, b, Deciding, Committing
  <2>9. Sound(q)'
    BY <1>0, <2>4, BaseStays DEF Sound
  <2> QED
    BY <2>8, <2>9
<1> QED
  BY <1>1, <1>2

\* A step that adds no event and changes no branch leaves the history as it is.
LEMMA GrowsKeeps ==
    ASSUME HistoryInv, TypeInv', NEW p \in Processes, Grows(p)
    PROVE  /\ asked' = asked => AskedInv'
           /\ events' = events => EventInv'
           /\ \A b \in Branches :
                 /\ lineage'[b] = lineage[b] /\ lineage[b] # None =>
                       IsBase(lineage'[b], checkpoints')
                 /\ IsKept(head[b].event, checkpoints) => IsKept(head[b].event, checkpoints')
           /\ lineage' = lineage /\ head' = head => BranchInv'
<1>0. TypeInv /\ EventInv /\ BranchInv /\ AskedInv /\ checkpoints \subseteq checkpoints'
  BY DEF HistoryInv, Grows
<1>1. \A e : IsKept(e, checkpoints) => IsKept(e, checkpoints')
  BY <1>0 DEF IsKept
<1>2. ASSUME NEW b \in Branches, head[b] # None
      PROVE  /\ head'[b] # None /\ head[b].event \in Seq(Content)
             /\ head'[b].event \in Seq(Content) /\ IsPrefix(head[b].event, head'[b].event)
  <2>1. head'[b] # None => head'[b] \in Heads
    BY DEF TypeInv
  <2> QED
    BY <1>0, <1>2, <2>1, HeadTypes DEF Grows, Heads
<1>3. ASSUME asked' = asked
      PROVE  AskedInv'
  <2>1. ASSUME NEW a \in asked
        PROVE  /\ a.branch \in Branches /\ head'[a.branch] # None
               /\ IsAttempted(head'[a.branch].event, a.branch, a.input)
    <3>1. a.branch \in Branches /\ head[a.branch] # None
          /\ IsAttempted(head[a.branch].event, a.branch, a.input)
      BY <1>0 DEF AskedInv
    <3> QED
      BY <1>2, <3>1, AttemptStays
  <2> QED
    BY <1>3, <2>1 DEF AskedInv
<1>4. ASSUME NEW e \in events
      PROVE  /\ e # <<>> /\ IsHistory(e) /\ IsKept(Front(e), checkpoints')
             /\ head'[Last(e).branch] # None
             /\ IsPrefix(Front(e), head'[Last(e).branch].event)
  <2>1. /\ e # <<>> /\ IsHistory(e) /\ IsKept(Front(e), checkpoints)
        /\ head[Last(e).branch] # None /\ e \in Seq(Content)
        /\ IsPrefix(Front(e), head[Last(e).branch].event)
    BY <1>0 DEF EventInv, TypeInv
  <2>2. Front(e) \in Seq(Content) /\ Last(e).branch \in Branches
    <3>1. Front(e) \in Seq(Content) /\ Last(e) \in Content
      BY <2>1, FrontProperties
    <3> QED
      BY <3>1 DEF Content
  <2>3. IsPrefix(Front(e), head'[Last(e).branch].event) /\ head'[Last(e).branch] # None
    BY <1>2, <2>1, <2>2, PrefixTransitive
  <2> QED
    BY <1>1, <2>1, <2>3
<1>5. ASSUME lineage' = lineage, head' = head
      PROVE  BranchInv'
  BY <1>0, <1>1, <1>5, BaseStays DEF BranchInv
<1> QED
  BY <1>0, <1>1, <1>3, <1>4, <1>5, BaseStays DEF EventInv, BranchInv

\* A step that only changes the operation of p, and perhaps its locks.
LEMMA LocalKeeps ==
    ASSUME HistoryInv, NEW p \in Processes, NEW step \in Steps,
           NEW o \in Operations \cup {None}, step = "idle" <=> o = None,
           Goes(p, step), op' = [op EXCEPT ![p] = o], UNCHANGED <<store, asked>>,
           \/ lock' = lock \/ Release(p)
           \/ \E b \in Branches : lock[b] = None /\ lock' = [lock EXCEPT ![b] = p],
           started' \in 0..MaxOperations, crashes' \in 0..MaxCrashes,
           pc'[p] = step /\ op'[p] = o => Known(p)' /\ Sound(p)'
    PROVE  HistoryInv'
<1>0. TypeInv
  BY DEF HistoryInv
<1>1. pc'[p] = step /\ op'[p] = o /\ \A q \in Processes \ {p} : pc'[q] = pc[q] /\ op'[q] = op[q]
  BY <1>0 DEF TypeInv, Goes
<1>2. lock' \in [Branches -> Processes \cup {None}]
  BY <1>0 DEF TypeInv, Release
<1>3. TypeInv'
  BY <1>0, <1>1, <1>2 DEF TypeInv, Goes, store
<1>4. Grows(p)
  <2>1. \A b \in Branches : lock[b] \notin {p, None} => lock'[b] = lock[b]
    BY <1>0 DEF TypeInv, Release
  <2>2. ASSUME NEW b \in Branches, head[b] # None
        PROVE  head'[b] # None /\ IsPrefix(head[b].event, head'[b].event)
    BY <1>0, <2>2, HeadTypes, PrefixItself DEF store
  <2> QED
    BY <1>1, <2>1, <2>2 DEF Grows, store
<1>5. EventInv' /\ BranchInv' /\ AskedInv'
  BY <1>3, <1>4, GrowsKeeps DEF store
<1>6. OperationInv'
  BY <1>1, <1>3, <1>4, OthersKnow DEF OperationInv
<1> QED
  BY <1>3, <1>5, <1>6 DEF HistoryInv

LEMMA EndsKeeps ==
    ASSUME HistoryInv, NEW p \in Processes, EndsNow(p), UNCHANGED <<store, asked, started>>,
           lock' = lock \/ Release(p), crashes' \in 0..MaxCrashes
    PROVE  HistoryInv'
<1>1. Goes(p, "idle") /\ op' = [op EXCEPT ![p] = None] /\ started \in 0..MaxOperations
  BY DEF EndsNow, Goes, HistoryInv, TypeInv
<1>2. pc'[p] = "idle" => Known(p)' /\ Sound(p)'
  BY DEF Known, Sound, Committing, Deciding, Forking
<1>3. "idle" \in Steps
  BY DEF Steps
<1> QED
  BY <1>1, <1>2, <1>3, LocalKeeps

\* An event is made from the state in memory, to follow the head named or read.
LEMMA RecordKeeps ==
    ASSUME HistoryInv, NEW p \in Processes, NEW expected \in Seq(Content), NEW kind \in Kinds,
           NEW output \in State \cup {None}, NEW next \in {"idle", "decide", "apply", "dispatch"},
           RecordAfter(p, expected, kind, output, next), UNCHANGED asked,
           op[p] \in Operations, head[op[p].branch] # None,
           op[p].state = None <=> expected = <<>>,
           op[p].state = None => output = <<>>,
           next = "dispatch" => kind = "attempt" /\ output = None /\ op[p].state # None
    PROVE  HistoryInv'
<1>0. TypeInv /\ op[p].branch \in Branches /\ op[p].state \in State \cup {None} /\ op[p].explicit \in Nat
  BY OperationTypes DEF HistoryInv
<1> DEFINE explicit == IF op[p].explicit = 0 \/ kind = "initialization" THEN op[p].explicit
                       ELSE op[p].explicit - 1
           content == [branch |-> op[p].branch, kind |-> kind, input |-> op[p].state,
                       output |-> output]
           o == [op[p] EXCEPT !.next = next, !.expected = expected, !.explicit = explicit,
                              !.content = content]
<1>1. explicit \in Nat /\ content \in Content
  BY <1>0 DEF Content
<1>2. /\ content.branch = op[p].branch /\ content.kind = kind /\ content.input = op[p].state
      /\ content.output = output
  OBVIOUS
<1>3. op' = [op EXCEPT ![p] = o] /\ Goes(p, "lock") /\ UNCHANGED <<store, lock, started, crashes>>
  BY DEF RecordAfter
<1> HIDE DEF explicit, content
<1>4. o \in Operations /\ o.next = next /\ o.expected = expected /\ o.content = content
      /\ o.branch = op[p].branch /\ o.state = op[p].state
  BY <1>1 DEF Operations
<1> HIDE DEF o
<1>5. ASSUME pc'[p] = "lock", op'[p] = o
      PROVE  Known(p)' /\ Sound(p)'
  <2>1. Known(p)'
    BY <1>3, <1>4, <1>5 DEF Known, Committing, Deciding, store
  <2>2. output = <<>> => output # None
    BY States, NoneIsNothing
  <2>3. Sound(p)'
    BY <1>0, <1>1, <1>2, <1>4, <1>5, <2>2 DEF Sound, Committing, Forking
  <2> QED
    BY <2>1, <2>3
<1>6. o # None /\ "lock" \in Steps /\ started \in 0..MaxOperations /\ crashes \in 0..MaxCrashes
  BY <1>0, <1>4, OperationTypes DEF Steps, Committing, TypeInv
<1> QED
  BY <1>3, <1>4, <1>5, <1>6, LocalKeeps

\* The same, of a step that decides: the branch is not empty.
LEMMA DecidingRecords ==
    ASSUME HistoryInv, NEW p \in Processes, pc[p] \in Deciding, NEW kind \in Kinds,
           NEW output \in State \cup {None}, NEW next \in {"idle", "decide", "apply", "dispatch"},
           Record(p, kind, output, next), UNCHANGED asked,
           next = "dispatch" => kind = "attempt" /\ output = None
    PROVE  HistoryInv'
<1>1. /\ op[p] \in Operations /\ op[p].branch \in Branches /\ head[op[p].branch] # None
      /\ op[p].state \in State /\ head[op[p].branch].event # <<>>
      /\ head[op[p].branch].event \in Seq(Content)
  <2>1. pc[p] # "idle" /\ Known(p) /\ TypeInv
    BY DEF Deciding, HistoryInv, OperationInv
  <2>2. op[p] \in Operations
    BY <2>1 DEF TypeInv
  <2> QED
    BY <2>1, <2>2, OperationTypes, HeadTypes DEF Known
<1>2. op[p].state # None
  BY <1>1, NoneIsNothing
<1> QED
  BY <1>1, <1>2, RecordKeeps DEF Record

LEMMA SelectKeeps ==
    ASSUME HistoryInv, NEW p \in Processes, pc[p] \in Deciding, Select(p, "decide"), UNCHANGED asked
    PROVE  HistoryInv'
<1>1. op[p].state \in State
  BY DEF HistoryInv, OperationInv, Known
<1>2. PICK c \in Candidates : Record(p, "decision", Append(op[p].state, c), "decide")
  BY DEF Select
<1>3. Append(op[p].state, c) \in State /\ "decision" \in Kinds
  BY <1>1, States DEF Select, Kinds
<1> QED
  BY <1>2, <1>3, DecidingRecords

LEMMA ApplyKeeps ==
    ASSUME HistoryInv, NEW p \in Processes, pc[p] \in Deciding, Apply(p), UNCHANGED asked
    PROVE  HistoryInv'
<1>1. op[p].state \in State
  BY DEF HistoryInv, OperationInv, Known
<1> QED
  BY <1>1, SelectKeeps, DecidingRecords DEF Apply, Kinds

-----------------------------------------------------------------------------
(* Replay *)

\* Every branch that is not empty is a history.
LEMMA BranchHistory ==
    ASSUME HistoryInv, NEW b \in Branches, head[b] # None, head[b].event # <<>>
    PROVE  /\ head[b].event \in events /\ head[b].event \in Seq(Content)
           /\ IsHistory(head[b].event)
<1> DEFINE e == head[b].event
<1>1. e \in Seq(Content) /\ IsKept(e, checkpoints) /\ checkpoints \subseteq events
  BY HeadTypes DEF HistoryInv, BranchInv, TypeInv
<1> HIDE DEF e
<1>2. Len(e) \in 1..Len(e) /\ SubSeq(e, 1, Len(e)) = e
  BY <1>1, SubSeqFull, EmptySeq, LenProperties DEF e
<1>3. e \in events
  BY <1>1, <1>2 DEF IsKept
<1> QED
  BY <1>1, <1>3 DEF e, HistoryInv, EventInv

\* The state a branch starts from is the one its first events lead to.
LEMMA BaseIsState ==
    ASSUME HistoryInv, NEW base, IsBase(base, checkpoints)
    PROVE  /\ base.event \in Seq(Content)
           /\ base.event = <<>> => base.state = None
           /\ base.event # <<>> => /\ base.state # None
                                   /\ IsStateAt(base.event, Len(base.event), base.state)
           /\ IsKept(base.event, checkpoints)
<1>1. CASE base = NoLineage
  <2>1. base.event = <<>> /\ base.state = None
    BY <1>1 DEF NoLineage
  <2>2. <<>> \in Seq(Content) /\ Len(<<>>) = 0
    BY EmptySeq
  <2>3. IsKept(<<>>, checkpoints)
    BY <2>2 DEF IsKept
  <2> QED
    BY <2>1, <2>2, <2>3
<1>2. ASSUME NEW c \in checkpoints, base = CheckpointOf(c)
      PROVE  /\ base.event \in Seq(Content)
             /\ base.event = <<>> => base.state = None
             /\ base.event # <<>> => /\ base.state # None
                                     /\ IsStateAt(base.event, Len(base.event), base.state)
             /\ IsKept(base.event, checkpoints)
  <2>1. c \in Seq(Content) /\ c # <<>> /\ IsHistory(c) /\ IsKept(Front(c), checkpoints)
    BY DEF HistoryInv, TypeInv, EventInv
  <2>2. base.event = Front(c) /\ base.state = Last(c).input
    BY <1>2 DEF CheckpointOf
  <2> DEFINE f == Front(c)
  <2>3. /\ f \in Seq(Content) /\ Len(f) = Len(c) - 1 /\ Len(c) \in Nat \ {0}
        /\ Last(c) = c[Len(c)] /\ \A i \in 1..(Len(c) - 1) : f[i] = c[i]
    BY <2>1, FrontProperties
  <2> HIDE DEF f
  <2>4. CASE Len(c) = 1
    <3>1. f = <<>>
      BY <2>3, <2>4, EmptySeq
    <3> QED
      BY <2>1, <2>2, <2>3, <2>4, <3>1 DEF IsHistory, f
  <2>5. CASE Len(c) >= 2
    <3>1. Last(c).input # None /\ IsStateAt(c, Len(c) - 1, Last(c).input)
      BY <2>1, <2>3, <2>5 DEF IsHistory
    <3>2. Len(f) \in Nat /\ \A i \in 1..Len(f) : c[i] = f[i]
      BY <2>3
    <3>3. IsStateAt(f, Len(f), Last(c).input)
      BY <2>3, <3>1, <3>2, SameState
    <3>4. f # <<>>
      BY <2>3, <2>5, EmptySeq
    <3> QED
      BY <2>1, <2>2, <2>3, <3>1, <3>3, <3>4 DEF f
  <2> QED
    BY <2>3, <2>4, <2>5
<1> QED
  BY <1>1, <1>2 DEF IsBase

LEMMA ReplayIsCurrent ==
    ASSUME HistoryInv, NEW b \in Branches, head[b] # None, head[b].event # <<>>
    PROVE  /\ Replay(b).agrees
           /\ Replay(b).state = CurrentState(lineage[b], head[b].event)
           /\ Replay(b).state \in State
<1> DEFINE e == head[b].event
           base == lineage[b]
           from == IF base.state # None THEN base.state
                   ELSE IF base.event # <<>> THEN Last(base.event).output ELSE None
           moves == {i \in DOMAIN e : i > Len(base.event) /\ e[i].output # None}
           After(done) == IF done = {} THEN from ELSE e[Max(done)].output
           n == Len(base.event)
<1>1. /\ Replay(b).agrees = \A i \in moves :
            e[i].input # None /\ After({j \in moves : j < i}) # None
               => e[i].input = After({j \in moves : j < i})
      /\ Replay(b).state = After(moves)
  BY DEF Replay
<1>2. /\ e \in Seq(Content) /\ e # <<>> /\ IsHistory(e)
      /\ IsPrefix(base.event, e) /\ IsBase(base, checkpoints)
  BY BranchHistory DEF HistoryInv, BranchInv
<1>3. /\ base.event \in Seq(Content)
      /\ base.event = <<>> => base.state = None
      /\ base.event # <<>> => base.state # None /\ IsStateAt(base.event, n, base.state)
  BY <1>2, BaseIsState
<1> HIDE DEF e, base
<1>4. /\ n \in Nat /\ Len(e) \in Nat /\ n <= Len(e) /\ Len(e) >= 1 /\ DOMAIN e = 1..Len(e)
      /\ \A i \in 1..n : base.event[i] = e[i]
      /\ n = 0 <=> base.event = <<>>
  BY <1>2, <1>3, PrefixPoints, LenProperties, EmptySeq
<1>5. n >= 1 => IsStateAt(e, n, from)
  <2> SUFFICES ASSUME n >= 1
               PROVE  IsStateAt(e, n, from)
    OBVIOUS
  <2>1. from = base.state /\ IsStateAt(base.event, n, base.state)
    BY <1>3, <1>4
  <2> QED
    BY <1>4, <2>1, SameState
<1>6. 1 \in DOMAIN e /\ e[1].output # None /\ e[1].input = None
  BY <1>2, <1>4, States, NoneIsNothing DEF IsHistory
<1> HIDE DEF from, n
<1>7. moves = {i \in 1..Len(e) : i > n /\ e[i].output # None}
  BY <1>4 DEF n
<1>8. ASSUME NEW k \in 1..Len(e), k >= n
      PROVE  IsStateAt(e, k, After({j \in moves : j <= k}))
  <2> DEFINE done == {j \in moves : j <= k}
  <2>1. \A j \in 1..Len(e) : j \in done <=> j <= k /\ j > n /\ e[j].output # None
    BY <1>7
  <2>2. done \subseteq 1..Len(e)
    BY <1>7
  <2>3. CASE done = {}
    <3>1. n >= 1
      BY <1>4, <1>6, <2>1, <2>3
    <3>2. PICK i \in 1..n : /\ e[i].output = from /\ from # None
                            /\ \A j \in (i + 1)..n : e[j].output = None
      BY <1>5, <3>1 DEF IsStateAt
    <3>3. i \in 1..k /\ \A j \in (i + 1)..k : e[j].output = None
      BY <1>4, <1>8, <2>1, <2>3, <3>2
    <3>4. After(done) = from
      BY <2>3
    <3> QED
      BY <3>2, <3>3, <3>4 DEF IsStateAt
  <2>4. CASE done # {}
    <3> DEFINE m == Max(done)
    <3>1. m \in done /\ \A y \in done : y <= m
      <4> HIDE DEF done
      <4> QED
        BY <1>4, <2>2, <2>4, LastPlace
    <3>2. After(done) = e[m].output
      BY <2>4
    <3> HIDE DEF m, done
    <3>3. m \in 1..k /\ e[m].output # None
      BY <2>1, <2>2, <3>1
    <3>4. \A j \in (m + 1)..k : e[j].output = None
      BY <1>4, <1>8, <2>1, <2>2, <3>1
    <3>5. IsStateAt(e, k, e[m].output)
      BY <3>3, <3>4 DEF IsStateAt
    <3> QED
      BY <3>2, <3>5 DEF done
  <2> QED
    BY <2>3, <2>4
<1> HIDE DEF moves, After
<1>9. Replay(b).agrees
  <2> SUFFICES ASSUME NEW i \in moves, e[i].input # None
               PROVE  e[i].input = After({j \in moves : j < i})
    BY <1>1
  <2>1. i \in 1..Len(e) /\ i > n /\ i # 1
    BY <1>6, <1>7
  <2> DEFINE k == i - 1
  <2>2. k \in 1..Len(e) /\ k >= n /\ i \in 2..Len(e)
    BY <1>4, <2>1 DEF n
  <2>3. {j \in moves : j < i} = {j \in moves : j <= k}
    BY <1>7, <2>1
  <2>4. IsStateAt(e, k, e[i].input)
    BY <1>2, <2>2 DEF IsHistory
  <2>5. IsStateAt(e, k, After({j \in moves : j <= k}))
    BY <1>8, <2>2
  <2>6. k \in Nat
    BY <2>2
  <2> HIDE DEF k
  <2>7. e[i].input = After({j \in moves : j <= k})
    BY <2>4, <2>5, <2>6, OneState
  <2> QED
    BY <2>3, <2>7
<1>10. Replay(b).state = CurrentState(base, e) /\ CurrentState(base, e) \in State
  <2>1. {j \in moves : j <= Len(e)} = moves
    BY <1>4, <1>7
  <2>2. Len(e) \in 1..Len(e) /\ Len(e) >= n /\ Len(e) \in Nat
    BY <1>4 DEF n
  <2>3. IsStateAt(e, Len(e), After({j \in moves : j <= Len(e)}))
    BY <1>8, <2>2
  <2>4. IsStateAt(e, Len(e), After(moves))
    BY <2>1, <2>3
  <2>5. IsStateAt(e, Len(e), CurrentState(base, e)) /\ CurrentState(base, e) \in State
    BY <1>2, CurrentIsState
  <2>6. After(moves) = CurrentState(base, e)
    BY <2>2, <2>4, <2>5, OneState
  <2> QED
    BY <1>1, <2>5, <2>6
<1> QED
  BY <1>9, <1>10 DEF e, base

-----------------------------------------------------------------------------
(* Operations begin and read *)

LEMMA NewOperation ==
    ASSUME NEW b \in Branches
    PROVE  /\ Operation(b) \in Operations /\ NoLineage \in Lineages
           /\ Operation(b).branch = b /\ Operation(b).next = "idle"
           /\ Operation(b).state = None /\ Operation(b).base = NoLineage
<1>1. <<>> \in Seq(Content)
  BY EmptySeq
<1>2. NoLineage \in Lineages
  BY <1>1 DEF NoLineage, Lineages
<1> HIDE DEF NoLineage
<1> QED
  BY <1>1, <1>2 DEF Operation, Operations

LEMMA BeginRunKeeps ==
    ASSUME HistoryInv, NEW p \in Processes, NEW b \in Branches, NEW explicit \in Nat,
           BeginRun(p, b, explicit), UNCHANGED asked
    PROVE  HistoryInv'
<1> DEFINE base == Operation(b)
           o == [base EXCEPT !.explicit = explicit]
<1>1. base \in Operations /\ base.next = "idle" /\ base.state = None /\ base.base = NoLineage
  BY NewOperation
<1>2. op' = [op EXCEPT ![p] = o] /\ Goes(p, "resume") /\ started < MaxOperations
      /\ started' = started + 1 /\ UNCHANGED <<store, lock, crashes>>
  BY DEF BeginRun
<1> HIDE DEF base
<1>3. o \in Operations /\ o.next = "idle" /\ o.state = None /\ o.base = NoLineage
  BY <1>1 DEF Operations
<1> HIDE DEF o
<1>4. pc'[p] = "resume" /\ op'[p] = o => Known(p)' /\ Sound(p)'
  BY <1>3 DEF Known, Sound, IsBase, Committing, Deciding, Forking
<1>5. "resume" \in Steps /\ o # None /\ started' \in 0..MaxOperations /\ crashes' \in 0..MaxCrashes
  BY <1>2, <1>3, OperationTypes, HistoryConstants DEF Steps, HistoryInv, TypeInv
<1> QED
  BY <1>2, <1>3, <1>4, <1>5, LocalKeeps

LEMMA BeginAdvanceKeeps ==
    ASSUME HistoryInv, NEW p \in Processes, NEW b \in Branches, NEW named \in BOOLEAN,
           BeginAdvance(p, b, named), UNCHANGED asked
    PROVE  HistoryInv'
<1> DEFINE base == Operation(b)
           expected == IF named THEN head[b].event ELSE <<>>
           o == [base EXCEPT !.expected = expected]
<1>1. base \in Operations /\ base.branch = b
  BY NewOperation
<1>2. op' = [op EXCEPT ![p] = o] /\ Goes(p, "replay") /\ started < MaxOperations
      /\ started' = started + 1 /\ UNCHANGED <<store, lock, crashes>> /\ head[b] # None
  BY DEF BeginAdvance
<1>3. expected \in Seq(Content)
  BY <1>2, HeadTypes, EmptySeq DEF HistoryInv
<1> HIDE DEF base, expected
<1>4. o \in Operations /\ o.branch = b
  BY <1>1, <1>3 DEF Operations
<1> HIDE DEF o
<1>5. pc'[p] = "replay" /\ op'[p] = o => Known(p)' /\ Sound(p)'
  BY <1>2, <1>4 DEF Known, Sound, Committing, Deciding, Forking, store
<1>6. "replay" \in Steps /\ o # None /\ started' \in 0..MaxOperations /\ crashes' \in 0..MaxCrashes
  BY <1>2, <1>4, OperationTypes, HistoryConstants DEF Steps, HistoryInv, TypeInv
<1> QED
  BY <1>2, <1>4, <1>5, <1>6, LocalKeeps

LEMMA CheckpointTypes ==
    ASSUME HistoryInv, NEW e \in checkpoints
    PROVE  CheckpointOf(e) \in Lineages /\ CheckpointOf(e).parent \in Branches
           /\ CheckpointOf(e) # NoLineage
<1>1. e \in Seq(Content) /\ e # <<>>
  BY DEF HistoryInv, TypeInv, EventInv
<1>2. Last(e) \in Content /\ Front(e) \in Seq(Content)
  BY <1>1, FrontProperties
<1>3. Last(e).branch \in Branches /\ Last(e).input \in State \cup {None}
  BY <1>2 DEF Content
<1>4. CheckpointOf(e) \in Lineages /\ CheckpointOf(e).parent \in Branches
  BY <1>1, <1>2, <1>3 DEF CheckpointOf, Lineages
<1>5. NoLineage.parent = None
  BY DEF NoLineage
<1> QED
  BY <1>4, <1>5, HistoryConstants

LEMMA BeginForkKeeps ==
    ASSUME HistoryInv, NEW p \in Processes, NEW e \in checkpoints, NEW b \in Branches,
           BeginFork(p, e, b), UNCHANGED asked
    PROVE  HistoryInv'
<1> DEFINE base == Operation(b)
           from == CheckpointOf(e)
           o == [base EXCEPT !.base = from]
<1>1. base \in Operations /\ base.next = "idle" /\ base.state = None
  BY NewOperation
<1>2. op' = [op EXCEPT ![p] = o] /\ Goes(p, "parent") /\ started < MaxOperations
      /\ started' = started + 1 /\ UNCHANGED <<store, lock, crashes>>
  BY DEF BeginFork
<1>3. from \in Lineages /\ from # NoLineage /\ IsBase(from, checkpoints)
  BY CheckpointTypes DEF IsBase
<1> HIDE DEF base, from
<1>4. o \in Operations /\ o.next = "idle" /\ o.state = None /\ o.base = from
  BY <1>1, <1>3 DEF Operations
<1> HIDE DEF o
<1>5. pc'[p] = "parent" /\ op'[p] = o => Known(p)' /\ Sound(p)'
  BY <1>2, <1>3, <1>4 DEF Known, Sound, Committing, Deciding, Forking, store
<1>6. "parent" \in Steps /\ o # None /\ started' \in 0..MaxOperations /\ crashes' \in 0..MaxCrashes
  BY <1>2, <1>4, OperationTypes, HistoryConstants DEF Steps, Forking, HistoryInv, TypeInv
<1> QED
  BY <1>2, <1>4, <1>5, <1>6, LocalKeeps

\* A branch is found without a head, empty, or replayed.
LEMMA ResumeKeeps ==
    ASSUME HistoryInv, NEW p \in Processes, Resume(p), UNCHANGED asked
    PROVE  HistoryInv'
<1> DEFINE b == op[p].branch
<1>0. /\ TypeInv /\ pc[p] = "resume" /\ op[p] \in Operations /\ b \in Branches
      /\ op[p].state = None /\ op[p].base = NoLineage
      /\ started \in 0..MaxOperations /\ crashes \in 0..MaxCrashes
  <2>1. TypeInv /\ pc[p] = "resume" /\ Sound(p)
    BY DEF Resume, HistoryInv, OperationInv
  <2>2. op[p] \in Operations
    BY <2>1 DEF TypeInv
  <2> QED
    BY <2>1, <2>2, OperationTypes DEF Sound, TypeInv
<1>1. CASE /\ head[b] = None /\ op' = [op EXCEPT ![p].next = "resume"] /\ Goes(p, "create")
           /\ UNCHANGED <<store, lock, started, crashes>>
  <2> DEFINE o == [op[p] EXCEPT !.next = "resume"]
  <2>1. o \in Operations /\ o.next = "resume" /\ o.state = None /\ o.base = NoLineage
    BY <1>0 DEF Operations
  <2>2. op' = [op EXCEPT ![p] = o]
    BY <1>1
  <2> HIDE DEF o
  <2>3. pc'[p] = "create" /\ op'[p] = o => Known(p)' /\ Sound(p)'
    BY <2>1 DEF Known, Sound, IsBase, Committing, Deciding, Forking
  <2>4. "create" \in Steps /\ o # None
    BY <2>1, OperationTypes DEF Steps, Forking
  <2> QED
    BY <1>0, <1>1, <2>1, <2>2, <2>3, <2>4, LocalKeeps
<1>2. CASE EndsNow(p) /\ UNCHANGED <<store, lock, started, crashes>>
  BY <1>0, <1>2, EndsKeeps
<1>3. CASE /\ head[b] # None /\ head[b].event = <<>>
           /\ Record(p, "initialization", <<>>, "decide")
  <2>1. <<>> \in Seq(Content) /\ <<>> \in State /\ "initialization" \in Kinds
    BY EmptySeq, States DEF Kinds
  <2> QED
    BY <1>0, <1>3, <2>1, RecordKeeps DEF Record
<1>4. CASE /\ head[b] # None /\ head[b].event # <<>>
           /\ op' = [op EXCEPT ![p].state = Replay(b).state] /\ Goes(p, "decide")
           /\ UNCHANGED <<store, lock, started, crashes>>
  <2> DEFINE state == Replay(b).state
             o == [op[p] EXCEPT !.state = state]
  <2>1. state \in State
    BY <1>0, <1>4, ReplayIsCurrent
  <2> HIDE DEF state
  <2>2. o \in Operations /\ o.state = state /\ o.branch = op[p].branch
    BY <1>0, <2>1 DEF Operations
  <2>3. op' = [op EXCEPT ![p] = o]
    BY <1>4 DEF state
  <2> HIDE DEF o
  <2>4. pc'[p] = "decide" /\ op'[p] = o => Known(p)' /\ Sound(p)'
    BY <1>4, <2>1, <2>2 DEF Known, Sound, Committing, Deciding, Forking, store
  <2>5. "decide" \in Steps /\ o # None
    BY <2>2, OperationTypes DEF Steps, Deciding
  <2> QED
    BY <1>0, <1>4, <2>2, <2>3, <2>4, <2>5, LocalKeeps
<1> QED
  BY <1>1, <1>2, <1>3, <1>4 DEF Resume

LEMMA ReplayPrefixKeeps ==
    ASSUME HistoryInv, NEW p \in Processes, ReplayPrefix(p), UNCHANGED asked
    PROVE  HistoryInv'
<1> DEFINE b == op[p].branch
<1>0. /\ TypeInv /\ pc[p] = "replay" /\ op[p] \in Operations /\ b \in Branches /\ head[b] # None
      /\ started \in 0..MaxOperations /\ crashes \in 0..MaxCrashes
  <2>1. TypeInv /\ pc[p] = "replay" /\ Known(p)
    BY DEF ReplayPrefix, HistoryInv, OperationInv
  <2>2. op[p] \in Operations
    BY <2>1 DEF TypeInv
  <2> QED
    BY <2>1, <2>2, OperationTypes DEF Known, TypeInv
<1>1. CASE EndsNow(p) /\ UNCHANGED <<store, lock, started, crashes>>
  BY <1>0, <1>1, EndsKeeps
<1>2. CASE /\ head[b].event # <<>>
           /\ op' = [op EXCEPT ![p].state = Replay(b).state] /\ Goes(p, "replace")
           /\ UNCHANGED <<store, lock, started, crashes>>
  <2> DEFINE state == Replay(b).state
             o == [op[p] EXCEPT !.state = state]
  <2>1. state \in State
    BY <1>0, <1>2, ReplayIsCurrent
  <2> HIDE DEF state
  <2>2. o \in Operations /\ o.state = state /\ o.branch = op[p].branch
    BY <1>0, <2>1 DEF Operations
  <2>3. op' = [op EXCEPT ![p] = o]
    BY <1>2 DEF state
  <2> HIDE DEF o
  <2>4. pc'[p] = "replace" /\ op'[p] = o => Known(p)' /\ Sound(p)'
    BY <1>0, <1>2, <2>1, <2>2 DEF Known, Sound, Committing, Deciding, Forking, store
  <2>5. "replace" \in Steps /\ o # None
    BY <2>2, OperationTypes DEF Steps, Deciding
  <2> QED
    BY <1>0, <1>2, <2>2, <2>3, <2>4, <2>5, LocalKeeps
<1> QED
  BY <1>1, <1>2 DEF ReplayPrefix

LEMMA ReplaceKeeps ==
    ASSUME HistoryInv, NEW p \in Processes, Replace(p), UNCHANGED asked
    PROVE  HistoryInv'
<1> DEFINE expected == IF op[p].expected = <<>> THEN head[op[p].branch].event
                       ELSE op[p].expected
<1>1. /\ op[p] \in Operations /\ head[op[p].branch] # None /\ op[p].state \in State
      /\ expected \in Seq(Content) /\ expected # <<>> /\ op[p].state # None
  <2>1. pc[p] = "replace" /\ Known(p) /\ TypeInv
    BY DEF Replace, HistoryInv, OperationInv
  <2>2. op[p] \in Operations
    BY <2>1 DEF TypeInv
  <2> QED
    BY <2>1, <2>2, OperationTypes, HeadTypes, NoneIsNothing DEF Known, Deciding
<1>2. \/ \E c \in Candidates : /\ Len(op[p].state) < MaxDecisions
                               /\ RecordAfter(p, expected, "decision", Append(op[p].state, c), "idle")
      \/ RecordAfter(p, expected, "decision", op[p].state, "idle")
      \/ RecordAfter(p, expected, "diagnostic", None, "idle")
  BY DEF Replace
<1> HIDE DEF expected
<1>3. "decision" \in Kinds /\ "diagnostic" \in Kinds
  BY DEF Kinds
<1>4. \A c \in Candidates : Len(op[p].state) < MaxDecisions => Append(op[p].state, c) \in State
  BY <1>1, States
<1> QED
  BY <1>1, <1>2, <1>3, <1>4, RecordKeeps

LEMMA DecideKeeps ==
    ASSUME HistoryInv, NEW p \in Processes, Decide(p), UNCHANGED asked
    PROVE  HistoryInv'
<1>0. started \in 0..MaxOperations /\ crashes \in 0..MaxCrashes
  BY DEF HistoryInv, TypeInv
<1>1. CASE ApplyExplicit(p)
  <2>1. pc[p] \in Deciding /\ op[p].state \in State
    BY <1>1 DEF ApplyExplicit, Deciding, HistoryInv, OperationInv, Known
  <2> QED
    BY <1>1, <2>1, SelectKeeps, DecidingRecords DEF ApplyExplicit, Kinds
<1>2. CASE Validated(p) \/ NoProgress(p)
  BY <1>0, <1>2, EndsKeeps DEF Validated, NoProgress
<1>3. CASE DecideByCode(p)
  BY <1>3, SelectKeeps, DecidingRecords DEF DecideByCode, Decides, Deciding, Kinds
<1>4. CASE RecordRequest(p)
  BY <1>4, DecidingRecords DEF RecordRequest, Decides, Deciding, Kinds
<1>5. CASE DecideRequest(p)
  BY <1>5, ApplyKeeps DEF DecideRequest, Deciding
<1>6. CASE StartAttempt(p)
  BY <1>6, DecidingRecords DEF StartAttempt, Decides, Deciding, Kinds
<1> QED
  BY <1>1, <1>2, <1>3, <1>4, <1>5, <1>6, ResumeKeeps, ReplayPrefixKeeps, ReplaceKeeps DEF Decide

LEMMA AnswerKeeps ==
    ASSUME HistoryInv, NEW p \in Processes, Answer(p), UNCHANGED asked
    PROVE  HistoryInv'
  BY ApplyKeeps DEF Answer, Deciding

LEMMA KillKeeps ==
    ASSUME HistoryInv, NEW p \in Processes, Kill(p), UNCHANGED asked
    PROVE  HistoryInv'
<1>1. crashes' \in 0..MaxCrashes
  BY HistoryConstants DEF Kill, HistoryInv, TypeInv
<1> QED
  BY <1>1, EndsKeeps DEF Kill

\* What a provider is asked is an attempt of the branch.
LEMMA DispatchKeeps ==
    ASSUME HistoryInv, NEW p \in Processes, Dispatch(p)
    PROVE  HistoryInv'
<1>0. TypeInv /\ AskedInv /\ pc[p] = "dispatch" /\ Known(p) /\ Sound(p)
  BY DEF Dispatch, HistoryInv, OperationInv
<1>1. op[p] \in Operations /\ op[p].branch \in Branches
  BY <1>0, OperationTypes DEF TypeInv
<1>2. /\ pc' = [pc EXCEPT ![p] = "answer"] /\ UNCHANGED <<store, lock, op, started, crashes>>
      /\ asked' = asked \cup {[branch |-> op[p].branch, input |-> op[p].state]}
  BY DEF Dispatch, Goes
<1>3. TypeInv'
  BY <1>0, <1>2 DEF TypeInv, Steps, Deciding, store
<1>4. AskedInv'
  BY <1>0, <1>1, <1>2 DEF AskedInv, Known, Deciding, store
<1>5. Grows(p)
  <2>1. ASSUME NEW b \in Branches, head[b] # None
        PROVE  head'[b] # None /\ IsPrefix(head[b].event, head'[b].event)
    BY <1>0, <1>2, <2>1, HeadTypes, PrefixItself DEF store
  <2> QED
    BY <1>0, <1>2, <2>1 DEF Grows, TypeInv, store
<1>6. EventInv' /\ BranchInv'
  BY <1>2, <1>3, <1>5, GrowsKeeps DEF store
<1>7. Known(p)' /\ Sound(p)'
  BY <1>0, <1>2 DEF TypeInv, Known, Sound, Committing, Deciding, Forking, store
<1>8. OperationInv'
  BY <1>3, <1>5, <1>7, OthersKnow DEF OperationInv
<1> QED
  BY <1>3, <1>4, <1>6, <1>8 DEF HistoryInv

-----------------------------------------------------------------------------
(* Commits *)

\* What a process at work knows.
LEMMA AtWork ==
    ASSUME HistoryInv, NEW p \in Processes, pc[p] # "idle"
    PROVE  /\ TypeInv /\ EventInv /\ BranchInv /\ AskedInv /\ Known(p) /\ Sound(p)
           /\ op[p] \in Operations /\ op[p].branch \in Branches
           /\ op[p] # None /\ op[p].base \in Lineages /\ op[p].expected \in Seq(Content)
           /\ op[p].state \in State \cup {None}
           /\ started \in 0..MaxOperations /\ crashes \in 0..MaxCrashes
<1>1. TypeInv /\ EventInv /\ BranchInv /\ AskedInv /\ Known(p) /\ Sound(p)
  BY DEF HistoryInv, OperationInv
<1>2. op[p] \in Operations
  BY <1>1 DEF TypeInv
<1> QED
  BY <1>1, <1>2, OperationTypes DEF TypeInv

LEMMA LockBranchKeeps ==
    ASSUME HistoryInv, NEW p \in Processes, LockBranch(p), UNCHANGED asked
    PROVE  HistoryInv'
<1> DEFINE b == op[p].branch
<1>1. /\ pc[p] = "lock" /\ lock[b] = None /\ lock' = [lock EXCEPT ![b] = p] /\ Goes(p, "event")
      /\ UNCHANGED <<store, op, started, crashes>>
  BY DEF LockBranch
<1>2. TypeInv /\ Known(p) /\ Sound(p) /\ op[p] \in Operations /\ b \in Branches /\ op[p] # None
      /\ started \in 0..MaxOperations /\ crashes \in 0..MaxCrashes
  BY <1>1, AtWork
<1>3. op' = [op EXCEPT ![p] = op[p]]
  BY <1>1, <1>2 DEF TypeInv
<1>4. pc'[p] = "event" /\ op'[p] = op[p] => Known(p)' /\ Sound(p)'
  BY <1>1, <1>2 DEF TypeInv, Known, Sound, Committing, Deciding, Forking, store
<1>5. "event" \in Steps
  BY DEF Steps, Committing
<1> QED
  BY <1>1, <1>2, <1>3, <1>4, <1>5, LocalKeeps

\* The event goes on from the head: the branch is locked, the head is the one
\* expected, and the input of the event is the state the head leads to.
LEMMA PutEventKeeps ==
    ASSUME HistoryInv, NEW p \in Processes, PutEvent(p), UNCHANGED asked
    PROVE  HistoryInv'
<1> DEFINE b == op[p].branch
           c == op[p].content
           expected == op[p].expected
           e == Append(expected, c)
<1>0. /\ pc[p] = "event" /\ TypeInv /\ EventInv /\ BranchInv /\ AskedInv /\ Known(p) /\ Sound(p)
      /\ op[p] \in Operations /\ b \in Branches /\ expected \in Seq(Content)
      /\ started \in 0..MaxOperations /\ crashes \in 0..MaxCrashes
  <2>1. pc[p] = "event"
    BY DEF PutEvent
  <2> QED
    BY <2>1, AtWork
<1>1. CASE EndsNow(p) /\ Release(p) /\ UNCHANGED events
  BY <1>0, <1>1, EndsKeeps DEF PutEvent, store
<1>2. CASE /\ ~IsStale(p) /\ InputIsCurrent(p)
           /\ events' = events \cup {NewEvent(p)} /\ Goes(p, "checkpoint") /\ UNCHANGED <<op, lock>>
  <2>1. /\ head[b] # None /\ lock[b] = p /\ head[b].event = expected /\ NewEvent(p) = e
        /\ c \in Content /\ c.branch = b /\ (c.input = None <=> expected = <<>>)
        /\ (c.input = None => c.output = <<>>)
    BY <1>0, <1>2 DEF Known, Sound, Committing, IsStale, NewEvent
  <2>2. /\ e \in Seq(Content) /\ e # <<>> /\ Last(e) = c /\ Front(e) = expected
    BY <1>0, <2>1, Appended
  <2>3. UNCHANGED <<checkpoints, lineage, head, started, crashes>> /\ events' = events \cup {e}
        /\ pc' = [pc EXCEPT ![p] = "checkpoint"]
    BY <1>2, <2>1 DEF PutEvent, Goes
  <2>4. IsHistory(e)
    <3>1. ASSUME expected # <<>>
          PROVE  IsHistory(expected) /\ IsStateAt(expected, Len(expected), c.input)
      <4>1. IsHistory(expected)
        BY <1>0, <2>1, <3>1, BranchHistory
      <4> DEFINE current == CurrentState(lineage[b], expected)
      <4>2. IsStateAt(expected, Len(expected), current) /\ current \in State
        BY <1>0, <3>1, <4>1, CurrentIsState
      <4>3. c.input = current
        BY <1>2, <2>1, <3>1, <4>2, NoneIsNothing DEF InputIsCurrent
      <4> QED
        BY <4>1, <4>2, <4>3
    <3> HIDE DEF c, expected
    <3> QED
      BY <1>0, <2>1, <3>1, HistoryGrows
  <2>5. IsKept(expected, checkpoints) /\ IsPrefix(expected, head[b].event)
    BY <1>0, <2>1, PrefixItself DEF BranchInv
  <2> HIDE DEF e, c, expected
  <2>6. TypeInv'
    BY <1>0, <1>2, <2>2, <2>3 DEF TypeInv, Steps, Committing
  <2>7. Grows(p)
    <3>1. ASSUME NEW x \in Branches, head[x] # None
          PROVE  head'[x] # None /\ IsPrefix(head[x].event, head'[x].event)
      BY <1>0, <2>3, <3>1, HeadTypes, PrefixItself
    <3> QED
      BY <1>0, <1>2, <2>3, <3>1 DEF Grows, TypeInv
  <2>8. BranchInv' /\ AskedInv'
    BY <2>3, <2>6, <2>7, GrowsKeeps
  <2>9. EventInv'
    <3>1. ASSUME NEW x \in events'
          PROVE  /\ x # <<>> /\ IsHistory(x) /\ IsKept(Front(x), checkpoints)
                 /\ head[Last(x).branch] # None
                 /\ IsPrefix(Front(x), head[Last(x).branch].event)
      <4>1. CASE x = e
        BY <2>1, <2>2, <2>4, <2>5, <4>1
      <4>2. CASE x \in events
        BY <1>0, <4>2 DEF EventInv
      <4> QED
        BY <2>3, <4>1, <4>2
    <3> QED
      BY <2>3, <3>1 DEF EventInv
  <2>10. Known(p)' /\ Sound(p)'
    <3>1. pc'[p] = "checkpoint" /\ op'[p] = op[p] /\ lock' = lock /\ NewEvent(p)' = NewEvent(p)
      BY <1>0, <1>2, <2>3 DEF TypeInv, NewEvent
    <3>2. Known(p)'
      BY <2>1, <2>3, <3>1 DEF Known, Committing, Deciding, expected
    <3>3. Sound(p)'
      BY <1>0, <3>1 DEF Sound, Committing, Forking
    <3> QED
      BY <3>2, <3>3
  <2>11. OperationInv'
    BY <2>6, <2>7, <2>10, OthersKnow DEF OperationInv
  <2> QED
    BY <2>6, <2>8, <2>9, <2>11 DEF HistoryInv
<1> QED
  BY <1>1, <1>2 DEF PutEvent

LEMMA PutCheckpointKeeps ==
    ASSUME HistoryInv, NEW p \in Processes, PutCheckpoint(p), UNCHANGED asked
    PROVE  HistoryInv'
<1>0. /\ pc[p] = "checkpoint" /\ checkpoints' = checkpoints \cup {NewEvent(p)}
      /\ pc' = [pc EXCEPT ![p] = "head"]
      /\ UNCHANGED <<events, lineage, head, lock, op, started, crashes>>
  BY DEF PutCheckpoint, Goes
<1>1. TypeInv /\ EventInv /\ BranchInv /\ AskedInv /\ Known(p) /\ Sound(p)
      /\ op[p] \in Operations /\ op[p].branch \in Branches
  BY <1>0, AtWork
<1>2. NewEvent(p) \in events
  BY <1>0, <1>1 DEF Known
<1>3. TypeInv'
  BY <1>0, <1>1, <1>2 DEF TypeInv, Steps, Committing
<1>4. Grows(p)
  <2>1. ASSUME NEW x \in Branches, head[x] # None
        PROVE  head'[x] # None /\ IsPrefix(head[x].event, head'[x].event)
    BY <1>0, <1>1, <2>1, HeadTypes, PrefixItself
  <2> QED
    BY <1>0, <1>1, <2>1 DEF Grows, TypeInv
<1>5. EventInv' /\ BranchInv' /\ AskedInv'
  BY <1>0, <1>3, <1>4, GrowsKeeps
<1>6. Known(p)' /\ Sound(p)'
  <2>1. pc'[p] = "head" /\ op'[p] = op[p] /\ NewEvent(p)' = NewEvent(p)
    BY <1>0, <1>1 DEF TypeInv, NewEvent
  <2>2. Known(p)'
    BY <1>0, <1>1, <2>1 DEF Known, Committing, Deciding
  <2>3. Sound(p)'
    BY <1>0, <1>1, <2>1 DEF Sound, Committing, Forking
  <2> QED
    BY <2>2, <2>3
<1>7. OperationInv'
  BY <1>3, <1>4, <1>6, OthersKnow DEF OperationInv
<1> QED
  BY <1>3, <1>5, <1>7 DEF HistoryInv

LEMMA PutCheckpointAgainKeeps ==
    ASSUME HistoryInv, NEW p \in Processes, NEW e \in events, PutCheckpointAgain(p, e),
           UNCHANGED asked
    PROVE  HistoryInv'
<1>0. /\ pc[p] = "idle" /\ checkpoints' = checkpoints \cup {e}
      /\ UNCHANGED <<events, lineage, head, lock, pc, op, started, crashes>>
  BY DEF PutCheckpointAgain
<1>1. TypeInv
  BY DEF HistoryInv
<1>2. TypeInv'
  BY <1>0, <1>1 DEF TypeInv
<1>3. Grows(p)
  <2>1. ASSUME NEW x \in Branches, head[x] # None
        PROVE  head'[x] # None /\ IsPrefix(head[x].event, head'[x].event)
    BY <1>0, <1>1, <2>1, HeadTypes, PrefixItself
  <2> QED
    BY <1>0, <2>1 DEF Grows
<1>4. EventInv' /\ BranchInv' /\ AskedInv'
  BY <1>0, <1>2, <1>3, GrowsKeeps
<1>5. Known(p)' /\ Sound(p)'
  BY <1>0 DEF Known, Sound, Committing, Deciding, Forking
<1>6. OperationInv'
  BY <1>2, <1>3, <1>5, OthersKnow DEF OperationInv
<1> QED
  BY <1>2, <1>4, <1>6 DEF HistoryInv

\* The head moves to the event that was stored to follow it.
LEMMA HeadMoves ==
    ASSUME HistoryInv, NEW p \in Processes, WriteHead(p)
    PROVE  LET b == op[p].branch
               c == op[p].content
           IN  /\ b \in Branches /\ head[b] # None /\ c \in Content /\ c.branch = b
               /\ lock[b] = p /\ head[b].event \in Seq(Content)
               /\ NewEvent(p) = Append(head[b].event, c)
               /\ NewEvent(p) \in checkpoints
               /\ head' = [head EXCEPT ![b] = [event |-> NewEvent(p),
                                               revision |-> head[b].revision + 1]]
<1>1. pc[p] = "head" /\ head' = [head EXCEPT ![op[p].branch] =
             [event |-> NewEvent(p), revision |-> head[op[p].branch].revision + 1]]
  BY DEF WriteHead
<1>2. TypeInv /\ Known(p) /\ Sound(p) /\ op[p].branch \in Branches
  BY <1>1, AtWork
<1> QED
  BY <1>1, <1>2, HeadTypes DEF Known, Sound, Committing, NewEvent

LEMMA WriteHeadKeeps ==
    ASSUME HistoryInv, NEW p \in Processes, WriteHead(p), UNCHANGED asked
    PROVE  HistoryInv'
<1> DEFINE b == op[p].branch
           c == op[p].content
           e == head[b].event
           t == Append(e, c)
           h == [event |-> t, revision |-> head[b].revision + 1]
<1>0. /\ pc[p] = "head" /\ Release(p)
      /\ UNCHANGED <<events, checkpoints, lineage, started, crashes>>
      /\ \/ op[p].next = "idle" /\ EndsNow(p)
         \/ /\ op[p].next # "idle" /\ Goes(p, op[p].next)
            /\ op' = [op EXCEPT ![p].state = IF c.output = None THEN op[p].state ELSE c.output]
  BY DEF WriteHead
<1>1. /\ TypeInv /\ EventInv /\ BranchInv /\ AskedInv /\ Known(p) /\ Sound(p)
      /\ op[p] \in Operations /\ op[p].state \in State \cup {None}
  BY <1>0, AtWork
<1>2. /\ b \in Branches /\ head[b] # None /\ c \in Content /\ c.branch = b
      /\ lock[b] = p /\ e \in Seq(Content) /\ t \in checkpoints
      /\ head' = [head EXCEPT ![b] = h]
  BY HeadMoves
<1>3. /\ t \in Seq(Content) /\ t # <<>> /\ Len(t) = Len(e) + 1 /\ IsPrefix(e, t)
      /\ t[Len(e) + 1] = c /\ Len(e) \in Nat
  BY <1>2, Appended, LenProperties
<1>4. head[b].revision = Len(e) /\ IsPrefix(lineage[b].event, e) /\ IsKept(e, checkpoints)
      /\ lineage[b] # None /\ IsBase(lineage[b], checkpoints)
  BY <1>1, <1>2 DEF BranchInv
<1>5. IsKept(t, checkpoints)
  <2> HIDE DEF e, c
  <2> QED
    BY <1>2, <1>4, KeptGrows
<1>6. IsPrefix(lineage[b].event, t)
  BY <1>1, <1>2, <1>3, <1>4, BaseIsState, PrefixTransitive
<1>7. h \in Heads /\ h # None /\ h.event = t /\ h.revision = Len(t)
  <2> HIDE DEF t
  <2>1. h = [event |-> t, revision |-> Len(t)]
    BY <1>3, <1>4
  <2>2. Len(t) \in Nat /\ t \in Seq(Content)
    BY <1>3
  <2> HIDE DEF h
  <2> QED
    BY <2>1, <2>2, NoneIsNothing DEF Heads
<1> HIDE DEF t, h
<1>8. /\ pc' \in [Processes -> Steps] /\ op' \in [Processes -> Operations \cup {None}]
      /\ \A q \in Processes : pc'[q] = "idle" <=> op'[q] = None
      /\ \A q \in Processes \ {p} : pc'[q] = pc[q] /\ op'[q] = op[q]
      /\ \/ pc'[p] = "idle"
         \/ /\ pc'[p] = op[p].next /\ op[p].next \in {"decide", "apply", "dispatch"}
            /\ op'[p].branch = b /\ op'[p].state \in State
            /\ c.output = None => op'[p].state = op[p].state
  <2>1. CASE op[p].next = "idle" /\ EndsNow(p)
    BY <1>1, <2>1 DEF EndsNow, TypeInv, Steps
  <2>2. CASE /\ op[p].next # "idle" /\ Goes(p, op[p].next)
             /\ op' = [op EXCEPT ![p].state = IF c.output = None THEN op[p].state ELSE c.output]
    <3> DEFINE state == IF c.output = None THEN op[p].state ELSE c.output
               o == [op[p] EXCEPT !.state = state]
    <3>1. op[p].next \in {"decide", "apply", "dispatch"} /\ state \in State
      BY <1>0, <1>1, <1>2, <2>2 DEF Sound, Committing, Content
    <3>2. c.output = None => state = op[p].state
      OBVIOUS
    <3> HIDE DEF state
    <3>3. o \in Operations /\ o.branch = b /\ o.state = state
      BY <1>1, <3>1 DEF Operations
    <3>4. op' = [op EXCEPT ![p] = o] /\ pc' = [pc EXCEPT ![p] = op[p].next]
      BY <2>2 DEF state, Goes
    <3>5. o # None /\ op[p].next \in Steps
      BY <3>1, <3>3, OperationTypes DEF Steps, Deciding
    <3> HIDE DEF o
    <3> QED
      BY <1>1, <3>1, <3>2, <3>3, <3>4, <3>5 DEF TypeInv
  <2> QED
    BY <1>0, <2>1, <2>2
<1>9. TypeInv'
  <2>1. head' \in [Branches -> Heads \cup {None}] /\ lock' \in [Branches -> Processes \cup {None}]
    BY <1>0, <1>1, <1>2, <1>7 DEF TypeInv, Release
  <2> QED
    BY <1>0, <1>1, <1>8, <2>1 DEF TypeInv
<1>10. Grows(p)
  <2>1. ASSUME NEW x \in Branches, head[x] # None
        PROVE  head'[x] # None /\ IsPrefix(head[x].event, head'[x].event)
    <3>1. CASE x = b
      BY <1>1, <1>2, <1>3, <1>7, <3>1 DEF TypeInv
    <3>2. CASE x # b
      BY <1>1, <1>2, <2>1, <3>2, HeadTypes, PrefixItself DEF TypeInv
    <3> QED
      BY <3>1, <3>2
  <2>2. \A x \in Branches : lock[x] # p => head'[x] = head[x] /\ lineage'[x] = lineage[x]
    BY <1>0, <1>1, <1>2 DEF TypeInv
  <2>3. \A x \in Branches : lock[x] \notin {p, None} => lock'[x] = lock[x]
    BY <1>0 DEF Release
  <2> QED
    BY <1>0, <1>8, <2>1, <2>2, <2>3 DEF Grows
<1>11. EventInv' /\ AskedInv'
  BY <1>0, <1>9, <1>10, GrowsKeeps
<1>12. BranchInv'
  <2>1. ASSUME NEW x \in Branches
        PROVE  /\ lineage'[x] # None => IsBase(lineage'[x], checkpoints')
               /\ head'[x] # None =>
                     /\ lineage'[x] # None /\ IsPrefix(lineage'[x].event, head'[x].event)
                     /\ IsKept(head'[x].event, checkpoints') /\ head'[x].revision = Len(head'[x].event)
    <3>1. CASE x = b
      BY <1>0, <1>1, <1>2, <1>4, <1>5, <1>6, <1>7, <3>1 DEF TypeInv
    <3>2. CASE x # b
      BY <1>0, <1>1, <1>2, <3>2 DEF TypeInv, BranchInv
    <3> QED
      BY <3>1, <3>2
  <2>2. head'[Main] # None
    BY <1>1, <1>10, HistoryConstants DEF BranchInv, Grows
  <2> QED
    BY <2>1, <2>2 DEF BranchInv
<1>13. Known(p)' /\ Sound(p)'
  <2>1. CASE pc'[p] = "idle"
    BY <2>1 DEF Known, Sound, Committing, Deciding, Forking
  <2>2. CASE /\ pc'[p] = op[p].next /\ op[p].next \in {"decide", "apply", "dispatch"}
             /\ op'[p].branch = b /\ op'[p].state \in State
             /\ c.output = None => op'[p].state = op[p].state
    <3>1. head'[b] = h
      BY <1>1, <1>2 DEF TypeInv
    <3>2. op[p].next = "dispatch" => IsAttempted(t, b, op'[p].state)
      <4> SUFFICES ASSUME op[p].next = "dispatch"
                   PROVE  IsAttempted(t, b, op'[p].state)
        OBVIOUS
      <4>1. c.kind = "attempt" /\ c.input = op'[p].state
        BY <1>0, <1>1, <2>2 DEF Sound, Committing
      <4>2. Len(e) + 1 \in DOMAIN t
        BY <1>3, LenProperties
      <4> QED
        BY <1>2, <1>3, <4>1, <4>2 DEF IsAttempted
    <3>3. Known(p)'
      BY <1>3, <1>7, <2>2, <3>1, <3>2 DEF Known, Committing, Deciding
    <3>4. Sound(p)'
      BY <2>2 DEF Sound, Committing, Forking
    <3> QED
      BY <3>3, <3>4
  <2> QED
    BY <1>8, <2>1, <2>2
<1>14. OperationInv'
  BY <1>9, <1>10, <1>13, OthersKnow DEF OperationInv
<1> QED
  BY <1>9, <1>11, <1>12, <1>14 DEF HistoryInv

-----------------------------------------------------------------------------
(* Making branches *)

LEMMA LockParentKeeps ==
    ASSUME HistoryInv, NEW p \in Processes, LockParent(p), UNCHANGED asked
    PROVE  HistoryInv'
<1> DEFINE b == op[p].base.parent
<1>1. /\ pc[p] = "parent" /\ lock[b] = None /\ lock' = [lock EXCEPT ![b] = p] /\ Goes(p, "create")
      /\ UNCHANGED <<store, op, started, crashes>>
  BY DEF LockParent
<1>2. TypeInv /\ Known(p) /\ Sound(p) /\ op[p] \in Operations /\ op[p] # None
      /\ started \in 0..MaxOperations /\ crashes \in 0..MaxCrashes
  BY <1>1, AtWork
<1>3. b \in Branches
  <2>1. IsBase(op[p].base, checkpoints) /\ op[p].base # NoLineage
    BY <1>1, <1>2 DEF Sound, Forking
  <2> QED
    BY <2>1, CheckpointTypes DEF IsBase
<1>4. op' = [op EXCEPT ![p] = op[p]]
  BY <1>1, <1>2 DEF TypeInv
<1>5. pc'[p] = "create" /\ op'[p] = op[p] => Known(p)' /\ Sound(p)'
  BY <1>1, <1>2 DEF TypeInv, Known, Sound, Committing, Deciding, Forking, store
<1>6. "create" \in Steps
  BY DEF Steps, Forking
<1> QED
  BY <1>1, <1>2, <1>3, <1>4, <1>5, <1>6, LocalKeeps

LEMMA LockChildKeeps ==
    ASSUME HistoryInv, NEW p \in Processes, LockChild(p), UNCHANGED asked
    PROVE  HistoryInv'
<1> DEFINE b == op[p].branch
<1>1. /\ pc[p] = "create" /\ lock[b] = None /\ lock' = [lock EXCEPT ![b] = p] /\ Goes(p, "lineage")
      /\ UNCHANGED <<store, op, started, crashes>>
  BY DEF LockChild
<1>2. TypeInv /\ Known(p) /\ Sound(p) /\ op[p] \in Operations /\ b \in Branches /\ op[p] # None
      /\ started \in 0..MaxOperations /\ crashes \in 0..MaxCrashes
  BY <1>1, AtWork
<1>3. op' = [op EXCEPT ![p] = op[p]]
  BY <1>1, <1>2 DEF TypeInv
<1>4. pc'[p] = "lineage" /\ op'[p] = op[p] => Known(p)' /\ Sound(p)'
  BY <1>1, <1>2 DEF TypeInv, Known, Sound, Committing, Deciding, Forking, store
<1>5. "lineage" \in Steps
  BY DEF Steps, Forking
<1> QED
  BY <1>1, <1>2, <1>3, <1>4, <1>5, LocalKeeps

\* A branch record is written once, for a branch that has no head.
LEMMA WriteLineageKeeps ==
    ASSUME HistoryInv, NEW p \in Processes, WriteLineage(p), UNCHANGED asked
    PROVE  HistoryInv'
<1> DEFINE b == op[p].branch
           base == op[p].base
<1>0. /\ pc[p] = "lineage" /\ TypeInv /\ BranchInv /\ Known(p) /\ Sound(p)
      /\ op[p] \in Operations /\ b \in Branches /\ base \in Lineages /\ op[p] # None
      /\ started \in 0..MaxOperations /\ crashes \in 0..MaxCrashes
      /\ UNCHANGED <<events, checkpoints, head, started, crashes>>
  <2>1. pc[p] = "lineage" /\ UNCHANGED <<events, checkpoints, head, started, crashes>>
    BY DEF WriteLineage
  <2> QED
    BY <2>1, AtWork
<1>1. /\ lock[b] = p /\ op[p].next \in {"idle", "resume"} /\ op[p].state = None
      /\ IsBase(base, checkpoints) /\ (op[p].next = "resume" => base = NoLineage)
  BY <1>0 DEF Known, Sound, Forking
<1>2. CASE EndsNow(p) /\ Release(p) /\ UNCHANGED lineage
  BY <1>0, <1>2, EndsKeeps DEF store
<1>3. CASE op[p].next # "idle" /\ Goes(p, op[p].next) /\ UNCHANGED op /\ Release(p) /\ UNCHANGED lineage
  <2>1. op' = [op EXCEPT ![p] = op[p]] /\ Goes(p, "resume") /\ UNCHANGED <<store, asked>>
    BY <1>0, <1>1, <1>3 DEF TypeInv, store
  <2>2. pc'[p] = "resume" /\ op'[p] = op[p] => Known(p)' /\ Sound(p)'
    BY <1>0, <1>1, <1>3 DEF Known, Sound, Committing, Deciding, Forking
  <2>3. "resume" \in Steps /\ started' \in 0..MaxOperations /\ crashes' \in 0..MaxCrashes
    BY <1>0 DEF Steps
  <2> QED
    BY <1>0, <1>3, <2>1, <2>2, <2>3, LocalKeeps
<1>4. CASE /\ lineage[b] = None /\ lineage' = [lineage EXCEPT ![b] = base]
           /\ Goes(p, "firsthead") /\ UNCHANGED <<op, lock>>
  <2>1. head[b] = None
    BY <1>0, <1>4 DEF BranchInv
  <2> HIDE DEF b, base
  <2>2. TypeInv'
    BY <1>0, <1>4 DEF TypeInv, Goes, Steps, Forking
  <2>3. Grows(p)
    <3>1. ASSUME NEW x \in Branches, head[x] # None
          PROVE  head'[x] # None /\ IsPrefix(head[x].event, head'[x].event)
      BY <1>0, <3>1, HeadTypes, PrefixItself
    <3>2. \A x \in Branches : lock[x] # p => lineage'[x] = lineage[x]
      BY <1>0, <1>1, <1>4 DEF TypeInv
    <3> QED
      BY <1>0, <1>4, <3>1, <3>2 DEF Grows, TypeInv, Goes
  <2>4. EventInv' /\ AskedInv'
    BY <1>0, <2>2, <2>3, GrowsKeeps
  <2>5. BranchInv'
    <3>1. lineage'[b] = base /\ \A x \in Branches \ {b} : lineage'[x] = lineage[x]
      BY <1>0, <1>4 DEF TypeInv
    <3> QED
      BY <1>0, <1>1, <2>1, <3>1 DEF BranchInv
  <2>6. Known(p)' /\ Sound(p)'
    <3>1. lineage'[b] = base /\ pc'[p] = "firsthead" /\ op' = op /\ lock' = lock
      BY <1>0, <1>4 DEF TypeInv, Goes
    <3>2. Known(p)'
      BY <1>0, <1>1, <2>1, <3>1 DEF Known, Committing, Deciding, b, base
    <3>3. Sound(p)'
      BY <1>0, <1>1, <3>1 DEF Sound, Committing, Forking, base
    <3> QED
      BY <3>2, <3>3
  <2>7. OperationInv'
    BY <2>2, <2>3, <2>6, OthersKnow DEF OperationInv
  <2> QED
    BY <2>2, <2>4, <2>5, <2>7 DEF HistoryInv
<1> QED
  BY <1>2, <1>3, <1>4 DEF WriteLineage

\* What WriteFirstHead does to the heads.
LEMMA FirstHead ==
    ASSUME HistoryInv, NEW p \in Processes, WriteFirstHead(p)
    PROVE  LET b == op[p].branch
               base == op[p].base
           IN  /\ b \in Branches /\ head[b] = None /\ lock[b] = p /\ lineage[b] = base
               /\ IsBase(base, checkpoints) /\ base.event \in Seq(Content)
               /\ HeadAt(base.event) \in Heads
               /\ head' = [head EXCEPT ![b] = HeadAt(base.event)]
<1>1. /\ pc[p] = "firsthead"
      /\ head' = [head EXCEPT ![op[p].branch] = HeadAt(op[p].base.event)]
  BY DEF WriteFirstHead, HeadAt
<1>2. Known(p) /\ Sound(p) /\ op[p].branch \in Branches
  BY <1>1, AtWork
<1>3. IsBase(op[p].base, checkpoints)
  BY <1>1, <1>2 DEF Sound, Forking
<1>4. op[p].base.event \in Seq(Content)
  BY <1>3, BaseIsState
<1>5. HeadAt(op[p].base.event) \in Heads
  BY <1>4, LenProperties DEF HeadAt, Heads
<1> QED
  BY <1>1, <1>2, <1>3, <1>4, <1>5 DEF Known

LEMMA WriteFirstHeadKeeps ==
    ASSUME HistoryInv, NEW p \in Processes, WriteFirstHead(p), UNCHANGED asked
    PROVE  HistoryInv'
<1> DEFINE b == op[p].branch
           base == op[p].base
           h == HeadAt(base.event)
<1>0. /\ pc[p] = "firsthead" /\ TypeInv /\ BranchInv /\ Known(p) /\ Sound(p)
      /\ op[p] \in Operations /\ op[p] # None /\ Release(p)
      /\ UNCHANGED <<events, checkpoints, lineage, started, crashes>>
      /\ \/ op[p].next = "idle" /\ EndsNow(p)
         \/ op[p].next # "idle" /\ Goes(p, op[p].next) /\ UNCHANGED op
  <2>1. /\ pc[p] = "firsthead" /\ Release(p)
        /\ UNCHANGED <<events, checkpoints, lineage, started, crashes>>
        /\ \/ op[p].next = "idle" /\ EndsNow(p)
           \/ op[p].next # "idle" /\ Goes(p, op[p].next) /\ UNCHANGED op
    BY DEF WriteFirstHead
  <2> QED
    BY <2>1, AtWork
<1>1. /\ op[p].next \in {"idle", "resume"} /\ op[p].state = None
      /\ (op[p].next = "resume" => base = NoLineage)
  BY <1>0 DEF Sound, Forking
<1>2. /\ b \in Branches /\ head[b] = None /\ lock[b] = p /\ lineage[b] = base
      /\ IsBase(base, checkpoints) /\ base.event \in Seq(Content)
      /\ h \in Heads /\ head' = [head EXCEPT ![b] = h]
  BY FirstHead
<1>3. h.event = base.event /\ h.revision = Len(base.event) /\ base # None /\ h # None
  <2>1. base \in Lineages
    BY <1>0, OperationTypes
  <2> QED
    BY <1>2, <2>1, NoneIsNothing DEF HeadAt
<1>4. IsKept(base.event, checkpoints) /\ IsPrefix(base.event, base.event)
  BY <1>2, BaseIsState, PrefixItself
<1> HIDE DEF h
<1>5. /\ pc' \in [Processes -> Steps] /\ op' \in [Processes -> Operations \cup {None}]
      /\ \A q \in Processes : pc'[q] = "idle" <=> op'[q] = None
      /\ \A q \in Processes \ {p} : pc'[q] = pc[q] /\ op'[q] = op[q]
      /\ \/ pc'[p] = "idle"
         \/ pc'[p] = "resume" /\ op'[p] = op[p] /\ base = NoLineage
  BY <1>0, <1>1 DEF EndsNow, Goes, TypeInv, Steps
<1>6. TypeInv'
  <2>1. head' \in [Branches -> Heads \cup {None}] /\ lock' \in [Branches -> Processes \cup {None}]
    BY <1>0, <1>2 DEF TypeInv, Release
  <2> QED
    BY <1>0, <1>5, <2>1 DEF TypeInv
<1>7. head'[b] = h /\ \A x \in Branches \ {b} : head'[x] = head[x]
  BY <1>0, <1>2 DEF TypeInv
<1>8. Grows(p)
  <2>1. ASSUME NEW x \in Branches, head[x] # None
        PROVE  head'[x] # None /\ IsPrefix(head[x].event, head'[x].event)
    BY <1>0, <1>2, <1>7, <2>1, HeadTypes, PrefixItself
  <2>2. \A x \in Branches : lock[x] \notin {p, None} => lock'[x] = lock[x]
    BY <1>0 DEF Release
  <2> QED
    BY <1>0, <1>2, <1>5, <1>7, <2>1, <2>2 DEF Grows
<1>9. EventInv' /\ AskedInv'
  BY <1>0, <1>6, <1>8, GrowsKeeps
<1>10. BranchInv'
  <2>1. ASSUME NEW x \in Branches
        PROVE  /\ lineage'[x] # None => IsBase(lineage'[x], checkpoints')
               /\ head'[x] # None =>
                     /\ lineage'[x] # None /\ IsPrefix(lineage'[x].event, head'[x].event)
                     /\ IsKept(head'[x].event, checkpoints') /\ head'[x].revision = Len(head'[x].event)
    <3>1. CASE x = b
      BY <1>0, <1>2, <1>3, <1>4, <1>7, <3>1
    <3>2. CASE x # b
      BY <1>0, <1>7, <3>2 DEF BranchInv
    <3> QED
      BY <3>1, <3>2
  <2>2. head'[Main] # None
    BY <1>0, <1>8, HistoryConstants DEF BranchInv, Grows
  <2> QED
    BY <2>1, <2>2 DEF BranchInv
<1>11. Known(p)' /\ Sound(p)'
  <2>1. CASE pc'[p] = "idle"
    BY <2>1 DEF Known, Sound, Committing, Deciding, Forking
  <2>2. CASE pc'[p] = "resume" /\ op'[p] = op[p] /\ base = NoLineage
    BY <1>0, <1>1, <1>2, <2>2 DEF Known, Sound, Committing, Deciding, Forking
  <2> QED
    BY <1>5, <2>1, <2>2
<1>12. OperationInv'
  BY <1>6, <1>8, <1>11, OthersKnow DEF OperationInv
<1> QED
  BY <1>6, <1>9, <1>10, <1>12 DEF HistoryInv

-----------------------------------------------------------------------------
(* The invariant *)

\* The histories the operations start from are histories.
LEMMA Beginnings ==
    /\ Initialized \in Seq(Content) /\ Initialized # <<>> /\ IsHistory(Initialized)
    /\ Last(Initialized).branch = Main /\ Front(Initialized) = <<>>
    /\ \A stored : IsKept(<<>>, stored) /\ (Initialized \in stored => IsKept(Initialized, stored))
    /\ \A b \in Branches :
          LET e == Append(Initialized, DecidedOn(b))
          IN  /\ e \in Seq(Content) /\ e # <<>> /\ IsHistory(e) /\ IsPrefix(Initialized, e)
              /\ Last(e) = DecidedOn(b) /\ Front(e) = Initialized
              /\ DecidedOn(b).branch = b /\ DecidedOn(b).input = <<>>
              /\ e = Initialized \o <<DecidedOn(b)>>
              /\ \A stored : Initialized \in stored /\ e \in stored => IsKept(e, stored)
<1> DEFINE i == [branch |-> Main, kind |-> "initialization", input |-> None, output |-> <<>>]
<1>1. /\ i \in Content /\ i.branch = Main /\ i.input = None /\ i.output = <<>>
  BY HistoryConstants, States DEF Content, Kinds
<1>2. Initialized = <<i>>
  BY DEF Initialized
<1> HIDE DEF i
<1>3. <<>> \in Seq(Content) /\ Append(<<>>, i) = <<i>> /\ Len(<<>>) = 0
  BY <1>1, EmptySeq
<1>4. IsHistory(Initialized)
  BY <1>1, <1>2, <1>3, HistoryGrows
<1>5. /\ Initialized \in Seq(Content) /\ Initialized # <<>> /\ Len(Initialized) = 1
      /\ Last(Initialized) = i /\ Front(Initialized) = <<>> /\ Initialized[1] = i
  <2> DEFINE none == <<>>
             e == Append(none, i)
  <2>1. none \in Seq(Content) /\ Len(none) = 0 /\ Initialized = e
    BY <1>2, <1>3
  <2> HIDE DEF none, e
  <2>2. none \in Seq(Content) /\ i \in Content
    BY <1>1, <2>1
  <2>3. /\ e \in Seq(Content) /\ e # <<>> /\ Len(e) = Len(none) + 1
        /\ Last(e) = i /\ Front(e) = none /\ e[Len(none) + 1] = i
    BY <2>2, Appended DEF e
  <2> QED
    BY <2>1, <2>3 DEF none
<1>6. ASSUME NEW stored
      PROVE  IsKept(<<>>, stored) /\ (Initialized \in stored => IsKept(Initialized, stored))
  <2>1. IsKept(<<>>, stored)
    BY <1>3 DEF IsKept
  <2> QED
    BY <1>1, <1>2, <1>3, <2>1, KeptGrows
<1>7. ASSUME NEW b \in Branches
      PROVE  /\ DecidedOn(b) \in Content /\ DecidedOn(b).branch = b /\ DecidedOn(b).input = <<>>
  <2> DEFINE x == CHOOSE c \in Candidates : TRUE
  <2>1. x \in Candidates
    BY HistoryConstants
  <2> HIDE DEF x
  <2>2. Len(<<>>) < MaxDecisions /\ Append(<<>>, x) = <<x>>
    BY HistoryConstants
  <2>3. <<>> \in State /\ <<x>> \in State
    BY <2>1, <2>2, States
  <2> QED
    BY <2>3 DEF DecidedOn, Content, Kinds, x
<1>8. ASSUME NEW b \in Branches
      PROVE  LET e == Append(Initialized, DecidedOn(b))
             IN  /\ e \in Seq(Content) /\ e # <<>> /\ IsHistory(e) /\ IsPrefix(Initialized, e)
                 /\ Last(e) = DecidedOn(b) /\ Front(e) = Initialized
                 /\ e = Initialized \o <<DecidedOn(b)>>
                 /\ \A stored : Initialized \in stored /\ e \in stored => IsKept(e, stored)
  <2> DEFINE d == DecidedOn(b)
             e == Append(Initialized, d)
  <2>1. d \in Content /\ d.input = <<>> /\ d.input # None
    BY <1>7, States, NoneIsNothing
  <2> HIDE DEF d
  <2>2. IsStateAt(Initialized, Len(Initialized), d.input)
    BY <1>1, <1>5, <2>1 DEF IsStateAt
  <2>3. IsHistory(e)
    BY <1>4, <1>5, <2>1, <2>2, HistoryGrows
  <2>4. e \in Seq(Content) /\ e # <<>> /\ Last(e) = d /\ Front(e) = Initialized /\ IsPrefix(Initialized, e)
    BY <1>5, <2>1, Appended
  <2>5. e = Initialized \o <<d>>
    BY <1>5, <2>1, AppendIsConcat
  <2>6. \A stored : Initialized \in stored /\ e \in stored => IsKept(e, stored)
    BY <1>5, <1>6, <2>1, KeptGrows
  <2> QED
    BY <2>3, <2>4, <2>5, <2>6 DEF d
<1> QED
  BY <1>1, <1>4, <1>5, <1>6, <1>7, <1>8

LEMMA InitInv == Init => HistoryInv
<1> SUFFICES ASSUME Init
             PROVE  HistoryInv
  OBVIOUS
<1>0. /\ checkpoints = events /\ lock = [b \in Branches |-> None]
      /\ pc = [p \in Processes |-> "idle"] /\ op = [p \in Processes |-> None]
      /\ started = 0 /\ crashes = 0 /\ asked = {}
  BY DEF Init
<1>1. AskedInv /\ OperationInv
  BY <1>0 DEF AskedInv, OperationInv, Known, Sound, Committing, Deciding, Forking
<1>2. ASSUME events \subseteq Seq(Content), lineage \in [Branches -> Lineages \cup {None}],
             head \in [Branches -> Heads \cup {None}]
      PROVE  TypeInv
  BY <1>0, <1>2, HistoryConstants DEF TypeInv, Steps
<1>3. NoLineage \in Lineages /\ NoLineage # None /\ NoLineage.event = <<>>
  BY NewOperation, HistoryConstants, NoneIsNothing DEF NoLineage
<1>4. ASSUME NEW e \in Seq(Content)
      PROVE  HeadAt(e) \in Heads /\ HeadAt(e) # None /\ HeadAt(e).event = e /\ HeadAt(e).revision = Len(e)
  <2>1. HeadAt(e) \in Heads
    BY LenProperties DEF HeadAt, Heads
  <2> QED
    BY <2>1, NoneIsNothing DEF HeadAt
<1>5. <<>> \in Seq(Content) /\ Main \in Branches
  BY EmptySeq, HistoryConstants
<1>6. CASE Fresh
  <2>1. head[Main] = HeadAt(<<>>) /\ lineage[Main] = NoLineage
        /\ \A b \in Branches \ {Main} : head[b] = None /\ lineage[b] = None
    BY <1>5, <1>6 DEF Fresh
  <2>2. TypeInv
    BY <1>2, <1>3, <1>4, <1>5, <1>6 DEF Fresh
  <2>3. EventInv
    BY <1>6 DEF Fresh, EventInv
  <2>4. IsPrefix(<<>>, <<>>) /\ IsKept(<<>>, checkpoints)
    BY <1>5, PrefixItself, Beginnings
  <2>5. HeadAt(<<>>) # None /\ HeadAt(<<>>).event = <<>> /\ HeadAt(<<>>).revision = Len(<<>>)
    BY <1>4, <1>5
  <2>6. IsBase(NoLineage, checkpoints)
    BY DEF IsBase
  <2>7. BranchInv
    BY <1>3, <1>5, <2>1, <2>4, <2>5, <2>6, Zenon DEF BranchInv
  <2> QED
    BY <1>1, <2>2, <2>3, <2>7 DEF HistoryInv
<1>7. ASSUME NEW b \in Branches \ {Main}, Forked(b, <<>>) \/ Forked(b, <<DecidedOn(b)>>)
      PROVE  HistoryInv
  <2> DEFINE i == Initialized
             d == Append(i, DecidedOn(Main))
             s == Append(i, DecidedOn(b))
             from == CheckpointOf(d)
  <2>1. PICK t \in {i, s} :
            /\ events = {i, d, t}
            /\ lineage = [x \in Branches |-> IF x = Main THEN NoLineage
                                             ELSE IF x = b THEN from ELSE None]
            /\ head = [x \in Branches |-> IF x = Main THEN HeadAt(d)
                                          ELSE IF x = b THEN HeadAt(t) ELSE None]
    <3>1. i \o <<>> = i /\ i \o <<DecidedOn(b)>> = s /\ Decided = d
      BY Beginnings, ConcatEmptySeq DEF Decided
    <3> QED
      BY <1>7, <3>1 DEF Forked
  <2>2. /\ i \in Seq(Content) /\ i # <<>> /\ IsHistory(i) /\ Last(i).branch = Main
        /\ Front(i) = <<>> /\ IsKept(<<>>, events) /\ IsKept(i, events)
    BY <2>1, Beginnings
  <2>3. /\ d \in Seq(Content) /\ d # <<>> /\ IsHistory(d) /\ Last(d).branch = Main
        /\ Front(d) = i /\ IsPrefix(i, d) /\ IsKept(d, events) /\ Last(d).input = <<>>
    <3>1. i \in events /\ d \in events
      BY <2>1
    <3> QED
      BY <1>5, <3>1, Beginnings
  <2>4. /\ s \in Seq(Content) /\ s # <<>> /\ IsHistory(s) /\ Last(s).branch = b
        /\ Front(s) = i /\ IsPrefix(i, s) /\ (s \in events => IsKept(s, events))
    <3>1. i \in events
      BY <2>1
    <3> QED
      BY <3>1, Beginnings
  <2>5. from \in Lineages /\ from.event = i
    BY <1>5, <2>2, <2>3, States DEF CheckpointOf, Lineages
  <2>6. from # None
    BY <2>5, NoneIsNothing
  <2> HIDE DEF i, d, s
  <2>7. /\ head[Main] = HeadAt(d) /\ lineage[Main] = NoLineage
        /\ head[b] = HeadAt(t) /\ lineage[b] = from
        /\ \A x \in Branches \ {Main, b} : head[x] = None /\ lineage[x] = None
    BY <1>5, <2>1
  <2>8. /\ t \in Seq(Content) /\ IsKept(t, events) /\ IsPrefix(i, t)
    <3>1. t \in events /\ IsPrefix(i, i)
      BY <2>1, <2>2, PrefixItself
    <3> QED
      BY <2>1, <2>2, <2>4, <3>1
  <2>9. HeadAt(d) # None /\ HeadAt(t) # None /\ HeadAt(d).event = d /\ HeadAt(t).event = t
        /\ HeadAt(d).revision = Len(d) /\ HeadAt(t).revision = Len(t)
        /\ HeadAt(d) \in Heads /\ HeadAt(t) \in Heads
    BY <1>4, <2>3, <2>8
  <2>10. IsPrefix(<<>>, d)
    BY <2>3, PrefixItself
  <2> HIDE DEF from
  <2>11. TypeInv
    BY <1>2, <1>3, <2>1, <2>2, <2>3, <2>5, <2>8, <2>9
  <2>12. BranchInv
    <3>1. IsBase(NoLineage, checkpoints) /\ IsBase(from, checkpoints)
      BY <1>0, <2>1 DEF IsBase, from
    <3> QED
      BY <1>0, <1>3, <1>5, <2>3, <2>5, <2>6, <2>7, <2>8, <2>9, <2>10, <3>1 DEF BranchInv
  <2>13. EventInv
    <3>1. ASSUME NEW e \in events
          PROVE  /\ e # <<>> /\ IsHistory(e) /\ IsKept(Front(e), checkpoints)
                 /\ head[Last(e).branch] # None
                 /\ IsPrefix(Front(e), head[Last(e).branch].event)
      <4>1. CASE e = i
        BY <1>0, <2>2, <2>7, <2>9, <2>10, <4>1
      <4>2. CASE e = d
        BY <1>0, <2>2, <2>3, <2>7, <2>9, <4>2
      <4>3. CASE e = s /\ t = s
        BY <1>0, <2>2, <2>4, <2>7, <2>9, <4>3
      <4> QED
        BY <2>1, <4>1, <4>2, <4>3
    <3> QED
      BY <3>1 DEF EventInv
  <2> QED
    BY <1>1, <2>11, <2>12, <2>13 DEF HistoryInv
<1> QED
  BY <1>6, <1>7 DEF Init

LEMMA StepsKeep == HistoryInv /\ [Next]_allVars => HistoryInv'
<1> SUFFICES ASSUME HistoryInv, [Next]_allVars
             PROVE  HistoryInv'
  OBVIOUS
<1>1. CASE UNCHANGED allVars
  BY <1>1 DEF allVars, vars, store, HistoryInv, TypeInv, EventInv, BranchInv, AskedInv,
              OperationInv, Known, Sound, NewEvent
<1>2. ASSUME NEW p \in Processes, Decide(p) \/ Commit(p) \/ Create(p), UNCHANGED asked
      PROVE  HistoryInv'
  <2>1. CASE Decide(p)
    BY <1>2, <2>1, DecideKeeps
  <2>2. CASE Commit(p)
    BY <1>2, <2>2, LockBranchKeeps, PutEventKeeps, PutCheckpointKeeps, WriteHeadKeeps DEF Commit
  <2>3. CASE Create(p)
    BY <1>2, <2>3, LockParentKeeps, LockChildKeeps, WriteLineageKeeps, WriteFirstHeadKeeps DEF Create
  <2> QED
    BY <1>2, <2>1, <2>2, <2>3
<1>3. ASSUME NEW p \in Processes, Begin(p), UNCHANGED asked
      PROVE  HistoryInv'
  <2>1. ASSUME NEW b \in Branches, NEW explicit \in 0..MaxExplicit, BeginRun(p, b, explicit)
        PROVE  HistoryInv'
    <3>1. explicit \in Nat
      BY RuntimeConstants
    <3> QED
      BY <1>3, <2>1, <3>1, BeginRunKeeps
  <2> QED
    BY <1>3, <2>1, BeginAdvanceKeeps, BeginForkKeeps, PutCheckpointAgainKeeps DEF Begin
<1>4. ASSUME NEW p \in Processes, Answer(p) \/ Kill(p), UNCHANGED asked
      PROVE  HistoryInv'
  BY <1>4, AnswerKeeps, KillKeeps
<1> QED
  BY <1>1, <1>2, <1>3, <1>4, DispatchKeeps DEF Next, Step

\* Every stored event was made at the end of its branch out of the state the
\* events before it led to, and a process is always at a step its variables and
\* the files fit, whatever the other processes did and whoever was killed.
THEOREM Invariant == Spec => []HistoryInv
  BY InitInv, StepsKeep, PTL DEF Spec

\* The variables always have their types.
THEOREM TypeCorrect == Spec => []TypeOK
<1>1. HistoryInv => TypeOK
  <2> SUFFICES ASSUME HistoryInv
               PROVE  TypeOK
    OBVIOUS
  <2>1. TypeInv /\ \A e \in events : e # <<>>
    BY DEF HistoryInv, EventInv
  <2> QED
    BY <2>1 DEF TypeInv, TypeOK
<1> QED
  BY <1>1, Invariant, PTL

\* A head never names what the store does not hold: verify succeeds for every
\* branch whose head exists, at any time, after any number of kills.
THEOREM HeadsAlwaysResolve == Spec => []HeadsResolve
<1>1. HistoryInv => HeadsResolve
  <2> SUFFICES ASSUME HistoryInv
               PROVE  HeadsResolve
    OBVIOUS
  <2>1. BranchInv /\ checkpoints \subseteq events
    BY DEF HistoryInv, TypeInv
  <2> QED
    BY <2>1 DEF BranchInv, HeadsResolve, IsKept
<1> QED
  BY <1>1, Invariant, PTL

\* replay never raises, and returns the state that the next commit is checked
\* against.
THEOREM ReplayAlwaysReproduces == Spec => []ReplayReproduces
<1>1. HistoryInv => ReplayReproduces
  BY ReplayIsCurrent DEF ReplayReproduces
<1> QED
  BY <1>1, Invariant, PTL

\* No request leaves the machine that the history of its branch does not hold.
THEOREM RequestsAreRecorded == Spec => []AskedIsRecorded
<1>1. HistoryInv => AskedIsRecorded
  BY DEF HistoryInv, AskedInv, IsAttempted, AskedIsRecorded
<1> QED
  BY <1>1, Invariant, PTL

-----------------------------------------------------------------------------
(* The ledger *)

\* The substitution of Ledger.
Created == {b \in Branches : head[b] # None}
Chain == [b \in Branches |-> IF head[b] = None THEN <<>> ELSE head[b].event]

LEMMA WriteHeadAppends ==
    ASSUME HistoryInv, NEW p \in Processes, WriteHead(p)
    PROVE  \E x \in Branches : Ledger!AppendTo(x)
<1> DEFINE b == op[p].branch
           c == op[p].content
           e == head[b].event
           t == NewEvent(p)
           h == [event |-> t, revision |-> head[b].revision + 1]
<1>1. /\ b \in Branches /\ head[b] # None /\ c \in Content /\ e \in Seq(Content)
      /\ t = Append(e, c) /\ head' = [head EXCEPT ![b] = h]
  BY HeadMoves
<1>2. /\ head \in [Branches -> Heads \cup {None}] /\ head[b].revision \in Nat
  BY <1>1, HeadTypes DEF HistoryInv, TypeInv
<1>3. t \in Seq(Content) /\ Len(t) = Len(e) + 1 /\ t[Len(t)] = c
  <2>1. e \in Seq(Content) /\ c \in Content /\ t = Append(e, c)
    BY <1>1
  <2> HIDE DEF e, c, t
  <2> QED
    BY <2>1, Appended, LenProperties
<1> HIDE DEF b, c, e, t
<1>4. h # None /\ h.event = t
  <2>1. h \in Heads
    BY <1>2, <1>3 DEF Heads
  <2> QED
    BY <2>1, NoneIsNothing
<1> HIDE DEF h
<1>5. head'[b] = h /\ \A x \in Branches \ {b} : head'[x] = head[x]
  BY <1>1, <1>2
<1>6. Created' = Created /\ b \in Created
  BY <1>1, <1>4, <1>5 DEF Created
<1>7. Chain[b] = e /\ Chain'[b] = t
  BY <1>1, <1>4, <1>5 DEF Chain, e
<1>8. Chain' = [Chain EXCEPT ![b] = t]
  <2>1. \A x \in Branches \ {b} : Chain'[x] = Chain[x]
    BY <1>5 DEF Chain
  <2>2. Chain = [x \in Branches |-> Chain[x]] /\ Chain' = [x \in Branches |-> Chain'[x]]
    BY DEF Chain
  <2> QED
    BY <1>7, <2>1, <2>2
<1>9. Ledger!Last(Chain'[b]) = c
  BY <1>3, <1>7 DEF Ledger!Last
<1>10. Chain' = [Chain EXCEPT ![b] = Append(@, Ledger!Last(Chain'[b]))]
  BY <1>1, <1>7, <1>8, <1>9
<1>11. Len(Chain'[b]) = Len(Chain[b]) + 1 /\ Ledger!Last(Chain'[b]) \in Content
  BY <1>1, <1>3, <1>7, <1>9
<1> QED
  BY <1>1, <1>6, <1>10, <1>11, Zenon DEF Ledger!AppendTo, Created, Chain

\* A branch gets its first head: of an event before one of its parent, or none.
LEMMA FirstHeadForks ==
    ASSUME HistoryInv, NEW p \in Processes, WriteFirstHead(p)
    PROVE  \E s, t \in Branches : Ledger!ForkFrom(s, t)
<1> DEFINE b == op[p].branch
           base == op[p].base
           h == HeadAt(base.event)
<1>1. /\ b \in Branches /\ head[b] = None /\ IsBase(base, checkpoints)
      /\ base.event \in Seq(Content) /\ h \in Heads /\ head' = [head EXCEPT ![b] = h]
  BY FirstHead
<1>2. /\ head \in [Branches -> Heads \cup {None}] /\ head[Main] # None /\ Main \in Branches
      /\ EventInv /\ checkpoints \subseteq events /\ events \subseteq Seq(Content)
  BY HistoryConstants DEF HistoryInv, TypeInv, BranchInv
<1>3. h # None /\ h.event = base.event
  BY <1>1, NoneIsNothing DEF HeadAt
<1>4. PICK s \in Branches : head[s] # None /\ IsPrefix(base.event, head[s].event)
  <2>1. CASE base = NoLineage
    <3>1. base.event = <<>> /\ head[Main].event \in Seq(Content)
      BY <1>2, <2>1, HeadTypes DEF NoLineage, HistoryInv
    <3> QED
      BY <1>2, <3>1, PrefixItself
  <2>2. ASSUME NEW e \in checkpoints, base = CheckpointOf(e)
        PROVE  \E s \in Branches : head[s] # None /\ IsPrefix(base.event, head[s].event)
    <3>1. /\ e \in Seq(Content) /\ e # <<>> /\ head[Last(e).branch] # None
          /\ IsPrefix(Front(e), head[Last(e).branch].event)
      BY <1>2 DEF EventInv
    <3>2. Last(e).branch \in Branches
      <4>1. Last(e) \in Content
        BY <3>1, FrontProperties
      <4> QED
        BY <4>1 DEF Content
    <3>3. base.event = Front(e)
      BY <2>2 DEF CheckpointOf
    <3> QED
      BY <3>1, <3>2, <3>3
  <2> QED
    BY <1>1, <2>1, <2>2 DEF IsBase
<1>5. head[s].event \in Seq(Content)
  BY <1>4, HeadTypes DEF HistoryInv
<1> DEFINE t == base.event
           n == Len(t)
<1> HIDE DEF b, h, base
<1>6. n \in 0..Len(head[s].event) /\ t = SubSeq(head[s].event, 1, n)
  <2>1. n \in Nat /\ n <= Len(head[s].event)
    BY <1>1, <1>4, <1>5, PrefixPoints, LenProperties
  <2>2. SubSeq(t, 1, n) = SubSeq(head[s].event, 1, n) /\ SubSeq(t, 1, n) = t
    BY <1>1, <1>4, <1>5, <2>1, SameBeginning, SubSeqFull
  <2> QED
    BY <1>5, <2>1, <2>2, LenProperties
<1> HIDE DEF t, n
<1>7. head'[b] = h /\ \A x \in Branches \ {b} : head'[x] = head[x]
  BY <1>1, <1>2
<1>8. s \in Created /\ b \in Branches \ Created /\ Created' = Created \cup {b}
  BY <1>1, <1>3, <1>4, <1>7 DEF Created
<1>9. Chain[s] = head[s].event /\ Chain' = [Chain EXCEPT ![b] = t]
  <2>1. Chain[s] = head[s].event /\ Chain'[b] = t /\ \A x \in Branches \ {b} : Chain'[x] = Chain[x]
    BY <1>1, <1>3, <1>4, <1>7 DEF Chain, t
  <2>2. Chain = [x \in Branches |-> Chain[x]] /\ Chain' = [x \in Branches |-> Chain'[x]]
    BY DEF Chain
  <2> QED
    BY <2>1, <2>2
<1>10. \E k \in 0..Len(Chain[s]) : Chain' = [Chain EXCEPT ![b] = SubSeq(Chain[s], 1, k)]
  BY <1>6, <1>9
<1> QED
  BY <1>1, <1>4, <1>8, <1>10, Zenon DEF Ledger!ForkFrom, Created, Chain

\* Runs, explicit decisions, forks and kills keep the ledger's promise: the
\* events of a branch only get more, one at a time, and a fork begins with
\* events of a branch that exists.
THEOREM HistoryIsLedger == Spec => ImplementsLedger
<1>1. ASSUME HistoryInv, [Next]_allVars
      PROVE  [Ledger!Next]_(Ledger!vars)
  <2>1. CASE head' = head
    BY <2>1 DEF Ledger!vars
  <2>2. ASSUME NEW p \in Processes, WriteHead(p)
        PROVE  Ledger!Next
    BY <1>1, <2>2, WriteHeadAppends DEF Ledger!Next
  <2>3. ASSUME NEW p \in Processes, WriteFirstHead(p)
        PROVE  Ledger!Next
    BY <1>1, <2>3, FirstHeadForks DEF Ledger!Next
  <2>4. ASSUME NEW p \in Processes, Decide(p)
        PROVE  head' = head
    BY <2>4 DEF Decide, Resume, ApplyExplicit, Validated, NoProgress, DecideByCode, RecordRequest,
                DecideRequest, StartAttempt, ReplayPrefix, Replace, Apply, Select, Record,
                RecordAfter, store
  <2>5. ASSUME NEW p \in Processes, Begin(p) \/ Answer(p) \/ Kill(p) \/ Dispatch(p)
        PROVE  head' = head
    BY <2>5 DEF Begin, BeginRun, BeginAdvance, BeginFork, PutCheckpointAgain, Answer, Apply,
                Select, Record, RecordAfter, Kill, Dispatch, store
  <2>6. ASSUME NEW p \in Processes,
               \/ LockBranch(p) \/ PutEvent(p) \/ PutCheckpoint(p)
               \/ LockParent(p) \/ LockChild(p) \/ WriteLineage(p)
        PROVE  head' = head
    BY <2>6 DEF LockBranch, PutEvent, PutCheckpoint, LockParent, LockChild, WriteLineage, store
  <2> QED
    BY <1>1, <2>1, <2>2, <2>3, <2>4, <2>5, <2>6 DEF Next, Step, Commit, Create, allVars, vars, store
<1> QED
  BY <1>1, Invariant, PTL DEF Spec, ImplementsLedger

=============================================================================
