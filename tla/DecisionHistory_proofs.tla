------------------------ MODULE DecisionHistory_proofs ------------------------
(***************************************************************************)
(* More theorems about DecisionRun: what the history of every branch is    *)
(* like, and what the runs that write it know, for any number of           *)
(* connections, branches, candidates, settings and crashes, power losses   *)
(* included.                                                               *)
(***************************************************************************)
EXTENDS DecisionRun_proofs

-----------------------------------------------------------------------------
(* The inductive invariant *)

\* s[i] is an event of a branch whose events are s.
IsTask(e, c) == e.kind = "task" /\ e.conn = c
Before(s, i) == {s[j] : j \in 1..(i - 1)}
HasTask(s, i, c) == \E t \in 1..(i - 1) : IsTask(s[t], c)

\* Decision d is what the answers among the first i - 1 events lead to.
Follows(s, i, d) ==
    \E r \in 1..(i - 1) :
        /\ IsResult(s[r], d.conn, "classifier")
        /\ HasTask(s, r, d.conn)
        /\ \/ d.attempt = "classifier" /\ d = ClassifierDecision(d.conn, s[r].answer)
           \/ /\ d.attempt = "agent" /\ Escalates(s[r].answer)
              /\ \E k \in (r + 1)..(i - 1), p \in BOOLEAN :
                   /\ IsResult(s[k], d.conn, "agent")
                   /\ d = SpecialistDecision(d.conn, s[r].answer, s[k].answer, p)

\* The only event that can follow a start is its result.
ResultsFollow(s) ==
    \A i \in 1..(Len(s) - 1) :
        s[i].kind = "attempt-started" => IsResult(s[i + 1], s[i].conn, s[i].actor)

\* There is one result of each attempt.
OneResult(s) ==
    \A i, j \in 1..Len(s) : \A c \in Connections, a \in Actors :
        IsResult(s[i], c, a) /\ IsResult(s[j], c, a) => i = j

\* The classifier answers a task, and the specialist is asked after it.
InTurn(s) ==
    \A i \in 1..Len(s), c \in Connections :
        /\ IsResult(s[i], c, "classifier") => HasTask(s, i, c)
        /\ IsResult(s[i], c, "agent") => \E r \in 1..(i - 1) : IsResult(s[r], c, "classifier")

OneDecision(s) ==
    \A i, j \in 1..Len(s) :
        s[i].kind = "decision" /\ s[j].kind = "decision" /\ s[i].conn = s[j].conn => i = j

DecisionsFollow(s) ==
    \A i \in 1..Len(s) : s[i].kind = "decision" => Follows(s, i, s[i])

TasksSee(s) ==
    \A i \in 1..Len(s) : s[i].kind = "task" =>
        s[i].prior = {d \in Before(s, i) : d.kind = "decision" /\ Relevant(s[i].conn, d)}

\* Each of these holds of a beginning of s if it holds of s: a fork or a power
\* loss keeps them.
IsRecord(s) ==
    ResultsFollow(s) /\ OneResult(s) /\ InTurn(s)
    /\ OneDecision(s) /\ DecisionsFollow(s) /\ TasksSee(s)

\* What a run in progress knows of the branch whose events are s.
Knows(s) ==
    /\ outcome = "running"
    /\ ops = {e \in ToSet(s) : e.kind = "decision"}
    /\ pc \in {"ask", "record"} =>
          /\ Len(s) > 0 /\ s[Len(s)] = StartOf(conn, actor)
          /\ \A i \in 1..Len(s) : ~IsResult(s[i], conn, actor)
    /\ pc \notin {"ask", "record"} => Len(s) = 0 \/ s[Len(s)].kind # "attempt-started"
    /\ pc # "pick" => \A d \in ops : d.conn # conn
    /\ pc \in {"attempt", "ask", "record", "judge", "decide"} => HasTask(s, Len(s) + 1, conn)
    /\ pc \in {"attempt", "ask", "record", "judge"} /\ actor = "agent" =>
          /\ Escalates(choice)
          /\ \E r \in 1..Len(s) : IsResult(s[r], conn, "classifier") /\ s[r].answer = choice
    /\ pc = "judge" => \E r \in 1..Len(s) : IsResult(s[r], conn, actor) /\ s[r].answer = answer
    /\ pc = "decide" => decision.conn = conn /\ Follows(s, Len(s) + 1, decision)

\* A run that came to its end has decided every connection, and knows what its
\* branch holds.
Returned ==
    outcome \in {"completed", "unresolved"} =>
        /\ pc = "idle" /\ run.branch \in created
        /\ ops = DecisionsOf(run.branch)
        /\ \A c \in Connections : \E d \in ops : d.conn = c

Recorded ==
    /\ \A b \in Branches : IsRecord(chain[b])
    /\ pc # "idle" => Knows(chain[run.branch])
    /\ Returned

HistoryInv == TypeInv /\ Recorded

-----------------------------------------------------------------------------
(* Sequences of events *)

LEMMA Elements ==
    ASSUME NEW S, NEW s \in Seq(S)
    PROVE  /\ Len(s) \in Nat /\ DOMAIN s = 1..Len(s)
           /\ \A i \in 1..Len(s) : s[i] \in S /\ s[i] \in ToSet(s)
           /\ \A x \in ToSet(s) : \E i \in 1..Len(s) : s[i] = x
<1>1. Len(s) \in Nat /\ DOMAIN s = 1..Len(s) /\ \A i \in 1..Len(s) : s[i] \in S
  BY LenProperties, ElementOfSeq
<1>2. ToSet(s) = {s[i] : i \in 1..Len(s)}
  BY <1>1 DEF ToSet
<1> QED
  BY <1>1, <1>2

LEMMA Added ==
    ASSUME NEW S, NEW s \in Seq(S), NEW e \in S
    PROVE  /\ Append(s, e) \in Seq(S) /\ Len(Append(s, e)) = Len(s) + 1 /\ Len(s) \in Nat
           /\ \A i \in 1..Len(s) : Append(s, e)[i] = s[i]
           /\ Append(s, e)[Len(s) + 1] = e
           /\ ToSet(Append(s, e)) = ToSet(s) \cup {e}
<1>1. /\ \A i \in 1..Len(s) : Append(s, e)[i] = s[i]
      /\ Append(s, e)[Len(s) + 1] = e
  BY AppendProperties
<1> QED
  BY <1>1, AppendInSeq, LenProperties

\* What is said of the events before the i-th depends on no others.
LEMMA SameBefore ==
    ASSUME NEW s, NEW t, NEW n \in Nat, \A j \in 1..n : s[j] = t[j], NEW i \in 1..(n + 1)
    PROVE  /\ Before(s, i) = Before(t, i)
           /\ \A c : HasTask(s, i, c) <=> HasTask(t, i, c)
           /\ \A d : Follows(s, i, d) => Follows(t, i, d)
<1>1. \A j \in 1..(i - 1) : s[j] = t[j]
  OBVIOUS
<1>2. Before(s, i) = Before(t, i)
  BY <1>1 DEF Before
<1>3. \A j \in 1..i : \A c : HasTask(s, j, c) <=> HasTask(t, j, c)
  <2> SUFFICES ASSUME NEW j \in 1..i, NEW c
               PROVE  HasTask(s, j, c) <=> HasTask(t, j, c)
    OBVIOUS
  <2>1. \A k \in 1..(j - 1) : s[k] = t[k]
    OBVIOUS
  <2> QED
    BY <2>1 DEF HasTask
<1>4. ASSUME NEW d, Follows(s, i, d)
      PROVE  Follows(t, i, d)
  <2>1. PICK r \in 1..(i - 1) :
          /\ IsResult(s[r], d.conn, "classifier") /\ HasTask(s, r, d.conn)
          /\ \/ d.attempt = "classifier" /\ d = ClassifierDecision(d.conn, s[r].answer)
             \/ /\ d.attempt = "agent" /\ Escalates(s[r].answer)
                /\ \E k \in (r + 1)..(i - 1), p \in BOOLEAN :
                     /\ IsResult(s[k], d.conn, "agent")
                     /\ d = SpecialistDecision(d.conn, s[r].answer, s[k].answer, p)
    BY <1>4 DEF Follows
  <2>2. s[r] = t[r] /\ HasTask(t, r, d.conn)
    <3>1. r \in 1..i
      OBVIOUS
    <3> QED
      BY <1>1, <1>3, <2>1, <3>1
  <2>3. \A k \in (r + 1)..(i - 1) : s[k] = t[k]
    BY <1>1
  <2> QED
    BY <2>1, <2>2, <2>3 DEF Follows
<1>5. i \in 1..i
  OBVIOUS
<1> QED
  BY <1>2, <1>3, <1>4, <1>5

\* A beginning of a record is a record.
LEMMA RecordBegins ==
    ASSUME NEW s \in Seq(Events), IsRecord(s), NEW n \in Nat, n <= Len(s)
    PROVE  IsRecord(SubSeq(s, 1, n))
<1> DEFINE t == SubSeq(s, 1, n)
<1>1. /\ Len(t) = n /\ Len(s) \in Nat /\ \A i \in 1..n : t[i] = s[i]
  <2>1. \A i \in 1..n : s[i] \in Events
    BY Elements
  <2> QED
    BY <2>1, SubSeqProperties, LenProperties
<1> HIDE DEF t
<1>2. \A i \in 1..n : i \in 1..Len(s) /\ i \in 1..(n + 1)
  BY <1>1
<1>3. ResultsFollow(t)
  <2>1. \A i \in 1..(n - 1) : i \in 1..(Len(s) - 1) /\ i \in 1..n /\ i + 1 \in 1..n
    BY <1>1
  <2> QED
    BY <1>1, <2>1 DEF IsRecord, ResultsFollow
<1>4. OneResult(t)
  BY <1>1, <1>2 DEF IsRecord, OneResult
<1>5. OneDecision(t)
  BY <1>1, <1>2 DEF IsRecord, OneDecision
<1>6. ASSUME NEW i \in 1..n
      PROVE  /\ Before(t, i) = Before(s, i) /\ \A c : HasTask(s, i, c) => HasTask(t, i, c)
             /\ \A d : Follows(s, i, d) => Follows(t, i, d)
  <2>1. \A j \in 1..n : s[j] = t[j]
    BY <1>1
  <2> QED
    BY <1>2, <2>1, SameBefore
<1>7. InTurn(t)
  <2>1. ASSUME NEW i \in 1..n, NEW c \in Connections
        PROVE  /\ IsResult(t[i], c, "classifier") => HasTask(t, i, c)
               /\ IsResult(t[i], c, "agent") => \E r \in 1..(i - 1) : IsResult(t[r], c, "classifier")
    <3>1. /\ IsResult(s[i], c, "classifier") => HasTask(s, i, c)
          /\ IsResult(s[i], c, "agent") => \E r \in 1..(i - 1) : IsResult(s[r], c, "classifier")
      BY <1>2 DEF IsRecord, InTurn
    <3>2. \A r \in 1..(i - 1) : t[r] = s[r]
      BY <1>1
    <3> QED
      BY <1>1, <1>6, <3>1, <3>2
  <2> QED
    BY <1>1, <2>1 DEF InTurn
<1>8. DecisionsFollow(t)
  BY <1>1, <1>2, <1>6 DEF IsRecord, DecisionsFollow
<1>9. TasksSee(t)
  BY <1>1, <1>2, <1>6 DEF IsRecord, TasksSee
<1> QED
  BY <1>3, <1>4, <1>5, <1>7, <1>8, <1>9 DEF IsRecord, t

\* What an event must be to be recorded after those of s.
Admits(s, e) ==
    /\ Len(s) > 0 /\ s[Len(s)].kind = "attempt-started" =>
          IsResult(e, s[Len(s)].conn, s[Len(s)].actor)
    /\ \A c \in Connections, a \in Actors :
          IsResult(e, c, a) => \A i \in 1..Len(s) : ~IsResult(s[i], c, a)
    /\ \A c \in Connections :
          /\ IsResult(e, c, "classifier") => HasTask(s, Len(s) + 1, c)
          /\ IsResult(e, c, "agent") => \E r \in 1..Len(s) : IsResult(s[r], c, "classifier")
    /\ e.kind = "decision" =>
          /\ Follows(s, Len(s) + 1, e)
          /\ \A i \in 1..Len(s) : s[i].kind = "decision" => s[i].conn # e.conn
    /\ e.kind = "task" =>
          e.prior = {d \in ToSet(s) : d.kind = "decision" /\ Relevant(e.conn, d)}

LEMMA RecordGrows ==
    ASSUME NEW s \in Seq(Events), NEW e \in Events, IsRecord(s), Admits(s, e)
    PROVE  IsRecord(Append(s, e))
<1> DEFINE t == Append(s, e)
           n == Len(s)
<1>1. /\ Len(t) = n + 1 /\ n \in Nat /\ (\A i \in 1..n : t[i] = s[i]) /\ t[n + 1] = e
      /\ \A i \in 1..(n + 1) : i \in 1..n \/ i = n + 1
  BY Added
<1>2. Before(t, n + 1) = ToSet(s)
  <2>1. ToSet(s) = {s[i] : i \in 1..n}
    BY <1>1, LenProperties DEF ToSet
  <2>2. (n + 1) - 1 = n
    BY <1>1
  <2> HIDE DEF t, n
  <2> QED
    BY <1>1, <2>1, <2>2 DEF Before
<1> HIDE DEF t, n
<1>3. ASSUME NEW i \in 1..(n + 1)
      PROVE  /\ Before(t, i) = Before(s, i) /\ \A c : HasTask(s, i, c) => HasTask(t, i, c)
             /\ \A d : Follows(s, i, d) => Follows(t, i, d)
  <2>1. \A j \in 1..n : s[j] = t[j]
    BY <1>1
  <2> QED
    BY <1>1, <2>1, SameBefore
<1>4. n + 1 \in 1..(n + 1) /\ (n + 1) - 1 = n
  BY <1>1
<1>5. ResultsFollow(t)
  <2>1. ASSUME NEW i \in 1..n, t[i].kind = "attempt-started"
        PROVE  IsResult(t[i + 1], t[i].conn, t[i].actor)
    <3>1. CASE i = n
      BY <1>1, <2>1, <3>1 DEF Admits, n
    <3>2. CASE i # n
      <4>1. i \in 1..(n - 1) /\ i + 1 \in 1..n
        BY <1>1, <3>2
      <4> QED
        BY <1>1, <2>1, <4>1 DEF IsRecord, ResultsFollow, n
    <3> QED
      BY <3>1, <3>2
  <2> QED
    BY <1>1, <1>4, <2>1 DEF ResultsFollow
<1>6. OneResult(t)
  <2>1. \A c \in Connections, a \in Actors : \A i \in 1..n :
          /\ IsResult(e, c, a) => ~IsResult(s[i], c, a)
          /\ \A j \in 1..n : IsResult(s[i], c, a) /\ IsResult(s[j], c, a) => i = j
    BY DEF IsRecord, OneResult, Admits, n
  <2> QED
    BY <1>1, <2>1 DEF OneResult
<1>7. OneDecision(t)
  <2>1. \A i \in 1..n :
          /\ e.kind = "decision" => ~(s[i].kind = "decision" /\ s[i].conn = e.conn)
          /\ \A j \in 1..n : s[i].kind = "decision" /\ s[j].kind = "decision"
                             /\ s[i].conn = s[j].conn => i = j
    BY DEF IsRecord, OneDecision, Admits, n
  <2> QED
    BY <1>1, <2>1 DEF OneDecision
<1>8. InTurn(t)
  <2>1. ASSUME NEW i \in 1..(n + 1), NEW c \in Connections
        PROVE  /\ IsResult(t[i], c, "classifier") => HasTask(t, i, c)
               /\ IsResult(t[i], c, "agent") => \E r \in 1..(i - 1) : IsResult(t[r], c, "classifier")
    <3>1. /\ IsResult(t[i], c, "classifier") => HasTask(s, i, c)
          /\ IsResult(t[i], c, "agent") => \E r \in 1..(i - 1) : IsResult(s[r], c, "classifier")
      <4>1. CASE i \in 1..n
        BY <1>1, <4>1 DEF IsRecord, InTurn, n
      <4>2. CASE i = n + 1
        BY <1>1, <1>4, <4>2 DEF Admits, n
      <4> QED
        BY <1>1, <4>1, <4>2
    <3>2. \A r \in 1..(i - 1) : t[r] = s[r]
      BY <1>1
    <3> QED
      BY <1>3, <3>1, <3>2
  <2> QED
    BY <1>1, <2>1 DEF InTurn
<1>9. DecisionsFollow(t)
  <2>1. ASSUME NEW i \in 1..(n + 1), t[i].kind = "decision"
        PROVE  Follows(s, i, t[i])
    <3>1. CASE i \in 1..n
      BY <1>1, <2>1, <3>1 DEF IsRecord, DecisionsFollow, n
    <3>2. CASE i = n + 1
      BY <1>1, <2>1, <3>2 DEF Admits, n
    <3> QED
      BY <1>1, <3>1, <3>2
  <2> QED
    BY <1>1, <1>3, <2>1 DEF DecisionsFollow
<1>10. TasksSee(t)
  <2>1. ASSUME NEW i \in 1..(n + 1), t[i].kind = "task"
        PROVE  t[i].prior = {d \in Before(t, i) : d.kind = "decision" /\ Relevant(t[i].conn, d)}
    <3>1. CASE i \in 1..n
      <4>1. t[i] = s[i] /\ Before(t, i) = Before(s, i)
        BY <1>1, <1>3, <3>1
      <4> QED
        BY <2>1, <3>1, <4>1 DEF IsRecord, TasksSee, n
    <3>2. CASE i = n + 1
      BY <1>1, <1>2, <2>1, <3>2 DEF Admits
    <3> QED
      BY <1>1, <3>1, <3>2
  <2> QED
    BY <1>1, <2>1 DEF TasksSee
<1> QED
  BY <1>5, <1>6, <1>7, <1>8, <1>9, <1>10 DEF IsRecord, t

-----------------------------------------------------------------------------
(* The steps of a run *)

LEMMA InProgress ==
    ASSUME HistoryInv, pc # "idle"
    PROVE  /\ run \in RunSettings /\ run.branch \in Branches /\ run.branch \in created
           /\ chain[run.branch] \in Seq(Events) /\ IsRecord(chain[run.branch])
           /\ Knows(chain[run.branch]) /\ \A b \in Branches : IsRecord(chain[b])
           /\ actor \in Actors /\ (pc # "pick" => conn \in Connections)
           /\ (pc = "decide" => decision \in Decisions)
BY DEF HistoryInv, Recorded, TypeInv, TypeOK, HistoryTypeOK, RunTypeOK, Placed, RunSettings

\* An event is added to the end of the branch of the run.
LEMMA RunAppends ==
    ASSUME HistoryInv, pc # "idle", NEW e \in Events, AppendEvent(e),
           Admits(chain[run.branch], e)
    PROVE  /\ chain'[run.branch] = Append(chain[run.branch], e)
           /\ \A b \in Branches : IsRecord(chain'[b])
<1>1. /\ chain' = [chain EXCEPT ![run.branch] = Append(chain[run.branch], e)]
      /\ chain \in [Branches -> Seq(Events)]
  BY DEF AppendEvent, HistoryInv, TypeInv, TypeOK, HistoryTypeOK
<1>2. IsRecord(Append(chain[run.branch], e))
  BY InProgress, RecordGrows
<1> QED
  BY <1>1, <1>2, InProgress

\* The decisions of a branch, and what is on it, by their places.
LEMMA Found ==
    ASSUME NEW b \in Branches, chain[b] \in Seq(Events), NEW c, NEW a
    PROVE  /\ TaskOn(b, c) <=> HasTask(chain[b], Len(chain[b]) + 1, c)
           /\ ResultOn(b, c, a) <=> \E i \in 1..Len(chain[b]) : IsResult(chain[b][i], c, a)
           /\ ResultOn(b, c, a) => \E i \in 1..Len(chain[b]) :
                 IsResult(chain[b][i], c, a) /\ chain[b][i].answer = RetainedAnswer(b, c, a)
<1> DEFINE s == chain[b]
<1>1. /\ Len(s) \in Nat /\ (\A i \in 1..Len(s) : s[i] \in ToSet(s))
      /\ \A x \in ToSet(s) : \E i \in 1..Len(s) : s[i] = x
  BY Elements
<1>2. (Len(s) + 1) - 1 = Len(s)
  BY <1>1
<1>3. ResultOn(b, c, a) => \E e \in ToSet(s) : IsResult(e, c, a) /\ RetainedAnswer(b, c, a) = e.answer
  BY RetainedAnswerIsRecorded DEF EventsOf
<1> HIDE DEF s
<1>4. TaskOn(b, c) <=> HasTask(s, Len(s) + 1, c)
  BY <1>1, <1>2 DEF TaskOn, EventsOf, HasTask, IsTask, s
<1>5. ResultOn(b, c, a) <=> \E i \in 1..Len(s) : IsResult(s[i], c, a)
  BY <1>1 DEF ResultOn, EventsOf, s
<1>6. ResultOn(b, c, a) => \E i \in 1..Len(s) : IsResult(s[i], c, a) /\ s[i].answer = RetainedAnswer(b, c, a)
  BY <1>1, <1>3
<1> QED
  BY <1>4, <1>5, <1>6 DEF s

\* What Knows says of the run after an event was added.
LEMMA AddedTask ==
    ASSUME NEW s \in Seq(Events), NEW e \in Events, NEW c
    PROVE  /\ HasTask(s, Len(s) + 1, c) => HasTask(Append(s, e), Len(s) + 1 + 1, c)
           /\ IsTask(e, c) => HasTask(Append(s, e), Len(s) + 1 + 1, c)
<1> DEFINE t == Append(s, e)
<1>1. (\A i \in 1..Len(s) : t[i] = s[i]) /\ t[Len(s) + 1] = e /\ Len(s) \in Nat
  BY Added
<1> HIDE DEF t
<1> QED
  BY <1>1 DEF HasTask, t

LEMMA TaskRecords ==
    ASSUME HistoryInv, EnsureTask
    PROVE  Recorded'
<1> DEFINE s == chain[run.branch]
<1>0. /\ pc = "task" /\ pc' = "attempt" /\ actor' = "classifier"
      /\ UNCHANGED <<run, ops, conn, answer, choice, decision, outcome, calls, crashes>>
  BY DEF EnsureTask
<1>1. /\ run.branch \in Branches /\ s \in Seq(Events) /\ Knows(s) /\ conn \in Connections
      /\ run \in RunSettings /\ \A b \in Branches : IsRecord(chain[b])
  BY <1>0, InProgress
<1>2. /\ outcome = "running" /\ ops = {e \in ToSet(s) : e.kind = "decision"}
      /\ Len(s) = 0 \/ s[Len(s)].kind # "attempt-started"
      /\ \A d \in ops : d.conn # conn
  BY <1>0, <1>1 DEF Knows
<1>3. Returned'
  BY <1>0, <1>2 DEF Returned
<1>4. CASE TaskOn(run.branch, conn)
  <2>1. chain' = chain
    BY <1>4 DEF EnsureTask, history
  <2>2. HasTask(s, Len(s) + 1, conn)
    BY <1>1, <1>4, Found
  <2>3. Knows(chain[run.branch])'
    BY <1>0, <1>2, <2>1, <2>2 DEF Knows
  <2> QED
    BY <1>1, <1>3, <2>1, <2>3 DEF Recorded
<1>5. CASE ~TaskOn(run.branch, conn)
  <2> DEFINE e == TaskFor(conn)
             t == Append(s, e)
  <2>1. /\ e \in Events /\ e.kind = "task" /\ e.conn = conn
        /\ e.prior = {d \in ops : Relevant(conn, d)}
    <3>1. base \in Reports /\ ops \subseteq Decisions
      BY <1>0 DEF HistoryInv, TypeInv, TypeOK, RunTypeOK, Placed
    <3> QED
      BY <1>1, <3>1 DEF TaskFor, Events, Tasks, RunSettings
  <2> HIDE DEF e
  <2>2. Admits(s, e)
    <3>1. \A c, a : ~IsResult(e, c, a)
      BY <2>1 DEF IsResult
    <3>2. e.prior = {d \in ToSet(s) : d.kind = "decision" /\ Relevant(e.conn, d)}
      BY <1>2, <2>1
    <3> QED
      BY <1>2, <2>1, <3>1, <3>2 DEF Admits
  <2>3. AppendEvent(e)
    BY <1>5 DEF EnsureTask, e
  <2>4. chain'[run.branch] = t /\ \A b \in Branches : IsRecord(chain'[b])
    BY <1>0, <2>1, <2>2, <2>3, RunAppends
  <2>5. Len(t) = Len(s) + 1 /\ Len(s) \in Nat /\ t[Len(t)] = e /\ ToSet(t) = ToSet(s) \cup {e}
    BY <1>1, <2>1, Added
  <2>6. HasTask(t, Len(t) + 1, conn)
    BY <1>1, <2>1, <2>5, AddedTask DEF IsTask
  <2> HIDE DEF t
  <2>7. ops = {x \in ToSet(t) : x.kind = "decision"}
    BY <1>2, <2>1, <2>5
  <2>8. Knows(chain[run.branch])'
    BY <1>0, <1>2, <2>1, <2>4, <2>5, <2>6, <2>7 DEF Knows
  <2> QED
    BY <1>3, <2>4, <2>8 DEF Recorded
<1> QED
  BY <1>4, <1>5

LEMMA ReuseRecords ==
    ASSUME HistoryInv, ReuseAttempt
    PROVE  Recorded'
<1> DEFINE s == chain[run.branch]
<1>0. /\ pc = "attempt" /\ pc' = "judge" /\ chain' = chain
      /\ UNCHANGED <<run, ops, conn, actor, choice, decision, outcome>>
      /\ ResultOn(run.branch, conn, actor) /\ answer' = RetainedAnswer(run.branch, conn, actor)
  BY DEF ReuseAttempt, history
<1>1. run.branch \in Branches /\ s \in Seq(Events) /\ Knows(s) /\ \A b \in Branches : IsRecord(chain[b])
  BY <1>0, InProgress
<1>2. \E i \in 1..Len(s) : IsResult(s[i], conn, actor) /\ s[i].answer = answer'
  BY <1>0, <1>1, Found
<1> HIDE DEF s
<1>3. Knows(s) /\ chain'[run'.branch] = s
  BY <1>0, <1>1 DEF s
<1>4. Knows(chain[run.branch])'
  BY <1>0, <1>2, <1>3 DEF Knows
<1>5. Returned'
  BY <1>0, <1>3 DEF Returned, Knows
<1> QED
  BY <1>0, <1>1, <1>4, <1>5 DEF Recorded

LEMMA StartRecords ==
    ASSUME HistoryInv, StartAttempt
    PROVE  Recorded'
<1> DEFINE s == chain[run.branch]
           e == StartOf(conn, actor)
           t == Append(s, e)
<1>0. /\ pc = "attempt" /\ pc' = "ask" /\ AppendEvent(e) /\ ~ResultOn(run.branch, conn, actor)
      /\ UNCHANGED <<run, ops, conn, actor, choice, answer, decision, outcome>>
  BY DEF StartAttempt, memory, attempt
<1>1. /\ run.branch \in Branches /\ s \in Seq(Events) /\ Knows(s) /\ conn \in Connections
      /\ actor \in Actors
  BY <1>0, InProgress
<1>2. /\ outcome = "running" /\ ops = {x \in ToSet(s) : x.kind = "decision"}
      /\ Len(s) = 0 \/ s[Len(s)].kind # "attempt-started"
      /\ \A d \in ops : d.conn # conn
      /\ HasTask(s, Len(s) + 1, conn)
      /\ actor = "agent" => /\ Escalates(choice)
                            /\ \E r \in 1..Len(s) : IsResult(s[r], conn, "classifier") /\ s[r].answer = choice
  BY <1>0, <1>1 DEF Knows
<1>3. \A i \in 1..Len(s) : ~IsResult(s[i], conn, actor)
  BY <1>0, <1>1, Found
<1>4. e \in Events /\ e.kind = "attempt-started" /\ \A c, a : ~IsResult(e, c, a)
  BY <1>1 DEF StartOf, Events, Starts, IsResult
<1>5. e = StartOf(conn, actor)
  OBVIOUS
<1> HIDE DEF e
<1>6. Admits(s, e)
  BY <1>2, <1>4 DEF Admits
<1>7. chain'[run.branch] = t /\ \A b \in Branches : IsRecord(chain'[b])
  BY <1>0, <1>4, <1>6, RunAppends
<1>8. /\ Len(t) = Len(s) + 1 /\ Len(s) \in Nat /\ t[Len(t)] = e /\ ToSet(t) = ToSet(s) \cup {e}
      /\ \A i \in 1..Len(s) : t[i] = s[i]
  BY <1>1, <1>4, Added
<1>9. HasTask(t, Len(t) + 1, conn)
  BY <1>1, <1>2, <1>4, <1>8, AddedTask
<1> HIDE DEF t, s
<1>10. ops = {x \in ToSet(t) : x.kind = "decision"} /\ \A i \in 1..Len(t) : ~IsResult(t[i], conn, actor)
  <2>1. \A i \in 1..Len(t) : i \in 1..Len(s) \/ i = Len(t)
    BY <1>8
  <2> QED
    BY <1>2, <1>3, <1>4, <1>8, <2>1
<1>11. actor = "agent" => \E r \in 1..Len(t) : IsResult(t[r], conn, "classifier") /\ t[r].answer = choice
  <2>1. \A i \in 1..Len(s) : i \in 1..Len(t)
    BY <1>8
  <2> QED
    BY <1>2, <1>8, <2>1
<1>12. Knows(chain[run.branch])'
  BY <1>0, <1>2, <1>5, <1>7, <1>8, <1>9, <1>10, <1>11 DEF Knows
<1>13. Returned'
  BY <1>0, <1>2 DEF Returned
<1> QED
  BY <1>7, <1>12, <1>13 DEF Recorded

LEMMA AskRecords ==
    ASSUME HistoryInv, Ask
    PROVE  Recorded'
<1>0. /\ pc = "ask" /\ pc' = "record" /\ chain' = chain
      /\ UNCHANGED <<run, ops, conn, actor, choice, decision, outcome>>
  BY DEF Ask, history
<1>1. Knows(chain[run.branch]) /\ \A b \in Branches : IsRecord(chain[b])
  BY <1>0, InProgress
<1>2. Knows(chain[run.branch])'
  BY <1>0, <1>1 DEF Knows
<1>3. Returned'
  BY <1>0, <1>1 DEF Returned, Knows
<1> QED
  BY <1>0, <1>1, <1>2, <1>3 DEF Recorded

LEMMA ResultRecords ==
    ASSUME HistoryInv, RecordResult
    PROVE  Recorded'
<1> DEFINE s == chain[run.branch]
           e == [kind |-> "attempt-result", conn |-> conn, actor |-> actor, answer |-> answer]
           t == Append(s, e)
<1>0. /\ pc = "record" /\ pc' = "judge" /\ AppendEvent(e)
      /\ UNCHANGED <<run, ops, conn, actor, choice, answer, decision, outcome>>
  BY DEF RecordResult, memory, attempt
<1>1. /\ run.branch \in Branches /\ s \in Seq(Events) /\ Knows(s) /\ conn \in Connections
      /\ actor \in Actors
  BY <1>0, InProgress
<1>2. /\ outcome = "running" /\ ops = {x \in ToSet(s) : x.kind = "decision"}
      /\ s[Len(s)] = StartOf(conn, actor)
      /\ \A d \in ops : d.conn # conn
      /\ HasTask(s, Len(s) + 1, conn)
      /\ \A i \in 1..Len(s) : ~IsResult(s[i], conn, actor)
      /\ actor = "agent" => /\ Escalates(choice)
                            /\ \E r \in 1..Len(s) : IsResult(s[r], conn, "classifier") /\ s[r].answer = choice
  BY <1>0, <1>1 DEF Knows
<1>4. /\ e \in Events /\ e.kind = "attempt-result" /\ IsResult(e, conn, actor) /\ e.answer = answer
      /\ \A c, a : IsResult(e, c, a) => c = conn /\ a = actor
  BY <1>0, <1>1 DEF HistoryInv, TypeInv, TypeOK, RunTypeOK, Events, Results, IsResult
<1> HIDE DEF e
<1>6. Admits(s, e)
  <2>1. s[Len(s)].conn = conn /\ s[Len(s)].actor = actor
    BY <1>2 DEF StartOf
  <2> QED
    BY <1>2, <1>4, <2>1 DEF Admits
<1>7. chain'[run.branch] = t /\ \A b \in Branches : IsRecord(chain'[b])
  BY <1>0, <1>4, <1>6, RunAppends
<1>8. /\ Len(t) = Len(s) + 1 /\ Len(s) \in Nat /\ t[Len(t)] = e /\ ToSet(t) = ToSet(s) \cup {e}
      /\ \A i \in 1..Len(s) : t[i] = s[i]
  BY <1>1, <1>4, Added
<1>9. HasTask(t, Len(t) + 1, conn)
  BY <1>1, <1>2, <1>4, <1>8, AddedTask
<1> HIDE DEF t, s
<1>10. ops = {x \in ToSet(t) : x.kind = "decision"}
  BY <1>2, <1>4, <1>8
<1>11. /\ \A i \in 1..Len(s) : i \in 1..Len(t)
       /\ Len(t) \in 1..Len(t)
  BY <1>8
<1>12. /\ actor = "agent" => \E r \in 1..Len(t) : IsResult(t[r], conn, "classifier") /\ t[r].answer = choice
       /\ \E r \in 1..Len(t) : IsResult(t[r], conn, actor) /\ t[r].answer = answer
  BY <1>2, <1>4, <1>8, <1>11
<1>13. Knows(chain[run.branch])'
  BY <1>0, <1>2, <1>4, <1>7, <1>8, <1>9, <1>10, <1>12 DEF Knows
<1>14. Returned'
  BY <1>0, <1>2 DEF Returned
<1> QED
  BY <1>7, <1>13, <1>14 DEF Recorded

LEMMA ClassifierRecords ==
    ASSUME HistoryInv, JudgeClassifier
    PROVE  Recorded'
<1> DEFINE s == chain[run.branch]
<1>0. /\ pc = "judge" /\ actor = "classifier" /\ chain' = chain /\ choice' = answer
      /\ UNCHANGED <<run, ops, conn, answer, outcome>>
      /\ \/ actor' = "agent" /\ pc' = "attempt" /\ Escalates(answer)
         \/ pc' = "decide" /\ decision' = ClassifierDecision(conn, answer)
  BY DEF JudgeClassifier, history
<1>1. /\ run.branch \in Branches /\ s \in Seq(Events) /\ Knows(s) /\ conn \in Connections
      /\ IsRecord(s) /\ \A b \in Branches : IsRecord(chain[b])
  BY <1>0, InProgress
<1>2. PICK r \in 1..Len(s) : IsResult(s[r], conn, "classifier") /\ s[r].answer = answer
  BY <1>0, <1>1 DEF Knows
<1>3. HasTask(s, r, conn)
  BY <1>1, <1>2 DEF IsRecord, InTurn
<1>4. pc' = "decide" => decision'.conn = conn /\ Follows(s, Len(s) + 1, decision')
  <2> SUFFICES ASSUME pc' = "decide"
               PROVE  decision'.conn = conn /\ Follows(s, Len(s) + 1, decision')
    OBVIOUS
  <2>1. /\ decision' = ClassifierDecision(conn, answer)
        /\ decision'.conn = conn /\ decision'.attempt = "classifier"
    BY <1>0 DEF ClassifierDecision, Select, LeaveUnresolved
  <2>2. r \in 1..((Len(s) + 1) - 1)
    BY <1>1, LenProperties
  <2> HIDE DEF s
  <2> QED
    BY <1>2, <1>3, <2>1, <2>2 DEF Follows
<1> HIDE DEF s
<1>5. Knows(s) /\ chain'[run'.branch] = s
  BY <1>0, <1>1 DEF s
<1>6. Knows(chain[run.branch])'
  BY <1>0, <1>2, <1>4, <1>5 DEF Knows
<1>7. Returned'
  BY <1>0, <1>5 DEF Returned, Knows
<1> QED
  BY <1>0, <1>1, <1>6, <1>7 DEF Recorded

\* The classifier's answer the run has in memory is the one the specialist was
\* asked after, because there is only one.
LEMMA SpecialistRecords ==
    ASSUME HistoryInv, JudgeSpecialist
    PROVE  Recorded'
<1> DEFINE s == chain[run.branch]
<1>0. /\ pc = "judge" /\ actor = "agent" /\ chain' = chain /\ pc' = "decide"
      /\ UNCHANGED <<run, ops, conn, actor, answer, choice, outcome>>
      /\ decision' = SpecialistDecision(conn, choice, answer, run.provisional)
  BY DEF JudgeSpecialist, history
<1>1. /\ run.branch \in Branches /\ s \in Seq(Events) /\ Knows(s) /\ conn \in Connections
      /\ IsRecord(s) /\ (\A b \in Branches : IsRecord(chain[b])) /\ run.provisional \in BOOLEAN
  BY <1>0, InProgress DEF RunSettings
<1>2. PICK r \in 1..Len(s) : IsResult(s[r], conn, "classifier") /\ s[r].answer = choice
  BY <1>0, <1>1 DEF Knows
<1>3. PICK k \in 1..Len(s) : IsResult(s[k], conn, "agent") /\ s[k].answer = answer
  BY <1>0, <1>1 DEF Knows
<1>4. HasTask(s, r, conn) /\ Escalates(s[r].answer)
  BY <1>0, <1>1, <1>2 DEF IsRecord, InTurn, Knows
<1>5. r < k
  <2>1. PICK i \in 1..(k - 1) : IsResult(s[i], conn, "classifier")
    BY <1>1, <1>3 DEF IsRecord, InTurn
  <2>2. i \in 1..Len(s) /\ "classifier" \in Actors
    BY <1>1, LenProperties DEF Actors
  <2>3. i = r
    BY <1>1, <1>2, <2>1, <2>2 DEF IsRecord, OneResult
  <2> QED
    BY <1>1, <2>1, <2>3, LenProperties
<1>6. decision'.conn = conn /\ decision'.attempt = "agent"
  BY <1>0 DEF SpecialistDecision, Select, LeaveUnresolved
<1>7. Follows(s, Len(s) + 1, decision')
  <2>1. r \in 1..((Len(s) + 1) - 1) /\ k \in (r + 1)..((Len(s) + 1) - 1)
    BY <1>1, <1>5, LenProperties
  <2> HIDE DEF s
  <2> QED
    BY <1>0, <1>1, <1>2, <1>3, <1>4, <1>6, <2>1 DEF Follows
<1> HIDE DEF s
<1>8. Knows(s) /\ chain'[run'.branch] = s
  BY <1>0, <1>1 DEF s
<1>9. Knows(chain[run.branch])'
  BY <1>0, <1>6, <1>7, <1>8 DEF Knows
<1>10. Returned'
  BY <1>0, <1>8 DEF Returned, Knows
<1> QED
  BY <1>0, <1>1, <1>9, <1>10 DEF Recorded

LEMMA DecideRecords ==
    ASSUME HistoryInv, Decide
    PROVE  Recorded'
<1> DEFINE s == chain[run.branch]
           e == decision
           t == Append(s, e)
<1>0. /\ pc = "decide" /\ pc' = "pick" /\ AppendEvent(e) /\ ops' = ops \cup {e}
      /\ UNCHANGED <<run, outcome>>
  BY DEF Decide
<1>1. /\ run.branch \in Branches /\ s \in Seq(Events) /\ Knows(s) /\ conn \in Connections
      /\ e \in Decisions
  BY <1>0, InProgress
<1>2. /\ outcome = "running" /\ ops = {x \in ToSet(s) : x.kind = "decision"}
      /\ Len(s) = 0 \/ s[Len(s)].kind # "attempt-started"
      /\ \A d \in ops : d.conn # conn
      /\ e.conn = conn /\ Follows(s, Len(s) + 1, e)
  BY <1>0, <1>1 DEF Knows
<1>3. e \in Events /\ e.kind = "decision" /\ \A c, a : ~IsResult(e, c, a)
  BY <1>1 DEF Events, Decisions, IsResult
<1> HIDE DEF e
<1>4. \A i \in 1..Len(s) : s[i] \in ToSet(s)
  BY <1>1, Elements
<1>5. Admits(s, e)
  <2>1. \A i \in 1..Len(s) : s[i].kind = "decision" => s[i].conn # e.conn
    BY <1>2, <1>4
  <2> QED
    BY <1>2, <1>3, <2>1 DEF Admits
<1>6. chain'[run.branch] = t /\ \A b \in Branches : IsRecord(chain'[b])
  BY <1>0, <1>3, <1>5, RunAppends
<1>7. /\ Len(t) = Len(s) + 1 /\ Len(s) \in Nat /\ t[Len(t)] = e /\ ToSet(t) = ToSet(s) \cup {e}
  BY <1>1, <1>3, Added
<1> HIDE DEF t, s
<1>8. ops' = {x \in ToSet(t) : x.kind = "decision"}
  BY <1>0, <1>2, <1>3, <1>7
<1>9. Knows(chain[run.branch])'
  BY <1>0, <1>2, <1>3, <1>6, <1>7, <1>8 DEF Knows
<1>10. Returned'
  BY <1>0, <1>2 DEF Returned
<1> QED
  BY <1>6, <1>9, <1>10 DEF Recorded

LEMMA RunStepRecords ==
    ASSUME HistoryInv, Step
    PROVE  Recorded'
<1>1. ASSUME NEW c \in Connections, Pick(c)
      PROVE  Recorded'
  <2>1. /\ pc = "pick" /\ pc' = "task" /\ chain' = chain /\ conn' = c
        /\ UNCHANGED <<run, ops, actor, answer, choice, decision, outcome>>
        /\ \A d \in ops : d.conn # c
    BY <1>1 DEF Pick, history
  <2>2. Knows(chain[run.branch]) /\ \A b \in Branches : IsRecord(chain[b])
    BY <2>1, InProgress
  <2>3. Knows(chain[run.branch])'
    BY <2>1, <2>2 DEF Knows
  <2>4. Returned'
    BY <2>1, <2>2 DEF Returned, Knows
  <2> QED
    BY <2>1, <2>2, <2>3, <2>4 DEF Recorded
<1>2. CASE Finish
  <2>1. /\ pc = "pick" /\ pc' = "idle" /\ UNCHANGED <<created, chain, run, ops>>
        /\ \A c \in Connections : \E d \in ops : d.conn = c
    BY <1>2 DEF Finish, history, memory
  <2>2. /\ Knows(chain[run.branch]) /\ run.branch \in created
        /\ \A b \in Branches : IsRecord(chain[b])
    BY <2>1, InProgress
  <2>3. ops = DecisionsOf(run.branch)
    BY <2>2 DEF Knows, DecisionsOf, EventsOf
  <2>4. Returned'
    BY <2>1, <2>2, <2>3 DEF Returned, DecisionsOf, EventsOf
  <2> QED
    BY <2>1, <2>2, <2>4 DEF Recorded
<1>3. CASE Abort
  BY <1>3 DEF Abort, history, HistoryInv, Recorded, Returned
<1> QED
  BY <1>1, <1>2, <1>3, TaskRecords, ReuseRecords, StartRecords, AskRecords, ResultRecords,
     ClassifierRecords, SpecialistRecords, DecideRecords DEF Step

-----------------------------------------------------------------------------
(* All steps *)

\* A run begins on a branch that has no unfinished attempt.
LEMMA BeginRecords ==
    ASSUME HistoryInv, NEW settings \in Settings, Begin(settings)
    PROVE  Recorded'
<1> DEFINE b == settings.branch
           s == chain[b]
<1>1. /\ pc = "idle" /\ chain' = chain /\ run' = settings /\ outcome' \notin {"completed", "unresolved"}
      /\ pc' # "idle" => /\ pc' = "pick" /\ outcome' = "running"
                         /\ ops' = DecisionsOf(b) /\ ~Pending(b)
  BY DEF Begin
<1>2. b \in Branches /\ s \in Seq(Events) /\ \A x \in Branches : IsRecord(chain[x])
  BY RunConstants DEF RunSettings, HistoryInv, Recorded, TypeInv, TypeOK, HistoryTypeOK
<1>3. pc' # "idle" => Len(s) = 0 \/ s[Len(s)].kind # "attempt-started"
  <2> SUFFICES ASSUME pc' # "idle", Len(s) # 0, s[Len(s)].kind = "attempt-started"
               PROVE  FALSE
    OBVIOUS
  <2>1. Len(s) \in DOMAIN s /\ \A j \in (Len(s) + 1)..Len(s) : FALSE
    BY <1>2, Elements
  <2>2. Pending(b)
    BY <2>1 DEF Pending
  <2> QED
    BY <1>1, <2>2
<1>4. pc' # "idle" => ops' = {e \in ToSet(s) : e.kind = "decision"}
  BY <1>1 DEF DecisionsOf, EventsOf
<1> HIDE DEF s
<1>5. chain'[run'.branch] = s
  BY <1>1 DEF s
<1>6. (pc # "idle" => Knows(chain[run.branch]))'
  BY <1>1, <1>3, <1>4, <1>5 DEF Knows
<1> QED
  BY <1>1, <1>2, <1>6 DEF Recorded, Returned

\* What a fork gives the new branch.
LEMMA Forked ==
    ASSUME HistoryTypeOK, NEW s \in Branches, NEW t \in Branches, NEW c \in Connections,
           Fork(s, t, c)
    PROVE  \E i \in 1..Len(chain[s]) :
              /\ chain[s][i].kind = "task" /\ Len(chain[s]) \in Nat /\ chain[s] \in Seq(Events)
              /\ chain' = [chain EXCEPT ![t] = SubSeq(chain[s], 1, i - 1)]
<1>1. chain[s] \in Seq(Events)
  BY DEF HistoryTypeOK
<1> QED
  BY <1>1, Elements DEF Fork

LEMMA ForkRecords ==
    ASSUME HistoryInv, NEW s \in Branches, NEW t \in Branches, NEW c \in Connections,
           Fork(s, t, c)
    PROVE  Recorded'
<1>1. /\ HistoryTypeOK /\ Returned /\ \A b \in Branches : IsRecord(chain[b])
      /\ chain \in [Branches -> Seq(Events)]
  BY DEF HistoryInv, Recorded, TypeInv, TypeOK, HistoryTypeOK
<1>2. /\ pc = "idle" /\ pc' = "idle" /\ t \notin created /\ created' = created \cup {t}
      /\ UNCHANGED <<run, ops, outcome>>
  BY DEF Fork, memory
<1>3. PICK i \in 1..Len(chain[s]) :
        /\ Len(chain[s]) \in Nat /\ chain[s] \in Seq(Events)
        /\ chain' = [chain EXCEPT ![t] = SubSeq(chain[s], 1, i - 1)]
  BY <1>1, Forked
<1>4. IsRecord(SubSeq(chain[s], 1, i - 1))
  <2>1. i - 1 \in Nat /\ i - 1 <= Len(chain[s])
    BY <1>3
  <2> QED
    BY <1>1, <1>3, <2>1, RecordBegins
<1>5. \A b \in Branches : IsRecord(chain'[b]) /\ (b # t => chain'[b] = chain[b])
  BY <1>1, <1>3, <1>4
<1>6. Returned'
  <2>1. created \subseteq Branches
    BY <1>1 DEF HistoryTypeOK
  <2> QED
    BY <1>1, <1>2, <1>5, <2>1 DEF Returned, DecisionsOf, EventsOf
<1> QED
  BY <1>2, <1>5, <1>6 DEF Recorded

LEMMA NextRecords == HistoryInv /\ [Next]_vars => Recorded'
<1> SUFFICES ASSUME HistoryInv, [Next]_vars
             PROVE  Recorded'
  OBVIOUS
<1>1. CASE UNCHANGED <<created, chain, pc, memory, outcome>>
  BY <1>1 DEF HistoryInv, Recorded, Knows, Returned, memory, attempt, DecisionsOf, EventsOf
<1>2. CASE Kill
  BY <1>2 DEF Kill, HistoryInv, Recorded, Returned
<1>3. CASE LosePower
  <2>1. ASSUME NEW b \in Branches
        PROVE  IsRecord(SubSeq(chain[b], 1, disk.len[b]))
    BY RecordBegins DEF HistoryInv, Recorded, TypeInv, TypeOK, HistoryTypeOK
  <2>2. \A b \in Branches : IsRecord(chain'[b])
    BY <1>3, <2>1 DEF LosePower
  <2> QED
    BY <1>3, <2>2 DEF LosePower, Recorded, Returned
<1> QED
  BY <1>1, <1>2, <1>3, RunStepRecords, BeginRecords, ForkRecords DEF Next, vars, history, WriteBackFiles

LEMMA InitRecords == Init => HistoryInv
<1> SUFFICES ASSUME Init
             PROVE  HistoryInv
  OBVIOUS
<1>1. \A b \in Branches : chain[b] = <<>> /\ Len(chain[b]) = 0
  BY DEF Init
<1>2. \A b \in Branches : IsRecord(chain[b])
  BY <1>1 DEF IsRecord, ResultsFollow, OneResult, InTurn, OneDecision, DecisionsFollow, TasksSee
<1> QED
  BY <1>2, InitType DEF HistoryInv, Recorded, Returned, Init

\* The history of every branch is a record, and a run in progress knows it.
THEOREM Invariant == Spec => []HistoryInv
<1>1. HistoryInv /\ [Next]_vars => HistoryInv'
  BY NextRecords, NextType DEF HistoryInv
<1> QED
  BY <1>1, InitRecords, PTL DEF Spec

-----------------------------------------------------------------------------
(* What follows from it *)

\* Nothing follows an attempt whose result is missing, also after a power loss
\* that took the result back.
THEOREM UnfinishedStaysLast == Spec => []UnfinishedIsLast
<1>1. HistoryInv => UnfinishedIsLast
  <2> SUFFICES ASSUME HistoryInv, NEW b \in Branches, NEW i \in DOMAIN chain[b],
                      chain[b][i].kind = "attempt-started",
                      \A j \in (i + 1)..Len(chain[b]) :
                         ~IsResult(chain[b][j], chain[b][i].conn, chain[b][i].actor)
               PROVE  i = Len(chain[b])
    BY DEF UnfinishedIsLast
  <2>1. chain[b] \in Seq(Events) /\ ResultsFollow(chain[b])
    BY DEF HistoryInv, Recorded, IsRecord, TypeInv, TypeOK, HistoryTypeOK
  <2>2. i \in 1..Len(chain[b]) /\ Len(chain[b]) \in Nat
    BY <2>1, Elements
  <2>3. CASE i < Len(chain[b])
    <3>1. i \in 1..(Len(chain[b]) - 1) /\ i + 1 \in (i + 1)..Len(chain[b])
      BY <2>2, <2>3
    <3> QED
      BY <2>1, <3>1 DEF ResultsFollow
  <2> QED
    BY <2>2, <2>3
<1> QED
  BY <1>1, Invariant, PTL

\* A connection is decided at most once on a branch.
THEOREM DecidedOnce == Spec => []OneDecisionPerConnection
<1>1. HistoryInv => OneDecisionPerConnection
  <2> SUFFICES ASSUME HistoryInv, NEW b \in Branches
               PROVE  OneDecision(chain[b]) /\ DOMAIN chain[b] = 1..Len(chain[b])
    BY DEF OneDecisionPerConnection, OneDecision
  <2>1. chain[b] \in Seq(Events) /\ OneDecision(chain[b])
    BY DEF HistoryInv, Recorded, IsRecord, TypeInv, TypeOK, HistoryTypeOK
  <2> QED
    BY <2>1, Elements
<1> QED
  BY <1>1, Invariant, PTL

\* Every decision of a branch is what the answers recorded before it lead to.
THEOREM DecisionsAreFounded == Spec => []DecisionsFollowAnswers
<1>1. HistoryInv => DecisionsFollowAnswers
  <2> SUFFICES ASSUME HistoryInv, NEW b \in Branches
               PROVE  \A i \in DOMAIN chain[b] : chain[b][i].kind = "decision" =>
                          Follows(chain[b], i, chain[b][i])
    BY DEF DecisionsFollowAnswers, Follows, HasTask, IsTask
  <2>1. chain[b] \in Seq(Events) /\ DecisionsFollow(chain[b])
    BY DEF HistoryInv, Recorded, IsRecord, TypeInv, TypeOK, HistoryTypeOK
  <2> QED
    BY <2>1, Elements DEF DecisionsFollow
<1> QED
  BY <1>1, Invariant, PTL

\* A task froze exactly the relevant decisions that were made before it.
THEOREM TasksAreComplete == Spec => []TasksSeeEarlierDecisions
<1>1. HistoryInv => TasksSeeEarlierDecisions
  <2> SUFFICES ASSUME HistoryInv, NEW b \in Branches
               PROVE  \A i \in DOMAIN chain[b] : chain[b][i].kind = "task" =>
                          chain[b][i].prior = {d \in Before(chain[b], i) :
                              d.kind = "decision" /\ Relevant(chain[b][i].conn, d)}
    BY DEF TasksSeeEarlierDecisions, Before
  <2>1. chain[b] \in Seq(Events) /\ TasksSee(chain[b])
    BY DEF HistoryInv, Recorded, IsRecord, TypeInv, TypeOK, HistoryTypeOK
  <2> QED
    BY <2>1, Elements DEF TasksSee
<1> QED
  BY <1>1, Invariant, PTL

\* What a run returns is what a replay of its branch returns.
THEOREM ReplayReturnsTheSame == Spec => []ReplayReproducesRun
<1>1. HistoryInv => ReplayReproducesRun
  BY DEF HistoryInv, Recorded, Returned, ReplayReproducesRun
<1> QED
  BY <1>1, Invariant, PTL

\* A new branch has no unfinished attempt, whatever its source has.
THEOREM ForksCanRun == Spec => ForkCanRun
<1>1. ASSUME HistoryInv, [Next]_vars
      PROVE  \A b \in created' \ created : ~Pending(b)'
  <2>1. ASSUME NEW s \in Branches, NEW t \in Branches, NEW c \in Connections, Fork(s, t, c)
        PROVE  \A b \in created' \ created : ~Pending(b)'
    <3>1. HistoryTypeOK /\ created' = created \cup {t} /\ chain \in [Branches -> Seq(Events)]
          /\ ResultsFollow(chain[s])
      BY <1>1, <2>1 DEF Fork, HistoryInv, Recorded, IsRecord, TypeInv, TypeOK, HistoryTypeOK
    <3>2. PICK i \in 1..Len(chain[s]) :
            /\ chain[s][i].kind = "task" /\ Len(chain[s]) \in Nat /\ chain[s] \in Seq(Events)
            /\ chain' = [chain EXCEPT ![t] = SubSeq(chain[s], 1, i - 1)]
      BY <2>1, <3>1, Forked
    <3> DEFINE n == i - 1
               u == SubSeq(chain[s], 1, n)
    <3>3. n \in Nat /\ n <= Len(chain[s]) /\ n + 1 = i
      BY <3>2
    <3> HIDE DEF n
    <3>4. u \in Seq(Events) /\ Len(u) = n /\ \A j \in 1..n : u[j] = chain[s][j]
      <4>1. \A j \in 1..n : chain[s][j] \in Events
        BY <3>2, <3>3, Elements
      <4> QED
        BY <3>3, <4>1, SubSeqProperties
    <3>5. chain'[t] = u
      BY <3>1, <3>2 DEF n
    <3> HIDE DEF u
    <3>6. DOMAIN u = 1..n
      BY <3>4, Elements
    <3>7. ASSUME NEW j \in 1..n, u[j].kind = "attempt-started"
          PROVE  \E k \in (j + 1)..n : IsResult(u[k], u[j].conn, u[j].actor)
      <4>1. j \in 1..(Len(chain[s]) - 1) /\ chain[s][j] = u[j]
        BY <3>2, <3>3, <3>4
      <4>2. IsResult(chain[s][j + 1], u[j].conn, u[j].actor)
        BY <3>1, <3>7, <4>1 DEF ResultsFollow
      <4>3. j + 1 # i
        BY <3>2, <4>2 DEF IsResult
      <4>4. j + 1 \in 1..n /\ j + 1 \in (j + 1)..n
        BY <3>3, <4>3
      <4> QED
        BY <3>4, <4>2, <4>4
    <3>8. ~Pending(t)'
      BY <3>4, <3>5, <3>6, <3>7 DEF Pending
    <3> QED
      BY <3>1, <3>8
  <2>2. CASE created' \subseteq created
    BY <2>2
  <2>3. LosePower => created' \subseteq created
    BY <1>1 DEF LosePower, HistoryInv, TypeInv, NoEventsElsewhere
  <2> QED
    BY <1>1, <2>1, <2>2, <2>3
       DEF Next, Step, vars, history, Begin, Pick, Finish, EnsureTask, ReuseAttempt,
           StartAttempt, Ask, RecordResult, JudgeClassifier, JudgeSpecialist, Decide,
           Abort, Kill, WriteBackFiles, AppendEvent
<1>2. HistoryInv /\ [Next]_vars => [\A b \in created' \ created : ~Pending(b)']_vars
  BY <1>1
<1> QED
  BY <1>2, Invariant, PTL DEF Spec, ForkCanRun

===============================================================================
