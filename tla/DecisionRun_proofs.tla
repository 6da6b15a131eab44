------------------------- MODULE DecisionRun_proofs -------------------------
(***************************************************************************)
(* Theorems about DecisionRun, for any number of connections, branches,    *)
(* candidates, settings and crashes.                                       *)
(***************************************************************************)
EXTENDS DecisionRun, SequenceTheorems, WellFoundedInduction, TLAPS

-----------------------------------------------------------------------------
(* Numbers and sequences *)

\* Every nonempty set of naturals has a least element.
LEMMA LeastNatural ==
    ASSUME NEW T, T \subseteq Nat, T # {}
    PROVE  \E x \in T : \A y \in T : x <= y
<1> DEFINE Less == OpToRel(<, Nat)
<1>1. IsWellFoundedOn(Less, Nat)
  BY NatLessThanWellFounded
<1>2. Less = {pair \in Nat \X Nat : pair[1] < pair[2]}
  BY DEF OpToRel
<1> HIDE DEF Less
<1>3. PICK x \in T : \A y \in T : <<y, x>> \notin Less
  BY <1>1, WFMin
<1>4. \A y \in T : ~(y < x)
  BY <1>2, <1>3
<1> QED
  BY <1>4


LEMMA AppendInSeq ==
    ASSUME NEW S, NEW s \in Seq(S), NEW e \in S
    PROVE  /\ Append(s, e) \in Seq(S)
           /\ Len(Append(s, e)) = Len(s) + 1
           /\ ToSet(Append(s, e)) = ToSet(s) \cup {e}
<1>1. /\ Append(s, e) \in Seq(S)
      /\ Len(Append(s, e)) = Len(s) + 1
      /\ \A i \in 1..Len(s) : Append(s, e)[i] = s[i]
      /\ Append(s, e)[Len(s) + 1] = e
  OBVIOUS
<1>2. /\ Len(s) \in Nat
      /\ DOMAIN s = 1..Len(s)
      /\ DOMAIN Append(s, e) = 1..(Len(s) + 1)
  BY <1>1, LenProperties
<1>3. ToSet(s) = {s[i] : i \in 1..Len(s)}
  BY <1>2 DEF ToSet
<1>4. ToSet(Append(s, e)) = {Append(s, e)[i] : i \in 1..(Len(s) + 1)}
  BY <1>2 DEF ToSet
<1>5. ToSet(Append(s, e)) \subseteq ToSet(s) \cup {e}
  BY <1>1, <1>2, <1>3, <1>4
<1>6. ToSet(s) \cup {e} \subseteq ToSet(Append(s, e))
  <2>1. ASSUME NEW x \in ToSet(s) PROVE x \in ToSet(Append(s, e))
    <3>1. PICK i \in 1..Len(s) : x = s[i]
      BY <1>3
    <3>2. i \in 1..(Len(s) + 1) /\ Append(s, e)[i] = x
      BY <3>1, <1>1, <1>2
    <3> QED
      BY <3>2, <1>4
  <2>2. e \in ToSet(Append(s, e))
    <3>1. Len(s) + 1 \in 1..(Len(s) + 1)
      BY <1>2
    <3> QED
      BY <3>1, <1>1, <1>4
  <2> QED
    BY <2>1, <2>2
<1> QED
  BY <1>1, <1>5, <1>6

LEMMA PrefixInSeq ==
    ASSUME NEW S, NEW s \in Seq(S), NEW n \in Nat, n <= Len(s)
    PROVE  /\ SubSeq(s, 1, n) \in Seq(S)
           /\ Len(SubSeq(s, 1, n)) = n
           /\ IsPrefix(SubSeq(s, 1, n), s)
<1>1. \A i \in 1..n : s[i] \in S
  BY ElementOfSeq, LenProperties
<1>2. /\ SubSeq(s, 1, n) \in Seq(S)
      /\ Len(SubSeq(s, 1, n)) = n
  BY <1>1, SubSeqProperties
<1>3. SubSeq(SubSeq(s, 1, n), 1, n) = SubSeq(s, 1, n)
  BY <1>2, SubSeqFull
<1> QED
  BY <1>2, <1>3 DEF IsPrefix

-----------------------------------------------------------------------------
(* Operators of the model *)

LEMMA DecisionsAreDecisions ==
    ASSUME NEW c \in Connections, NEW a, NEW p, NEW permitted \in BOOLEAN
    PROVE  /\ ClassifierDecision(c, a) \in Decisions
           /\ SpecialistDecision(c, a, p, permitted) \in Decisions
<1>1. Admitted[c] \subseteq Candidates
  BY RunConstants
<1>2. MarkerOf(a) \in Markers \cup {NoMarker}
  BY DEF MarkerOf
<1> QED
  BY <1>1, <1>2 DEF ClassifierDecision, SpecialistDecision, Select, LeaveUnresolved,
                    Decisions, Actors

LEMMA DecisionsOfType ==
    ASSUME NEW b \in Branches, chain \in [Branches -> Seq(Events)]
    PROVE  DecisionsOf(b) \subseteq Decisions
<1>1. ASSUME NEW e \in EventsOf(b) PROVE e \in Events
  <2>1. chain[b] \in Seq(Events)
    OBVIOUS
  <2>2. PICK i \in DOMAIN chain[b] : e = chain[b][i]
    BY DEF EventsOf, ToSet
  <2> QED
    BY <2>1, <2>2, ElementOfSeq, LenProperties
<1>2. ASSUME NEW e \in Events, e.kind = "decision" PROVE e \in Decisions
  BY <1>2 DEF Events, Decisions, Tasks, Starts, Results
<1> QED
  BY <1>1, <1>2 DEF DecisionsOf
\* attempt_result returns the answer of the first of the recorded results.
LEMMA RetainedAnswerIsRecorded ==
    ASSUME NEW b \in Branches, chain[b] \in Seq(Events), NEW c, NEW a, ResultOn(b, c, a)
    PROVE  /\ \E e \in EventsOf(b) : IsResult(e, c, a) /\ RetainedAnswer(b, c, a) = e.answer
           /\ RetainedAnswer(b, c, a) \in ClassifierAnswers \cup SpecialistAnswers
<1> DEFINE Places == {i \in DOMAIN chain[b] : IsResult(chain[b][i], c, a)}
           First(i) == /\ IsResult(chain[b][i], c, a)
                       /\ \A j \in 1..(i - 1) : ~IsResult(chain[b][j], c, a)
<1>1. DOMAIN chain[b] = 1..Len(chain[b]) /\ Len(chain[b]) \in Nat
  BY LenProperties
<1>2. PICK i \in Places : \A j \in Places : i <= j
  <2>1. Places # {} /\ Places \subseteq Nat
    BY <1>1 DEF ResultOn, EventsOf, ToSet
  <2> QED
    BY <2>1, LeastNatural
<1>3. \E k \in DOMAIN chain[b] : First(k)
  BY <1>1, <1>2
<1> DEFINE k == CHOOSE k \in DOMAIN chain[b] : First(k)
<1>4. k \in DOMAIN chain[b] /\ First(k)
  BY <1>3
<1>5. RetainedAnswer(b, c, a) = chain[b][k].answer
  BY DEF RetainedAnswer
<1> HIDE DEF k
<1>6. chain[b][k] \in EventsOf(b)
  BY <1>4 DEF EventsOf, ToSet
<1>7. chain[b][k] \in Events
  BY <1>1, <1>4, ElementOfSeq
<1>8. \A e \in Events : IsResult(e, c, a) => e \in Results
  BY DEF Events, Decisions, Tasks, Starts, Results, IsResult
<1>9. RetainedAnswer(b, c, a) \in ClassifierAnswers \cup SpecialistAnswers
  BY <1>4, <1>5, <1>7, <1>8 DEF Results
<1> QED
  BY <1>4, <1>5, <1>6, <1>9

-----------------------------------------------------------------------------
(* Type correctness *)

\* The type invariant, and what holds where the run is: the base is retained
\* and the branch exists as long as a run is in progress, a connection has been
\* picked inside the loop and an operation is ready when it is to be appended.
\* A name that is not yet a branch has no events, here or on the disk, and the
\* disk knows no branch that is not there.
Placed ==
    /\ pc # "idle" => base \in Reports /\ run.branch \in created
    /\ pc \notin {"idle", "pick"} => conn \in Connections
    /\ pc = "decide" => decision \in Decisions

NoEventsElsewhere ==
    /\ \A b \in Branches \ created : Len(chain[b]) = 0
    /\ \A b \in Branches \ disk.created : disk.len[b] = 0
    /\ disk.created \subseteq created

TypeInv == TypeOK /\ Placed /\ NoEventsElsewhere

\* Appending an event of the right type keeps the history well typed.
LEMMA AppendEventType ==
    ASSUME HistoryTypeOK, run \in RunSettings, NEW e \in Events, AppendEvent(e)
    PROVE  HistoryTypeOK'
<1>1. /\ chain \in [Branches -> Seq(Events)]
      /\ run.branch \in Branches
  BY DEF HistoryTypeOK, RunSettings
<1>2. chain' = [chain EXCEPT ![run.branch] = Append(chain[run.branch], e)]
  BY DEF AppendEvent
<1>3. /\ Append(chain[run.branch], e) \in Seq(Events)
      /\ Len(Append(chain[run.branch], e)) = Len(chain[run.branch]) + 1
  BY <1>1, AppendInSeq
<1>4. \A b \in Branches : Len(chain[b]) \in Nat /\ disk.len[b] \in Nat
  BY <1>1, LenProperties DEF HistoryTypeOK
<1>5. \A b \in Branches : disk.len[b] <= Len(chain'[b])
  BY <1>1, <1>2, <1>3, <1>4 DEF HistoryTypeOK
<1>6. chain' \in [Branches -> Seq(Events)]
  BY <1>1, <1>2, <1>3
<1> QED
  BY <1>5, <1>6 DEF AppendEvent, HistoryTypeOK

LEMMA InitType == Init => TypeInv
<1> SUFFICES ASSUME Init PROVE TypeInv
  OBVIOUS
<1> USE RunConstants DEF Init
<1>1. HistoryTypeOK
  <2>1. \A b \in Branches : chain[b] = <<>> /\ Len(chain[b]) = 0
    OBVIOUS
  <2>2. chain \in [Branches -> Seq(Events)]
    OBVIOUS
  <2> QED
    BY <2>1, <2>2 DEF HistoryTypeOK
<1>2. RunTypeOK
  BY DEF RunTypeOK, Actors, ClassifierAnswers
<1> QED
  BY <1>1, <1>2 DEF TypeInv, TypeOK, Placed, NoEventsElsewhere

\* Steps that leave the files alone.
LEMMA HistoryTypeUnchanged ==
    ASSUME HistoryTypeOK, UNCHANGED history
    PROVE  HistoryTypeOK'
BY DEF HistoryTypeOK, history

LEMMA RunStepType ==
    ASSUME TypeInv, Step
    PROVE  TypeOK' /\ Placed'
<1> USE DEF TypeInv, TypeOK, Placed
<1>0. run \in RunSettings /\ run.branch \in Branches /\ Admitted \in [Connections -> SUBSET Candidates]
  BY RunConstants DEF RunTypeOK, RunSettings
<1>1. CASE \E c \in Connections : Pick(c)
  <2>1. HistoryTypeOK'
    BY <1>1, HistoryTypeUnchanged DEF Pick
  <2> QED
    BY <1>1, <2>1 DEF RunTypeOK, Pick, history
<1>2. CASE Finish
  <2>1. HistoryTypeOK'
    BY <1>2, HistoryTypeUnchanged DEF Finish
  <2> QED
    BY <1>2, <2>1 DEF RunTypeOK, Finish, history, memory, attempt
<1>3. CASE EnsureTask
  <2>1. TaskFor(conn) \in Events
    BY <1>3 DEF EnsureTask, RunTypeOK, TaskFor, Events, Tasks, RunSettings
  <2>2. HistoryTypeOK' /\ base' = base /\ created' = created
    BY <1>0, <1>3, <2>1, AppendEventType, HistoryTypeUnchanged
       DEF EnsureTask, AppendEvent, history
  <2> QED
    BY <1>3, <2>2 DEF RunTypeOK, EnsureTask, Actors
<1>4. CASE ReuseAttempt
  <2>1. HistoryTypeOK'
    BY <1>4, HistoryTypeUnchanged DEF ReuseAttempt
  <2>2. answer' \in ClassifierAnswers \cup SpecialistAnswers
    <3>1. RetainedAnswer(run.branch, conn, actor) \in ClassifierAnswers \cup SpecialistAnswers
      BY <1>0, <1>4, RetainedAnswerIsRecorded DEF ReuseAttempt, HistoryTypeOK
    <3> QED
      BY <1>4, <3>1 DEF ReuseAttempt
  <2> QED
    BY <1>4, <2>1, <2>2 DEF RunTypeOK, ReuseAttempt, history
<1>5. CASE StartAttempt
  <2>1. StartOf(conn, actor) \in Events
    BY <1>5 DEF StartAttempt, RunTypeOK, StartOf, Events, Starts
  <2>2. HistoryTypeOK' /\ base' = base /\ created' = created
    BY <1>0, <1>5, <2>1, AppendEventType DEF StartAttempt, AppendEvent
  <2> QED
    BY <1>5, <2>2 DEF RunTypeOK, StartAttempt, memory, attempt
<1>6. CASE Ask
  <2>1. HistoryTypeOK'
    BY <1>6, HistoryTypeUnchanged DEF Ask
  <2>2. answer' \in ClassifierAnswers \cup SpecialistAnswers
    BY <1>6 DEF Ask, RunTypeOK, Actors, Answers, ClassifierAnswers
  <2>3. calls' \in [Branches -> [Connections -> [Actors -> Nat]]]
    <3>1. /\ conn \in Connections /\ actor \in Actors
          /\ calls \in [Branches -> [Connections -> [Actors -> Nat]]]
      BY <1>6 DEF Ask, RunTypeOK
    <3> DEFINE ofBranch == calls[run.branch]
               ofConn == ofBranch[conn]
    <3>2. ofBranch \in [Connections -> [Actors -> Nat]] /\ ofConn \in [Actors -> Nat]
      BY <1>0, <3>1
    <3>3. [ofConn EXCEPT ![actor] = ofConn[actor] + 1] \in [Actors -> Nat]
      BY <3>1, <3>2
    <3>4. [ofBranch EXCEPT ![conn] = [ofConn EXCEPT ![actor] = ofConn[actor] + 1]]
            \in [Connections -> [Actors -> Nat]]
      BY <3>1, <3>2, <3>3
    <3>5. \/ calls' = calls
          \/ calls' = [calls EXCEPT ![run.branch] =
                [ofBranch EXCEPT ![conn] = [ofConn EXCEPT ![actor] = ofConn[actor] + 1]]]
      BY <1>6 DEF Ask
    <3> QED
      BY <1>0, <3>1, <3>4, <3>5
  <2> QED
    BY <1>6, <2>1, <2>2, <2>3 DEF RunTypeOK, Ask, history
<1>7. CASE RecordResult
  <2>1. [kind |-> "attempt-result", conn |-> conn, actor |-> actor, answer |-> answer]
          \in Events
    BY <1>7 DEF RecordResult, RunTypeOK, Events, Results
  <2>2. HistoryTypeOK' /\ base' = base /\ created' = created
    BY <1>0, <1>7, <2>1, AppendEventType DEF RecordResult, AppendEvent
  <2> QED
    BY <1>7, <2>2 DEF RunTypeOK, RecordResult, memory, attempt
<1>8. CASE JudgeClassifier
  <2>1. HistoryTypeOK'
    BY <1>8, HistoryTypeUnchanged DEF JudgeClassifier
  <2>2. ClassifierDecision(conn, answer) \in Decisions
    BY <1>8, DecisionsAreDecisions DEF JudgeClassifier
  <2> QED
    BY <1>8, <2>1, <2>2 DEF RunTypeOK, JudgeClassifier, history, Actors
<1>9. CASE JudgeSpecialist
  <2>1. HistoryTypeOK'
    BY <1>9, HistoryTypeUnchanged DEF JudgeSpecialist
  <2>2. SpecialistDecision(conn, choice, answer, run.provisional) \in Decisions
    BY <1>0, <1>9, DecisionsAreDecisions DEF JudgeSpecialist, RunSettings
  <2> QED
    BY <1>9, <2>1, <2>2 DEF RunTypeOK, JudgeSpecialist, history
<1>10. CASE Decide
  <2>1. decision \in Decisions /\ decision \in Events
    BY <1>10 DEF Decide, Events
  <2>2. HistoryTypeOK' /\ base' = base /\ created' = created
    BY <1>0, <1>10, <2>1, AppendEventType DEF Decide, AppendEvent
  <2> QED
    BY <1>10, <2>1, <2>2 DEF RunTypeOK, Decide, ForgetConnection, Actors, ClassifierAnswers
<1>11. CASE Abort
  <2>1. HistoryTypeOK'
    BY <1>11, HistoryTypeUnchanged DEF Abort
  <2> QED
    BY <1>11, <2>1 DEF RunTypeOK, Abort, ForgetConnection, history, Actors, ClassifierAnswers
<1> QED
  BY <1>1, <1>2, <1>3, <1>4, <1>5, <1>6, <1>7, <1>8, <1>9, <1>10, <1>11 DEF Step

\* The other steps: a start of a run, a fork, a failure.
LEMMA NextTypeOK ==
    ASSUME TypeInv, [Next]_vars
    PROVE  TypeOK' /\ Placed'
<1> USE DEF TypeInv, TypeOK, Placed
<1>1. ASSUME NEW settings \in Settings, Begin(settings)
      PROVE  TypeOK' /\ Placed'
  <2>1. settings \in RunSettings
    BY RunConstants
  <2>2. DecisionsOf(settings.branch) \subseteq Decisions
    BY <2>1, DecisionsOfType DEF HistoryTypeOK, RunSettings
  <2>3. HistoryTypeOK' /\ base' \in Reports \cup {NoBase} /\ created' = created
    BY <1>1, <2>1 DEF Begin, EnsureBase, HistoryTypeOK, RunSettings
  <2>4. RunTypeOK'
    BY <1>1, <2>1, <2>2 DEF Begin, RunTypeOK, attempt
  <2>5. pc' # "idle" => base' \in Reports /\ run'.branch \in created'
    BY <1>1, <2>1, <2>3 DEF Begin, EnsureBase, RunSettings
  <2>6. pc' \in {"idle", "pick"}
    BY <1>1 DEF Begin
  <2> QED
    BY <2>3, <2>4, <2>5, <2>6
<1>2. CASE Step
  BY <1>2, RunStepType
<1>3. ASSUME NEW s \in Branches, NEW t \in Branches, NEW c \in Connections, Fork(s, t, c)
      PROVE  TypeOK' /\ Placed'
  <2>1. PICK i \in DOMAIN chain[s] :
          chain' = [chain EXCEPT ![t] = SubSeq(chain[s], 1, i - 1)]
    BY <1>3 DEF Fork
  <2>2. chain[s] \in Seq(Events) /\ i - 1 \in Nat /\ i - 1 <= Len(chain[s])
    BY LenProperties DEF HistoryTypeOK
  <2>3. SubSeq(chain[s], 1, i - 1) \in Seq(Events)
    BY <2>2, PrefixInSeq
  <2>4. chain' \in [Branches -> Seq(Events)]
    BY <2>1, <2>3 DEF HistoryTypeOK
  <2>5. \A b \in Branches : disk'.len[b] <= Len(chain'[b])
    <3>1. t \notin created /\ disk' = disk /\ Len(chain[t]) = 0
      BY <1>3 DEF Fork, NoEventsElsewhere
    <3>2. disk.len[t] \in Nat /\ disk.len[t] <= 0
      BY <3>1 DEF HistoryTypeOK
    <3>3. disk.len[t] <= Len(chain'[t])
      BY <2>1, <2>4, <3>2, LenProperties DEF HistoryTypeOK
    <3>4. ASSUME NEW b \in Branches, b # t PROVE disk.len[b] <= Len(chain'[b])
      BY <2>1, <3>4 DEF HistoryTypeOK
    <3> QED
      BY <3>1, <3>3, <3>4
  <2>6. HistoryTypeOK'
    BY <1>3, <2>4, <2>5 DEF Fork, HistoryTypeOK
  <2> QED
    BY <1>3, <2>6 DEF Fork, RunTypeOK, memory, attempt
<1>4. CASE Kill
  <2>1. file' \in {"clean", "open", "torn"}
    BY <1>4 DEF Kill, HistoryTypeOK
  <2>2. HistoryTypeOK'
    BY <1>4, <2>1 DEF Kill, HistoryTypeOK
  <2> QED
    BY <1>4, <2>2, RunConstants
       DEF Kill, RunTypeOK, ForgetConnection, Actors, ClassifierAnswers
<1>5. CASE WriteBackFiles
  <2>1. /\ \A b \in Branches : Len(chain[b]) \in Nat
        /\ chain' = chain /\ base' = base /\ created' = created /\ file' = file
    BY <1>5, LenProperties DEF WriteBackFiles, HistoryTypeOK
  <2>2. HistoryTypeOK'
    BY <1>5, <2>1 DEF WriteBackFiles, HistoryTypeOK
  <2> QED
    BY <1>5, <2>2 DEF WriteBackFiles, RunTypeOK, memory, attempt
<1>6. CASE LosePower
  <2>1. \A b \in Branches : /\ SubSeq(chain[b], 1, disk.len[b]) \in Seq(Events)
                            /\ Len(SubSeq(chain[b], 1, disk.len[b])) = disk.len[b]
    BY PrefixInSeq DEF HistoryTypeOK
  <2>2. chain' \in [Branches -> Seq(Events)]
    BY <1>6, <2>1 DEF LosePower
  <2>3. \A b \in Branches : disk'.len[b] <= Len(chain'[b])
    BY <1>6, <2>1 DEF LosePower, HistoryTypeOK
  <2>4. HistoryTypeOK'
    BY <1>6, <2>2, <2>3 DEF LosePower, HistoryTypeOK
  <2> QED
    BY <1>6, <2>4, RunConstants
       DEF LosePower, RunTypeOK, ForgetConnection, Actors, ClassifierAnswers
<1>7. CASE UNCHANGED vars
  BY <1>7, HistoryTypeUnchanged DEF vars, RunTypeOK, memory, attempt, history
<1> QED
  BY <1>1, <1>2, <1>3, <1>4, <1>5, <1>6, <1>7 DEF Next

\* Only a branch that exists gets events, and a fork of a name makes it one.
LEMMA NoEventsElsewhereStep ==
    ASSUME TypeInv, [Next]_vars
    PROVE  NoEventsElsewhere'
<1> USE DEF TypeInv, NoEventsElsewhere
<1>1. CASE UNCHANGED <<created, chain, disk>>
  BY <1>1
<1>2. ASSUME NEW e, AppendEvent(e), pc # "idle"
      PROVE  NoEventsElsewhere'
  <2>1. run.branch \in created
    BY <1>2 DEF Placed
  <2> QED
    BY <1>2, <2>1 DEF AppendEvent, TypeOK, HistoryTypeOK
<1>3. ASSUME NEW s \in Branches, NEW t \in Branches, NEW c \in Connections, Fork(s, t, c)
      PROVE  NoEventsElsewhere'
  BY <1>3 DEF Fork, TypeOK, HistoryTypeOK
<1>4. CASE WriteBackFiles
  BY <1>4 DEF WriteBackFiles
<1>5. CASE LosePower
  <2>1. \A b \in Branches : Len(SubSeq(chain[b], 1, disk.len[b])) = disk.len[b]
    BY PrefixInSeq DEF TypeOK, HistoryTypeOK
  <2> QED
    BY <1>5, <2>1 DEF LosePower
<1> QED
  BY <1>1, <1>2, <1>3, <1>4, <1>5
     DEF Next, Step, vars, history, Begin, Pick, Finish, EnsureTask, ReuseAttempt,
         StartAttempt, Ask, RecordResult, JudgeClassifier, JudgeSpecialist, Decide,
         Abort, Kill

LEMMA NextType == TypeInv /\ [Next]_vars => TypeInv'
BY NextTypeOK, NoEventsElsewhereStep DEF TypeInv

\* Every variable keeps its type, whatever is killed, forked or lost.
THEOREM TypeCorrect == Spec => []TypeOK
<1>1. Init => TypeInv
  BY InitType
<1>2. TypeInv /\ [Next]_vars => TypeInv'
  BY NextType
<1>3. TypeInv => TypeOK
  BY DEF TypeInv
<1> QED
  BY <1>1, <1>2, <1>3, PTL DEF Spec

-----------------------------------------------------------------------------
(* A started attempt is not silently repeated *)

\* RequestsAreRecorded is inductive with the types, as long as no power loss
\* takes branches.json back; it leaves no room for a second request, because
\* a run sends one only right after it recorded a start that was not there.
CallInv ==
    /\ TypeInv
    /\ RequestsAreRecorded
    /\ NoSecondCall

LEMMA AppendedEvents ==
    ASSUME HistoryTypeOK, run \in RunSettings, NEW e \in Events, AppendEvent(e)
    PROVE  /\ \A b \in Branches : ToSet(chain[b]) \subseteq ToSet(chain'[b])
           /\ ToSet(chain'[run.branch]) = ToSet(chain[run.branch]) \cup {e}
<1>1. /\ chain \in [Branches -> Seq(Events)]
      /\ run.branch \in Branches
  BY DEF HistoryTypeOK, RunSettings
<1>2. chain' = [chain EXCEPT ![run.branch] = Append(chain[run.branch], e)]
  BY DEF AppendEvent
<1>3. ToSet(Append(chain[run.branch], e)) = ToSet(chain[run.branch]) \cup {e}
  BY <1>1, AppendInSeq
<1> QED
  BY <1>1, <1>2, <1>3

\* When no attempt is unfinished, every start has its result.
LEMMA NothingPending ==
    ASSUME NEW b \in Branches, chain[b] \in Seq(Events), ~Pending(b),
           NEW c, NEW a, StartOf(c, a) \in EventsOf(b)
    PROVE  ResultOn(b, c, a)
<1>1. PICK i \in DOMAIN chain[b] : chain[b][i] = StartOf(c, a)
  BY DEF EventsOf, ToSet
<1>2. /\ chain[b][i].kind = "attempt-started"
      /\ chain[b][i].conn = c /\ chain[b][i].actor = a
  BY <1>1 DEF StartOf
<1>3. PICK j \in (i + 1)..Len(chain[b]) : IsResult(chain[b][j], c, a)
  BY <1>2 DEF Pending
<1>4. j \in DOMAIN chain[b]
  BY <1>3, LenProperties
<1> QED
  BY <1>3, <1>4 DEF ResultOn, EventsOf, ToSet

LEMMA AppendKeepsSent ==
    ASSUME TypeInv, SentWasStarted, NEW e \in Events, AppendEvent(e), UNCHANGED calls
    PROVE  SentWasStarted'
<1>1. \A b \in Branches : ToSet(chain[b]) \subseteq ToSet(chain'[b])
  BY AppendedEvents DEF TypeInv, TypeOK, RunTypeOK
<1> QED
  BY <1>1 DEF SentWasStarted, AppendEvent, EventsOf

\* Steps of a run that add an event which is no start: the open attempt, if
\* any, is still the current one.
LEMMA AppendKeepsOpen ==
    ASSUME TypeInv, OpenIsCurrent, NEW e \in Events, AppendEvent(e),
           e.kind # "attempt-started", UNCHANGED run, pc # "idle",
           NEW c \in Connections, NEW a \in Actors,
           StartOf(c, a) \in ToSet(chain'[run.branch]),
           \A r \in ToSet(chain'[run.branch]) : ~IsResult(r, c, a)
    PROVE  pc \in {"ask", "record"} /\ c = conn /\ a = actor
<1>1. ToSet(chain'[run.branch]) = ToSet(chain[run.branch]) \cup {e}
  BY AppendedEvents DEF TypeInv, TypeOK, RunTypeOK
<1>2. StartOf(c, a) # e
  BY DEF StartOf
<1> QED
  BY <1>1, <1>2 DEF OpenIsCurrent, EventsOf, ResultOn

LEMMA RunStepCalls ==
    ASSUME CallInv, Step
    PROVE  RequestsAreRecorded' /\ NoSecondCall'
<1> USE DEF CallInv, RequestsAreRecorded
<1>0. /\ HistoryTypeOK /\ RunTypeOK /\ Placed
      /\ run \in RunSettings /\ run.branch \in Branches /\ actor \in Actors
      /\ calls \in [Branches -> [Connections -> [Actors -> Nat]]]
  BY DEF TypeInv, TypeOK, RunTypeOK, RunSettings
<1>1. CASE /\ UNCHANGED <<history, run, calls>>
           /\ pc # "idle" /\ pc \notin {"ask", "record"}
           /\ pc' \notin {"ask"}
  BY <1>1 DEF history, SentWasStarted, OpenIsCurrent, AskIsNew, NoSecondCall,
              EventsOf, ResultOn
<1>2. CASE EnsureTask /\ ~TaskOn(run.branch, conn)
  <2>1. TaskFor(conn) \in Events /\ TaskFor(conn).kind # "attempt-started"
    BY <1>0, <1>2 DEF EnsureTask, RunTypeOK, HistoryTypeOK, TaskFor, Events, Tasks,
                      RunSettings, Placed
  <2>2. AppendEvent(TaskFor(conn)) /\ UNCHANGED <<run, calls>> /\ pc = "task" /\ pc' = "attempt"
    BY <1>2 DEF EnsureTask
  <2>3. SentWasStarted'
    BY <2>1, <2>2, AppendKeepsSent
  <2>4. OpenIsCurrent'
    BY <2>1, <2>2, AppendKeepsOpen DEF OpenIsCurrent, EventsOf, ResultOn
  <2> QED
    BY <2>2, <2>3, <2>4 DEF AskIsNew, NoSecondCall
<1>3. CASE StartAttempt
  <2>1. /\ AppendEvent(StartOf(conn, actor)) /\ UNCHANGED <<memory, run, conn, actor, calls>>
        /\ pc = "attempt" /\ pc' = "ask"
        /\ ~ResultOn(run.branch, conn, actor) /\ conn \in Connections
    BY <1>0, <1>3 DEF StartAttempt, memory, attempt, Placed
  <2>2. StartOf(conn, actor) \in Events
    BY <1>0, <2>1 DEF StartOf, Events, Starts
  <2>3. SentWasStarted'
    BY <2>1, <2>2, AppendKeepsSent
  <2>4. ToSet(chain'[run.branch]) = ToSet(chain[run.branch]) \cup {StartOf(conn, actor)}
    BY <1>0, <2>1, <2>2, AppendedEvents
  <2>5. OpenIsCurrent'
    <3>1. ASSUME NEW c \in Connections, NEW a \in Actors,
                 StartOf(c, a) \in ToSet(chain'[run.branch]),
                 \A r \in ToSet(chain'[run.branch]) : ~IsResult(r, c, a)
          PROVE  c = conn /\ a = actor
      <4>1. CASE StartOf(c, a) \in EventsOf(run.branch)
        BY <2>1, <2>4, <3>1, <4>1 DEF OpenIsCurrent, EventsOf, ResultOn
      <4>2. CASE StartOf(c, a) = StartOf(conn, actor)
        BY <4>2 DEF StartOf
      <4> QED
        BY <2>4, <3>1, <4>1, <4>2 DEF EventsOf
    <3> QED
      BY <2>1, <3>1 DEF OpenIsCurrent, EventsOf, ResultOn
  <2>6. calls[run.branch][conn][actor] = 0
    <3>1. StartOf(conn, actor) \notin EventsOf(run.branch)
      BY <1>0, <2>1 DEF OpenIsCurrent
    <3>2. calls[run.branch][conn][actor] \in Nat
      BY <1>0, <2>1
    <3> QED
      BY <1>0, <2>1, <3>1, <3>2 DEF SentWasStarted
  <2>7. AskIsNew'
    BY <2>1, <2>4, <2>6 DEF AskIsNew, EventsOf
  <2> QED
    BY <2>1, <2>3, <2>5, <2>7 DEF NoSecondCall
<1>4. CASE Ask
  <2>1. /\ UNCHANGED <<history, run, conn, actor>> /\ pc = "ask" /\ pc' = "record"
        /\ conn \in Connections /\ run.branch \in created
    BY <1>0, <1>4 DEF Ask, Placed
  <2>2. \A b \in Branches, c \in Connections, a \in Actors :
          \/ calls'[b][c][a] = calls[b][c][a]
          \/ b = run.branch /\ c = conn /\ a = actor /\ calls'[b][c][a] = 1
    <3>1. CASE AsksProvider
      <4>1. calls' = [calls EXCEPT ![run.branch] =
                        [calls[run.branch] EXCEPT ![conn] =
                           [calls[run.branch][conn] EXCEPT ![actor] =
                              calls[run.branch][conn][actor] + 1]]]
        BY <1>4, <3>1 DEF Ask
      <4>2. calls[run.branch][conn][actor] = 0
        BY <2>1 DEF AskIsNew
      <4> QED
        BY <1>0, <2>1, <4>1, <4>2
    <3>2. CASE ~AsksProvider
      BY <1>4, <3>2 DEF Ask
    <3> QED
      BY <3>1, <3>2
  <2>3. SentWasStarted'
    BY <2>1, <2>2 DEF SentWasStarted, AskIsNew, history, EventsOf
  <2>4. OpenIsCurrent'
    BY <2>1 DEF OpenIsCurrent, history, EventsOf, ResultOn
  <2>5. NoSecondCall'
    BY <2>2 DEF NoSecondCall
  <2> QED
    BY <2>1, <2>3, <2>4, <2>5 DEF AskIsNew
<1>5. CASE RecordResult
  <2> DEFINE result == [kind |-> "attempt-result", conn |-> conn, actor |-> actor,
                        answer |-> answer]
  <2>1. /\ AppendEvent(result) /\ UNCHANGED <<run, calls>> /\ pc = "record" /\ pc' = "judge"
        /\ conn \in Connections
    BY <1>0, <1>5 DEF RecordResult, memory, Placed
  <2>2. result \in Events /\ result.kind # "attempt-started" /\ IsResult(result, conn, actor)
    BY <1>0, <2>1 DEF RunTypeOK, Events, Results, IsResult
  <2> HIDE DEF result
  <2>3. SentWasStarted'
    BY <2>1, <2>2, AppendKeepsSent
  <2>4. result \in ToSet(chain'[run.branch])
    BY <1>0, <2>1, <2>2, AppendedEvents
  <2>5. OpenIsCurrent'
    <3>1. ASSUME NEW c \in Connections, NEW a \in Actors,
                 StartOf(c, a) \in ToSet(chain'[run.branch]),
                 \A r \in ToSet(chain'[run.branch]) : ~IsResult(r, c, a)
          PROVE  FALSE
      <4>1. c = conn /\ a = actor
        BY <2>1, <2>2, <3>1, AppendKeepsOpen
      <4> QED
        BY <2>2, <2>4, <3>1, <4>1
    <3> QED
      BY <2>1, <3>1 DEF OpenIsCurrent, EventsOf, ResultOn
  <2> QED
    BY <2>1, <2>3, <2>5 DEF AskIsNew, NoSecondCall
<1>6. CASE Decide
  <2>1. /\ AppendEvent(decision) /\ UNCHANGED <<run, calls>> /\ pc = "decide" /\ pc' = "pick"
        /\ decision \in Decisions
    BY <1>0, <1>6 DEF Decide, Placed
  <2>2. decision \in Events /\ decision.kind # "attempt-started"
    BY <2>1 DEF Events, Decisions
  <2>3. SentWasStarted'
    BY <2>1, <2>2, AppendKeepsSent
  <2>4. OpenIsCurrent'
    BY <2>1, <2>2, AppendKeepsOpen DEF OpenIsCurrent, EventsOf, ResultOn
  <2> QED
    BY <2>1, <2>3, <2>4 DEF AskIsNew, NoSecondCall
<1>7. CASE Abort
  BY <1>7 DEF Abort, history, SentWasStarted, OpenIsCurrent, AskIsNew, NoSecondCall,
              EventsOf, ResultOn
<1> QED
  BY <1>1, <1>2, <1>3, <1>4, <1>5, <1>6, <1>7
     DEF Step, Pick, Finish, EnsureTask, ReuseAttempt, JudgeClassifier, JudgeSpecialist,
         history, memory

LEMMA NextCalls ==
    ASSUME ~PowerLoss, CallInv, [Next]_vars
    PROVE  RequestsAreRecorded' /\ NoSecondCall'
<1> USE DEF CallInv, RequestsAreRecorded
<1>0. HistoryTypeOK /\ RunTypeOK
  BY DEF TypeInv, TypeOK
<1>1. ASSUME NEW settings \in Settings, Begin(settings)
      PROVE  RequestsAreRecorded' /\ NoSecondCall'
  <2>1. settings.branch \in Branches /\ chain[settings.branch] \in Seq(Events)
    BY <1>0, RunConstants DEF HistoryTypeOK, RunSettings
  <2>2. /\ UNCHANGED <<chain, created, calls>> /\ run' = settings
        /\ pc' \in {"idle", "pick"}
        /\ pc' # "idle" => ~Pending(settings.branch)
    BY <1>1 DEF Begin
  <2>3. SentWasStarted' /\ NoSecondCall' /\ AskIsNew'
    BY <2>2 DEF SentWasStarted, NoSecondCall, AskIsNew, EventsOf
  <2>4. OpenIsCurrent'
    <3>1. pc' # "idle" => \A c \in Connections, a \in Actors :
             StartOf(c, a) \in EventsOf(settings.branch) => ResultOn(settings.branch, c, a)
      BY <2>1, <2>2, NothingPending
    <3> QED
      BY <2>2, <3>1 DEF OpenIsCurrent, EventsOf, ResultOn
  <2> QED
    BY <2>3, <2>4
<1>2. CASE Step
  BY <1>2, RunStepCalls
<1>3. ASSUME NEW s \in Branches, NEW t \in Branches, NEW c \in Connections, Fork(s, t, c)
      PROVE  RequestsAreRecorded' /\ NoSecondCall'
  <2>1. /\ t \notin created /\ created \subseteq created' /\ pc' = "idle" /\ calls' = calls
        /\ \A b \in Branches : b # t => chain'[b] = chain[b]
    BY <1>0, <1>3 DEF Fork, HistoryTypeOK
  <2> QED
    BY <2>1 DEF SentWasStarted, OpenIsCurrent, AskIsNew, NoSecondCall, EventsOf
<1>4. CASE Kill
  BY <1>4 DEF Kill, SentWasStarted, OpenIsCurrent, AskIsNew, NoSecondCall, EventsOf
<1>5. CASE WriteBackFiles \/ LosePower
  BY <1>5 DEF WriteBackFiles, LosePower
<1>6. CASE UNCHANGED vars
  BY <1>6 DEF vars, history, memory, attempt, SentWasStarted, OpenIsCurrent, AskIsNew,
              NoSecondCall, EventsOf, ResultOn
<1> QED
  BY <1>1, <1>2, <1>3, <1>4, <1>5, <1>6 DEF Next

\* However often runs are killed and started again, and whatever they are
\* started with, no provider gets a second request for a connection of a branch,
\* and the history accounts for every request: as long as the machine does not
\* lose power.
THEOREM AtMostOneCall ==
    ASSUME ~PowerLoss
    PROVE  Spec => [](RequestsAreRecorded /\ NoSecondCall)
<1>1. Init => CallInv
  <2>1. Init => TypeInv
    BY InitType
  <2>2. Init => RequestsAreRecorded /\ NoSecondCall
    BY RunConstants DEF Init, RequestsAreRecorded, SentWasStarted, OpenIsCurrent,
                        AskIsNew, NoSecondCall
  <2> QED
    BY <2>1, <2>2 DEF CallInv
<1>2. CallInv /\ [Next]_vars => CallInv'
  BY NextType, NextCalls DEF CallInv
<1>3. CallInv => RequestsAreRecorded /\ NoSecondCall
  BY DEF CallInv
<1> QED
  BY <1>1, <1>2, <1>3, PTL DEF Spec

-----------------------------------------------------------------------------
(* Runs implement the ledger *)

\* Recording an event extends one branch of the ledger by it.
LEMMA AppendIsAppendTo ==
    ASSUME HistoryTypeOK, run \in RunSettings, run.branch \in created,
           NEW e \in Events, AppendEvent(e)
    PROVE  Ledger!AppendTo(run.branch)
<1>1. /\ chain \in [Branches -> Seq(Events)]
      /\ run.branch \in Branches
  BY DEF HistoryTypeOK, RunSettings
<1>2. chain' = [chain EXCEPT ![run.branch] = Append(chain[run.branch], e)]
  BY DEF AppendEvent
<1>3. /\ chain'[run.branch] = Append(chain[run.branch], e)
      /\ Len(chain'[run.branch]) = Len(chain[run.branch]) + 1
      /\ Append(chain[run.branch], e)[Len(chain[run.branch]) + 1] = e
  BY <1>1, <1>2, AppendProperties
<1>4. Ledger!Last(chain'[run.branch]) = e
  BY <1>3 DEF Ledger!Last
<1>5. (file' # "torn") \in {file # "torn", FALSE}
  BY DEF AppendEvent
<1>6. chain' = [chain EXCEPT ![run.branch] = Append(@, Ledger!Last(chain'[run.branch]))]
  BY <1>2, <1>4
<1>7. Ledger!Last(chain'[run.branch]) \in Events
  BY <1>4
<1>8. UNCHANGED created
  BY DEF AppendEvent
<1> QED
  BY <1>3, <1>5, <1>6, <1>7, <1>8, Zenon DEF Ledger!AppendTo

LEMMA ForkIsForkFrom ==
    ASSUME HistoryTypeOK, NEW s \in Branches, NEW t \in Branches, NEW c \in Connections,
           Fork(s, t, c)
    PROVE  Ledger!ForkFrom(s, t)
<1>1. PICK i \in DOMAIN chain[s] :
        chain' = [chain EXCEPT ![t] = SubSeq(chain[s], 1, i - 1)]
  BY DEF Fork
<1>2. i - 1 \in 0..Len(chain[s])
  BY LenProperties DEF HistoryTypeOK
<1> QED
  BY <1>1, <1>2 DEF Fork, Ledger!ForkFrom

LEMMA NextImplementsLedger ==
    ASSUME TypeInv, [Next]_vars
    PROVE  [Ledger!Next]_(Ledger!vars)
<1> USE DEF TypeInv, TypeOK
<1>0. run \in RunSettings /\ run.branch \in Branches
  BY DEF RunTypeOK, RunSettings
<1>1. CASE UNCHANGED <<created, chain, file>>
  BY <1>1 DEF Ledger!vars
<1>2. ASSUME NEW e \in Events, AppendEvent(e), pc # "idle"
      PROVE  Ledger!Next
  BY <1>0, <1>2, AppendIsAppendTo DEF Ledger!Next, Placed
<1>3. CASE EnsureTask
  <2>1. CASE TaskOn(run.branch, conn)
    BY <1>1, <1>3, <2>1 DEF EnsureTask, history
  <2>2. CASE ~TaskOn(run.branch, conn)
    <3>1. TaskFor(conn) \in Events
      BY <1>3 DEF EnsureTask, RunTypeOK, HistoryTypeOK, TaskFor, Events, Tasks,
                  RunSettings, Placed
    <3> QED
      BY <1>2, <1>3, <2>2, <3>1 DEF EnsureTask
  <2> QED
    BY <2>1, <2>2
<1>4. CASE StartAttempt
  <2>1. StartOf(conn, actor) \in Events
    BY <1>4 DEF StartAttempt, RunTypeOK, StartOf, Events, Starts, Placed
  <2> QED
    BY <1>2, <1>4, <2>1 DEF StartAttempt
<1>5. CASE RecordResult
  <2>1. [kind |-> "attempt-result", conn |-> conn, actor |-> actor, answer |-> answer]
          \in Events
    BY <1>5 DEF RecordResult, RunTypeOK, Events, Results, Placed
  <2> QED
    BY <1>2, <1>5, <2>1 DEF RecordResult
<1>6. CASE Decide
  BY <1>2, <1>6 DEF Decide, Events, Placed
<1>7. ASSUME NEW s \in Branches, NEW t \in Branches, NEW c \in Connections, Fork(s, t, c)
      PROVE  Ledger!Next
  BY <1>7, ForkIsForkFrom DEF Ledger!Next
<1>8. CASE Kill
  <2>1. UNCHANGED <<created, chain>> /\ (file' = file \/ file' = "torn" \/ file # "torn")
    BY <1>8 DEF Kill
  <2>2. CASE file' = "torn"
    BY <2>1, <2>2 DEF Ledger!Next, Ledger!TearLine
  <2>3. CASE file' # "torn"
    <3>1. (file' # "torn") = (file # "torn")
      BY <1>8, <2>3 DEF Kill
    <3> QED
      BY <2>1, <3>1 DEF Ledger!vars
  <2> QED
    BY <2>2, <2>3
<1>9. CASE LosePower
  <2>1. \A b \in Branches : IsPrefix(SubSeq(chain[b], 1, disk.len[b]), chain[b])
    BY PrefixInSeq DEF HistoryTypeOK
  <2>2. /\ created' \subseteq created /\ Main \in created'
        /\ \A b \in Branches : Ledger!IsPrefix(chain'[b], chain[b])
    BY <1>9, <2>1 DEF LosePower, HistoryTypeOK, NoEventsElsewhere, IsPrefix, Ledger!IsPrefix
  <2>3. PowerLoss /\ (file' # "torn") \in BOOLEAN
    BY <1>9 DEF LosePower
  <2>4. Ledger!LoseHeads
    BY <2>2, <2>3, Zenon DEF Ledger!LoseHeads
  <2> QED
    BY <2>4 DEF Ledger!Next
<1> QED
  BY <1>1, <1>3, <1>4, <1>5, <1>6, <1>7, <1>8, <1>9
     DEF Next, Step, vars, history, Begin, Pick, Finish, ReuseAttempt, Ask,
         JudgeClassifier, JudgeSpecialist, Abort, WriteBackFiles

\* Runs, forks, kills and power losses keep the ledger's promise: a branch gets
\* longer by one recorded event at a time, a fork starts as a prefix of its
\* source, and only a power loss takes events back, to an earlier head.
THEOREM RunsImplementLedger == Spec => ImplementsLedger
<1>1. Init => Ledger!Init
  BY DEF Init, Ledger!Init
<1>2. Init => TypeInv
  BY InitType
<1>3. TypeInv /\ [Next]_vars => TypeInv' /\ [Ledger!Next]_(Ledger!vars)
  BY NextType, NextImplementsLedger
<1> QED
  BY <1>1, <1>2, <1>3, PTL DEF Spec, ImplementsLedger, Ledger!Spec
=============================================================================
