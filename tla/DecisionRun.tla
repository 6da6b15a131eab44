----------------------------- MODULE DecisionRun -----------------------------
(***************************************************************************)
(* The decision runs of rust/src/midend.rs: run_internal for the urban     *)
(* connections, fork and the reading side of replay, over a history whose  *)
(* branches are sequences of events (HistoryStore shows that the files     *)
(* behave so).  A run asks, connection by connection, a classifier and     *)
(* sometimes a specialist; it can be killed anywhere and started again.    *)
(***************************************************************************)
EXTENDS Naturals, SequencesExt

CONSTANTS
    NumConnections, \* connections of the report, numbered in the order of their ids
    Candidates,     \* ids a provider can name
    Admitted,       \* Admitted[c]: the admitted candidates of connection c
    Neighbours,     \* Neighbours[c]: connections sharing a place, node or edge with c
    Overlaps,       \* pairs <<c, k>>: an admitted route of c shares an edge with k
    Markers,        \* the answers __unknown__, __needs_evidence__, __none__
    Abstain,        \* a specialist's reasoned "unresolved"
    NoAnswer,       \* a failed, invalid or skipped attempt
    Unresolved,     \* the choice of an unresolved decision
    NoMarker,       \* a decision without marker
    NoDecision,     \* no operation in memory
    Branches,       \* names a branch can have
    Main,           \* the branch of a new history
    Reports,        \* prepared reports a run can bring
    NoBase,         \* no base.json yet
    Settings,       \* settings a run can be started with: see RunSettings
    MaxCrashes,     \* bound: kills and power losses
    PowerLoss       \* whether the machine may lose power

Connections == 1..NumConnections
Actors == {"classifier", "agent"}
ClassifierAnswers == Candidates \cup Markers \cup {NoAnswer}
SpecialistAnswers == Candidates \cup {Abstain, NoAnswer}
Answers == [classifier |-> ClassifierAnswers, agent |-> SpecialistAnswers]

\* What a run is started with: MidendConfig, ProviderSet and the prepared report.
RunSettings == [branch : Branches, report : Reports, live : BOOLEAN,
                provisional : BOOLEAN, classifier : BOOLEAN, specialist : BOOLEAN]

ASSUME RunConstants ==
    /\ NumConnections \in Nat \ {0}
    /\ Admitted \in [Connections -> SUBSET Candidates]
    /\ Neighbours \in [Connections -> SUBSET Connections]
    /\ Overlaps \subseteq Connections \X Candidates
    /\ Main \in Branches
    /\ NoBase \notin Reports
    /\ Settings \subseteq RunSettings
    /\ MaxCrashes \in Nat
    /\ PowerLoss \in BOOLEAN

\* The special values are no candidates, and differ from each other.
ASSUME SpecialValues ==
    /\ Candidates \cap (Markers \cup {Abstain, NoAnswer, Unresolved}) = {}
    /\ Markers \cap {NoAnswer, NoMarker} = {}
    /\ Abstain # NoAnswer

-----------------------------------------------------------------------------
(* Decisions and the other events of a branch *)

Decisions == [kind : {"decision"}, conn : Connections, attempt : Actors,
              class : {"classifier", "agent", "mechanical"},
              choice : Candidates \cup {Unresolved},
              marker : Markers \cup {NoMarker}, provisional : BOOLEAN]
Tasks == [kind : {"task"}, conn : Connections, base : Reports,
          prior : SUBSET Decisions, policy : BOOLEAN]
Starts == [kind : {"attempt-started"}, conn : Connections, actor : Actors]
Results == [kind : {"attempt-result"}, conn : Connections, actor : Actors,
            answer : ClassifierAnswers \cup SpecialistAnswers]
Events == Decisions \cup Tasks \cup Starts \cup Results

Select(c, actor, k, provisional) ==
    [kind |-> "decision", conn |-> c, attempt |-> actor, class |-> actor,
     choice |-> k, marker |-> NoMarker, provisional |-> provisional]

LeaveUnresolved(c, actor, class, marker) ==
    [kind |-> "decision", conn |-> c, attempt |-> actor, class |-> class,
     choice |-> Unresolved, marker |-> marker, provisional |-> FALSE]

StartOf(c, actor) == [kind |-> "attempt-started", conn |-> c, actor |-> actor]

\* should_escalate: no answer, or a marker. A name that is not an admitted
\* candidate of the connection is neither a decision nor a reason to escalate.
Escalates(answer) == answer \in Markers \cup {NoAnswer}

MarkerOf(answer) == IF answer \in Markers THEN answer ELSE NoMarker

\* Mutant: every name the classifier answers with is taken for a candidate.
SelectAnyAnswer(c, answer) ==
    IF answer = NoAnswer THEN LeaveUnresolved(c, "classifier", "mechanical", NoMarker)
    ELSE Select(c, "classifier", answer, FALSE)

\* classifier_operation, or the unresolved operation that stands for it.
ClassifierDecision(c, answer) ==
    IF answer \in Admitted[c] THEN Select(c, "classifier", answer, FALSE)
    ELSE LeaveUnresolved(c, "classifier",
             IF answer = NoAnswer THEN "mechanical" ELSE "classifier",
             MarkerOf(answer))

\* specialist_operation, or the unresolved operation that stands for it: the
\* specialist's choice needs the permission of the run.
SpecialistDecision(c, answer, proposal, provisional) ==
    IF proposal \in Admitted[c] /\ provisional THEN Select(c, "agent", proposal, TRUE)
    ELSE LeaveUnresolved(c, "agent",
             IF proposal = Abstain THEN "agent" ELSE "mechanical", MarkerOf(answer))

\* operation_relevant: does decision d bear on connection c?
Relevant(c, d) == d.conn \in Neighbours[c] \/ <<c, d.choice>> \in Overlaps

-----------------------------------------------------------------------------
VARIABLES
    base,      \* base.json: the report the history is about
    created,   \* branches of branches.json
    chain,     \* chain[b]: the events of b, oldest first
    file,      \* the end of events.jsonl: "clean", "open" (no newline), "torn"
    disk,      \* what a power loss leaves of base.json and branches.json
    pc,        \* where the run is
    run,       \* the settings of the run in progress, or of the last one
    ops,       \* its operations: read at the start, extended at each decision
    conn,      \* its connection, 0 between two connections
    actor,     \* whose attempt it is working on
    answer,    \* the answer of that attempt
    choice,    \* the classifier's answer
    decision,  \* the operation about to be appended
    outcome,   \* how the last run ended
    calls,     \* calls[b][c][a]: requests sent to provider a for c on branch b
    crashes    \* kills and power losses so far

history == <<base, created, chain, file, disk>>
attempt == <<conn, actor, answer, choice, decision>>
memory == <<run, ops, attempt>>
vars == <<history, pc, memory, outcome, calls, crashes>>

EventsOf(b) == ToSet(chain[b])

\* Mutant: connections that were left unresolved are looked at again.
SelectionsOf(b) == {e \in EventsOf(b) : e.kind = "decision" /\ e.choice # Unresolved}
DecisionsOf(b) == {e \in EventsOf(b) : e.kind = "decision"}
TaskOn(b, c) == \E e \in EventsOf(b) : e.kind = "task" /\ e.conn = c
IsResult(e, c, a) == e.kind = "attempt-result" /\ e.conn = c /\ e.actor = a
ResultOn(b, c, a) == \E e \in EventsOf(b) : IsResult(e, c, a)

\* Mutant: the first result of the connection, whoever gave it.
AnswerOfAnyActor(b, c, a) ==
    LET i == CHOOSE i \in DOMAIN chain[b] :
                /\ IsResult(chain[b][i], c, "classifier")
                /\ \A j \in 1..(i - 1) : ~IsResult(chain[b][j], c, "classifier")
    IN  chain[b][i].answer

\* attempt_result: the answer of the first result on the branch.
RetainedAnswer(b, c, a) ==
    LET i == CHOOSE i \in DOMAIN chain[b] :
                /\ IsResult(chain[b][i], c, a)
                /\ \A j \in 1..(i - 1) : ~IsResult(chain[b][j], c, a)
    IN  chain[b][i].answer

\* Mutant: any result of the same actor counts, whatever its task.
PendingOfActor(b) ==
    \E i \in DOMAIN chain[b] :
        /\ chain[b][i].kind = "attempt-started"
        /\ ~\E j \in DOMAIN chain[b], c \in Connections :
               IsResult(chain[b][j], c, chain[b][i].actor)

\* pending_attempt: an attempt was started and no result follows.
Pending(b) ==
    \E i \in DOMAIN chain[b] :
        /\ chain[b][i].kind = "attempt-started"
        /\ \A j \in (i + 1)..Len(chain[b]) :
             ~IsResult(chain[b][j], chain[b][i].conn, chain[b][i].actor)

\* The variables of one connection's turn in the loop are gone.
ForgetConnection ==
    /\ conn' = 0 /\ actor' = "classifier"
    /\ answer' = NoAnswer /\ choice' = NoAnswer /\ decision' = NoDecision

\* The providers of a run.
AsksProvider == IF actor = "classifier" THEN run.live /\ run.classifier ELSE TRUE
CanEscalate == run.live /\ run.specialist
-----------------------------------------------------------------------------
(* Starting a run *)

\* ensure_base: the first report becomes the base, a later one is only compared.
EnsureBase(report) == IF base = NoBase THEN report ELSE base

\* validate_operation of the recorded operations, as far as it can fail.
Permitted(b, provisional) == \A d \in DecisionsOf(b) : d.provisional => provisional

\* run_internal up to its loop: the report is retained or compared, and the
\* history of the branch is read and validated. An error ends the run at once.
Begin(settings) ==
    LET b == settings.branch
        pending == b \in created /\ Pending(b)
    IN
    /\ pc = "idle"
    /\ base' = EnsureBase(settings.report)
    /\ run' = settings
    /\ IF settings.report = base' /\ b \in created /\ file # "torn"
          /\ ~pending /\ Permitted(b, settings.provisional)
       THEN /\ pc' = "pick"
            /\ ops' = DecisionsOf(b)
            /\ outcome' = "running"
       ELSE /\ pc' = "idle"
            /\ ops' = {}
            /\ outcome' = IF settings.report = base' /\ file # "torn" /\ pending
                          THEN "unfinished" ELSE "invalid"
    /\ UNCHANGED <<created, chain, file, disk, attempt, calls, crashes>>

\* The next connection without a decision, in the order of their ids.
Pick(c) ==
    /\ pc = "pick"
    /\ \A d \in ops : d.conn # c
    /\ \A e \in 1..(c - 1) : \E d \in ops : d.conn = e
    /\ conn' = c
    /\ pc' = "task"
    /\ UNCHANGED <<history, run, ops, actor, answer, choice, decision, outcome, calls, crashes>>

\* All connections are decided: the result is returned.
Finish ==
    /\ pc = "pick"
    /\ \A c \in Connections : \E d \in ops : d.conn = c
    /\ pc' = "idle"
    /\ outcome' = IF \E d \in ops : d.choice = Unresolved THEN "unresolved" ELSE "completed"
    /\ UNCHANGED <<history, memory, calls, crashes>>

-----------------------------------------------------------------------------
(* One connection *)

\* Mutant: lines that do not parse are passed over.
AppendAfterTorn(e) ==
    /\ chain' = [chain EXCEPT ![run.branch] = Append(@, e)]
    /\ file' = IF file = "open" THEN "torn" ELSE "clean"
    /\ UNCHANGED <<base, created, disk>>

\* append: the history is read first. After a line without its newline the
\* two lines run together.
AppendEvent(e) ==
    /\ file # "torn"
    /\ chain' = [chain EXCEPT ![run.branch] = Append(@, e)]
    /\ file' = IF file = "open" THEN "torn" ELSE "clean"
    /\ UNCHANGED <<base, created, disk>>

\* Mutant: only the decisions of neighbours, not those of overlapping routes.
TaskForNeighbours(c) ==
    [kind |-> "task", conn |-> c, base |-> base,
     prior |-> {d \in ops : d.conn \in Neighbours[c]}, policy |-> run.provisional]

\* The task of the connection is the retained one, or is made from the
\* operations in memory and appended.
TaskFor(c) ==
    [kind |-> "task", conn |-> c, base |-> base,
     prior |-> {d \in ops : Relevant(c, d)}, policy |-> run.provisional]

EnsureTask ==
    /\ pc = "task"
    /\ file # "torn"
    /\ IF TaskOn(run.branch, conn) THEN UNCHANGED history
       ELSE AppendEvent(TaskFor(conn))
    /\ pc' = "attempt"
    /\ actor' = "classifier"
    /\ UNCHANGED <<run, ops, conn, answer, choice, decision, outcome, calls, crashes>>

\* An attempt with a recorded result is not repeated.
ReuseAttempt ==
    /\ pc = "attempt"
    /\ file # "torn"
    /\ ResultOn(run.branch, conn, actor)
    /\ answer' = RetainedAnswer(run.branch, conn, actor)
    /\ pc' = "judge"
    /\ UNCHANGED <<history, run, ops, conn, actor, choice, decision, outcome, calls, crashes>>

StartAttempt ==
    /\ pc = "attempt"
    /\ ~ResultOn(run.branch, conn, actor)
    /\ AppendEvent(StartOf(conn, actor))
    /\ pc' = "ask"
    /\ UNCHANGED <<memory, outcome, calls, crashes>>

\* The request is sent and answered, or the attempt is skipped.
Ask ==
    /\ pc = "ask"
    /\ IF AsksProvider
       THEN /\ calls' = [calls EXCEPT ![run.branch][conn][actor] = @ + 1]
            /\ answer' \in Answers[actor]
       ELSE /\ answer' = NoAnswer
            /\ UNCHANGED calls
    /\ pc' = "record"
    /\ UNCHANGED <<history, run, ops, conn, actor, choice, decision, outcome, crashes>>

RecordResult ==
    /\ pc = "record"
    /\ AppendEvent([kind |-> "attempt-result", conn |-> conn, actor |-> actor,
                    answer |-> answer])
    /\ pc' = "judge"
    /\ UNCHANGED <<memory, outcome, calls, crashes>>

JudgeClassifier ==
    /\ pc = "judge" /\ actor = "classifier"
    /\ choice' = answer
    /\ IF Escalates(answer) /\ CanEscalate
       THEN /\ actor' = "agent"
            /\ pc' = "attempt"
            /\ UNCHANGED decision
       ELSE /\ decision' = ClassifierDecision(conn, answer)
            /\ pc' = "decide"
            /\ UNCHANGED actor
    /\ UNCHANGED <<history, run, ops, conn, answer, outcome, calls, crashes>>

\* Mutant: a specialist that gave no answer is tried again.
JudgeAgain ==
    /\ pc = "judge" /\ actor = "agent"
    /\ decision' = SpecialistDecision(conn, choice, answer, run.provisional)
    /\ pc' = IF answer = NoAnswer THEN "attempt" ELSE "decide"
    /\ UNCHANGED <<history, run, ops, conn, actor, answer, choice, outcome, calls, crashes>>

JudgeSpecialist ==
    /\ pc = "judge" /\ actor = "agent"
    /\ decision' = SpecialistDecision(conn, choice, answer, run.provisional)
    /\ pc' = "decide"
    /\ UNCHANGED <<history, run, ops, conn, actor, answer, choice, outcome, calls, crashes>>

Decide ==
    /\ pc = "decide"
    /\ AppendEvent(decision)
    /\ ops' = ops \cup {decision}
    /\ ForgetConnection
    /\ pc' = "pick"
    /\ UNCHANGED <<run, outcome, calls, crashes>>

\* Reading a torn history is an error, and ends the run.
Abort ==
    /\ pc \in {"task", "attempt", "record", "decide"}
    /\ file = "torn"
    /\ pc' = "idle"
    /\ outcome' = "invalid"
    /\ ops' = {}
    /\ ForgetConnection
    /\ UNCHANGED <<history, run, calls, crashes>>

-----------------------------------------------------------------------------
(* Branching *)

\* Mutant: the new branch gets all events of the source.
ForkAtTip(source, target, c) ==
    /\ pc = "idle" /\ file # "torn"
    /\ source \in created /\ target \in Branches \ created
    /\ TaskOn(source, c)
    /\ chain' = [chain EXCEPT ![target] = chain[source]]
    /\ created' = created \cup {target}
    /\ UNCHANGED <<base, file, disk, pc, memory, outcome, calls, crashes>>

\* fork: a new branch with the events of the source before the task of c.
Fork(source, target, c) ==
    /\ pc = "idle"
    /\ file # "torn"
    /\ source \in created
    /\ target \in Branches \ created
    /\ \E i \in DOMAIN chain[source] :
         /\ chain[source][i].kind = "task" /\ chain[source][i].conn = c
         /\ \A j \in 1..(i - 1) :
              ~(chain[source][j].kind = "task" /\ chain[source][j].conn = c)
         /\ chain' = [chain EXCEPT ![target] = SubSeq(chain[source], 1, i - 1)]
    /\ created' = created \cup {target}
    /\ UNCHANGED <<base, file, disk, pc, memory, outcome, calls, crashes>>

-----------------------------------------------------------------------------
(* Failures *)

\* Is the run about to append? Only then can it be killed inside a write.
Appending ==
    \/ pc = "task" /\ ~TaskOn(run.branch, conn)
    \/ pc = "attempt" /\ ~ResultOn(run.branch, conn, actor)
    \/ pc \in {"record", "decide"}

\* The process is killed, or a provider panics. An append that was cut short
\* leaves a whole line without newline, or half a line; its event is on no
\* branch because the head was not written.
Kill ==
    /\ pc # "idle"
    /\ crashes < MaxCrashes
    /\ crashes' = crashes + 1
    /\ pc' = "idle"
    /\ outcome' = "killed"
    /\ file' \in {file} \cup
                 (CASE Appending /\ file = "clean" -> {"open", "torn"}
                    [] Appending /\ file = "open" -> {"torn"}
                    [] OTHER -> {})
    /\ ops' = {}
    /\ ForgetConnection
    /\ UNCHANGED <<base, created, chain, disk, run, calls>>

\* The operating system writes branches.json back, and base.json if it likes.
WriteBackFiles ==
    /\ PowerLoss
    /\ \E kept \in {disk.base, base} :
         disk' = [base |-> kept, created |-> created,
                  len |-> [b \in Branches |-> Len(chain[b])]]
    /\ UNCHANGED <<base, created, chain, file, pc, memory, outcome, calls, crashes>>

\* The machine loses power: base.json and the heads are those on the disk. A
\* file that was renamed into place may also be empty, which is as bad as torn.
LosePower ==
    /\ PowerLoss
    /\ crashes < MaxCrashes
    /\ crashes' = crashes + 1
    /\ pc' = "idle"
    /\ outcome' = "killed"
    /\ base' = disk.base
    /\ created' = disk.created
    /\ chain' = [b \in Branches |-> SubSeq(chain[b], 1, disk.len[b])]
    /\ file' \in {"clean", "open", "torn"}
    /\ ops' = {}
    /\ ForgetConnection
    /\ UNCHANGED <<disk, run, calls>>

-----------------------------------------------------------------------------
Init ==
    /\ base = NoBase
    /\ created = {Main}
    /\ chain = [b \in Branches |-> <<>>]
    /\ file = "clean"
    /\ disk = [base |-> NoBase, created |-> {Main}, len |-> [b \in Branches |-> 0]]
    /\ pc = "idle"
    /\ run \in Settings
    /\ ops = {}
    /\ conn = 0 /\ actor = "classifier"
    /\ answer = NoAnswer /\ choice = NoAnswer /\ decision = NoDecision
    /\ outcome = "none"
    /\ calls = [b \in Branches |-> [c \in Connections |-> [a \in Actors |-> 0]]]
    /\ crashes = 0

\* What a run does by itself once it is started.
Step ==
    \/ \E c \in Connections : Pick(c)
    \/ Finish
    \/ EnsureTask
    \/ ReuseAttempt \/ StartAttempt \/ Ask \/ RecordResult
    \/ JudgeClassifier \/ JudgeSpecialist
    \/ Decide
    \/ Abort

Next ==
    \/ \E settings \in Settings : Begin(settings)
    \/ Step
    \/ \E s, t \in Branches, c \in Connections : Fork(s, t, c)
    \/ Kill
    \/ WriteBackFiles
    \/ LosePower

Spec == Init /\ [][Next]_vars

\* The program takes its own steps; neither provider has a timeout, so an
\* answer is not something it can be sure of.
FairSpec == Spec /\ WF_vars(Step /\ ~(pc = "ask" /\ AsksProvider))

-----------------------------------------------------------------------------
(* Safety *)

HistoryTypeOK ==
    /\ base \in Reports \cup {NoBase}
    /\ created \subseteq Branches /\ Main \in created
    /\ chain \in [Branches -> Seq(Events)]
    /\ file \in {"clean", "open", "torn"}
    /\ disk \in [base : Reports \cup {NoBase}, created : SUBSET Branches,
                 len : [Branches -> Nat]]
    /\ Main \in disk.created
    /\ \A b \in Branches : disk.len[b] <= Len(chain[b])

RunTypeOK ==
    /\ pc \in {"idle", "pick", "task", "attempt", "ask", "record", "judge", "decide"}
    /\ run \in RunSettings
    /\ ops \subseteq Decisions
    /\ conn \in Connections \cup {0}
    /\ actor \in Actors
    /\ answer \in ClassifierAnswers \cup SpecialistAnswers
    /\ choice \in ClassifierAnswers \cup SpecialistAnswers
    /\ decision \in Decisions \cup {NoDecision}
    /\ outcome \in {"none", "running", "unfinished", "invalid", "completed",
                    "unresolved", "killed"}
    /\ calls \in [Branches -> [Connections -> [Actors -> Nat]]]
    /\ crashes \in 0..MaxCrashes

\* Every variable has its type, and what a power loss leaves of a branch is no
\* more than the branch has.
TypeOK == HistoryTypeOK /\ RunTypeOK

\* A started attempt is not silently repeated: however often runs are killed
\* and resumed, a provider gets at most one request for a connection on a branch.
NoSecondCall ==
    \A b \in Branches, c \in Connections, a \in Actors : calls[b][c][a] <= 1

SentWasStarted ==
    \A b \in Branches, c \in Connections, a \in Actors :
        calls[b][c][a] > 0 => b \in created /\ StartOf(c, a) \in EventsOf(b)

OpenIsCurrent ==
    pc # "idle" => \A c \in Connections, a \in Actors :
        StartOf(c, a) \in EventsOf(run.branch) /\ ~ResultOn(run.branch, c, a) =>
            pc \in {"ask", "record"} /\ c = conn /\ a = actor

AskIsNew ==
    pc = "ask" => /\ StartOf(conn, actor) \in EventsOf(run.branch)
                  /\ calls[run.branch][conn][actor] = 0

\* The history accounts for every request: one that was sent has its start on
\* the branch, and as long as a run is in progress the only attempt without a
\* result is the one it is working on, not yet sent when it is about to be.
RequestsAreRecorded == SentWasStarted /\ OpenIsCurrent /\ AskIsNew

\* Nothing is recorded after an attempt whose result is missing: the branch
\* stops there until someone has reviewed it.
UnfinishedIsLast ==
    \A b \in Branches : \A i \in DOMAIN chain[b] :
        (/\ chain[b][i].kind = "attempt-started"
         /\ \A j \in (i + 1)..Len(chain[b]) :
              ~IsResult(chain[b][j], chain[b][i].conn, chain[b][i].actor))
        => i = Len(chain[b])

\* A connection is decided at most once on a branch, even if the run is killed
\* right after the decision was written.
OneDecisionPerConnection ==
    \A b \in Branches : \A i, j \in DOMAIN chain[b] :
        /\ chain[b][i].kind = "decision"
        /\ chain[b][j].kind = "decision"
        /\ chain[b][i].conn = chain[b][j].conn
        => i = j

\* Every decision is what the recorded answers before it lead to, whether it was
\* taken by the run that asked or by a later one that found the answers.
DecisionsFollowAnswers ==
    \A b \in Branches : \A i \in DOMAIN chain[b] :
        LET d == chain[b][i] IN
        d.kind = "decision" =>
            \E r \in 1..(i - 1) :
                /\ IsResult(chain[b][r], d.conn, "classifier")
                /\ \E t \in 1..(r - 1) :
                     chain[b][t].kind = "task" /\ chain[b][t].conn = d.conn
                /\ \/ /\ d.attempt = "classifier"
                      /\ d = ClassifierDecision(d.conn, chain[b][r].answer)
                   \/ /\ d.attempt = "agent"
                      /\ Escalates(chain[b][r].answer)
                      /\ \E s \in (r + 1)..(i - 1), p \in BOOLEAN :
                           /\ IsResult(chain[b][s], d.conn, "agent")
                           /\ d = SpecialistDecision(d.conn, chain[b][r].answer,
                                                     chain[b][s].answer, p)

\* A task froze the decisions it depends on: exactly the relevant ones among
\* all the decisions before it on its branch, including those of earlier runs.
TasksSeeEarlierDecisions ==
    \A b \in Branches : \A i \in DOMAIN chain[b] :
        LET t == chain[b][i] IN
        t.kind = "task" =>
            t.prior = {d \in {chain[b][j] : j \in 1..(i - 1)} :
                         d.kind = "decision" /\ Relevant(t.conn, d)}

\* The operations a run returns are those a replay of its branch returns, and
\* they decide every connection.
ReplayReproducesRun ==
    outcome \in {"completed", "unresolved"} =>
        /\ ops = DecisionsOf(run.branch)
        /\ \A c \in Connections : \E d \in ops : d.conn = c

-----------------------------------------------------------------------------
(* What a step may never do, and what must happen *)

\* A new branch never inherits an unfinished attempt, even from a source that
\* is blocked by one: it can be run at once.
ForkCanRun == [][\A b \in created' \ created : ~Pending(b)']_vars

\* A run ends, unless a provider does not answer.
RunEnds == pc # "idle" ~> pc = "idle" \/ (pc = "ask" /\ AsksProvider)

\* The branches keep what they have: runs implement the ledger.
Ledger == INSTANCE DecisionLedger WITH
    HeadsMayBeLost <- PowerLoss,
    readable <- (file # "torn")

ImplementsLedger == Ledger!Spec
=============================================================================
