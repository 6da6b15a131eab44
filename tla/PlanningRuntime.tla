--------------------------- MODULE PlanningRuntime ---------------------------
(***************************************************************************)
(* The operations of src/satn/planning_runtime.py over one planning        *)
(* history: run (start or resume a branch, then decide until the plan is   *)
(* finished), advance (append one explicit decision) and fork, each by any *)
(* process at any time. An operation reads the branch at its beginning and *)
(* keeps the state it found in memory; only the commits of PlanningHistory *)
(* compare it with what the branch has become.                             *)
(***************************************************************************)
EXTENDS PlanningHistory

CONSTANT MaxExplicit   \* bound: operations a run is given by its caller

ASSUME RuntimeConstants == MaxExplicit \in Nat

VARIABLE
    asked   \* for the properties only: what providers were asked, on behalf
            \* of which branch

allVars == <<vars, asked>>

\* _commit: the event is made from the state in memory; the head it is
\* expected to follow is read now, just before the commit. The first events
\* after the initialization are those of the explicit operations.
RecordAfter(p, expected, kind, output, next) ==
    /\ LET o == op[p]
       IN  op' = [op EXCEPT ![p] =
               [o EXCEPT !.next = next,
                         !.expected = expected,
                         !.explicit = IF o.explicit = 0 \/ kind = "initialization"
                                      THEN o.explicit ELSE o.explicit - 1,
                         !.content = [branch |-> o.branch, kind |-> kind,
                                      input |-> o.state, output |-> output]]]
    /\ Goes(p, "lock")
    /\ UNCHANGED <<store, lock, started, crashes>>
Record(p, kind, output, next) ==
    RecordAfter(p, head[op[p].branch].event, kind, output, next)

-----------------------------------------------------------------------------
(* run *)

BeginRun(p, b, explicit) ==
    /\ pc[p] = "idle" /\ started < MaxOperations
    /\ op' = [op EXCEPT ![p] = [Operation(b) EXCEPT !.explicit = explicit]]
    /\ Goes(p, "resume")
    /\ started' = started + 1
    /\ UNCHANGED <<store, lock, crashes>>

\* _start_or_resume: a branch without a head is created, an empty one is
\* initialized, and any other is replayed.
Resume(p) ==
    /\ pc[p] = "resume"
    /\ LET b == op[p].branch
           replayed == Replay(b)
       IN  \/ /\ head[b] = None
              /\ op[p].next = "idle"
              /\ op' = [op EXCEPT ![p].next = "resume"]
              /\ Goes(p, "create")
              /\ UNCHANGED <<store, lock, started, crashes>>
           \/ /\ head[b] = None         \* create_branch returned a branch without one
              /\ op[p].next = "resume"
              /\ EndsNow(p)
              /\ UNCHANGED <<store, lock, started, crashes>>
           \/ /\ head[b] # None
              /\ head[b].event = <<>>
              /\ Record(p, "initialization", <<>>, "decide")
           \/ /\ head[b] # None
              /\ head[b].event # <<>>
              /\ IF replayed.agrees /\ replayed.state # None
                 THEN op' = [op EXCEPT ![p].state = replayed.state] /\ Goes(p, "decide")
                 ELSE EndsNow(p)
              /\ UNCHANGED <<store, lock, started, crashes>>

Select(p, next) ==
    /\ Len(op[p].state) < MaxDecisions
    /\ \E c \in Candidates : Record(p, "decision", Append(op[p].state, c), next)

\* What the caller asked for is applied first, finished plan or not. It selects
\* a candidate, changes nothing, or is refused, which is recorded as a diagnostic
\* and ends the run.
ApplyExplicit(p) ==
    /\ pc[p] = "decide" /\ op[p].explicit > 0
    /\ \/ Select(p, "decide")
       \/ Record(p, "decision", op[p].state, "decide")
       \/ Record(p, "diagnostic", None, "idle")

\* The loop, which ends with a finished plan.
Decides(p) == pc[p] = "decide" /\ op[p].explicit = 0
Finished(p) == Len(op[p].state) = MaxDecisions

\* Mutant: the state in memory outlives the run.
ValidatedKeeping(p) ==
    /\ Decides(p) /\ Finished(p)
    /\ Goes(p, "idle")
    /\ UNCHANGED <<store, lock, op, started, crashes>>

Validated(p) ==
    /\ Decides(p) /\ Finished(p)
    /\ EndsNow(p)
    /\ UNCHANGED <<store, lock, started, crashes>>

\* In the loop a decision that changes nothing ends the run.
Apply(p) ==
    \/ Select(p, "decide")
    \/ Record(p, "decision", op[p].state, "idle")
    \/ Record(p, "diagnostic", None, "idle")

\* The only alignment of a corridor that must be planned is selected by code.
DecideByCode(p) ==
    /\ Decides(p) /\ ~Finished(p)
    /\ Select(p, "decide") \/ Record(p, "diagnostic", None, "idle")

\* A request that no provider is asked about, then the decision of code.
RecordRequest(p) ==
    /\ Decides(p) /\ ~Finished(p)
    /\ Record(p, "request", None, "apply")

DecideRequest(p) ==
    /\ pc[p] = "apply"
    /\ Apply(p)

\* A provider is not asked again about what it has decided on this branch: with
\* nothing else to ask about the run ends.
NoProgress(p) ==
    /\ Decides(p) /\ ~Finished(p)
    /\ LET e == head[op[p].branch].event
       IN  \E i \in DOMAIN e : e[i].kind = "decision" /\ e[i].input = op[p].state
    /\ EndsNow(p)
    /\ UNCHANGED <<store, lock, started, crashes>>

\* Mutant: the provider is asked first.
AskAtOnce(p) ==
    /\ Decides(p) /\ ~Finished(p)
    /\ Goes(p, "dispatch")
    /\ UNCHANGED <<store, lock, op, started, crashes>>

\* A provider is asked after the attempt is on the branch.
StartAttempt(p) ==
    /\ Decides(p) /\ ~Finished(p)
    /\ Record(p, "attempt", None, "dispatch")

Dispatch(p) ==
    /\ pc[p] = "dispatch"
    /\ asked' = asked \cup {[branch |-> op[p].branch, input |-> op[p].state]}
    /\ Goes(p, "answer")
    /\ UNCHANGED <<store, lock, op, started, crashes>>

\* The user interrupts the wait, the provider fails or names what was not
\* offered, all of which a diagnostic stands for, or its answer is applied.
Answer(p) ==
    /\ pc[p] = "answer"
    /\ Apply(p)

-----------------------------------------------------------------------------
(* advance: the caller names the head it looked at, or leaves it to advance *)
(* to read the head after it has replayed the branch.                       *)

BeginAdvance(p, b, named) ==
    /\ pc[p] = "idle" /\ started < MaxOperations
    /\ head[b] # None
    /\ op' = [op EXCEPT ![p] = [Operation(b) EXCEPT
                 !.expected = IF named THEN head[b].event ELSE <<>>]]
    /\ Goes(p, "replay")
    /\ started' = started + 1
    /\ UNCHANGED <<store, lock, crashes>>

ReplayPrefix(p) ==
    /\ pc[p] = "replay"
    /\ LET replayed == Replay(op[p].branch)
       IN  IF head[op[p].branch].event # <<>> /\ replayed.agrees /\ replayed.state # None
           THEN op' = [op EXCEPT ![p].state = replayed.state] /\ Goes(p, "replace")
           ELSE EndsNow(p)
    /\ UNCHANGED <<store, lock, started, crashes>>

\* The replacement is applied to the replayed state and committed once.
Replace(p) ==
    /\ pc[p] = "replace"
    /\ \E expected \in {IF op[p].expected = <<>> THEN head[op[p].branch].event
                        ELSE op[p].expected} :
         \/ \E c \in Candidates :
                /\ Len(op[p].state) < MaxDecisions
                /\ RecordAfter(p, expected, "decision", Append(op[p].state, c), "idle")
         \/ RecordAfter(p, expected, "decision", op[p].state, "idle")
         \/ RecordAfter(p, expected, "diagnostic", None, "idle")
-----------------------------------------------------------------------------
Initialized == <<[branch |-> Main, kind |-> "initialization", input |-> None, output |-> <<>>]>>
DecidedOn(b) == [branch |-> b, kind |-> "decision", input |-> <<>>,
                 output |-> <<CHOOSE c \in Candidates : TRUE>>]
Decided == Append(Initialized, DecidedOn(Main))
HeadAt(e) == [event |-> e, revision |-> Len(e)]

\* The histories operations start from: a branch that was created, a branch
\* with one decision and its fork before that decision, and the same with a
\* decision on the fork. The operations that made them ran one at a time.
Fresh ==
    /\ events = {}
    /\ lineage = [b \in Branches |-> IF b = Main THEN NoLineage ELSE None]
    /\ head = [b \in Branches |-> IF b = Main THEN HeadAt(<<>>) ELSE None]

Forked(b, tail) ==
    /\ events = {Initialized, Decided} \cup {Initialized \o tail}
    /\ lineage = [x \in Branches |-> IF x = Main THEN NoLineage
                                    ELSE IF x = b THEN CheckpointOf(Decided) ELSE None]
    /\ head = [x \in Branches |-> IF x = Main THEN HeadAt(Decided)
                                 ELSE IF x = b THEN HeadAt(Initialized \o tail) ELSE None]

Init ==
    /\ \/ Fresh
       \/ \E b \in Branches \ {Main} : Forked(b, <<>>) \/ Forked(b, <<DecidedOn(b)>>)
    /\ checkpoints = events
    /\ lock = [b \in Branches |-> None]
    /\ pc = [p \in Processes |-> "idle"]
    /\ op = [p \in Processes |-> None]
    /\ started = 0 /\ crashes = 0
    /\ asked = {}

Decide(p) ==
    Resume(p) \/ ApplyExplicit(p) \/ Validated(p) \/ NoProgress(p)
    \/ DecideByCode(p) \/ RecordRequest(p) \/ DecideRequest(p) \/ StartAttempt(p)
    \/ ReplayPrefix(p) \/ Replace(p)

\* What a process does by itself once its operation has begun.
Step(p) == ((Decide(p) \/ Commit(p) \/ Create(p)) /\ UNCHANGED asked) \/ Dispatch(p)

Begin(p) ==
    \/ \E b \in Branches, explicit \in 0..MaxExplicit : BeginRun(p, b, explicit)
    \/ \E b \in Branches, named \in BOOLEAN : BeginAdvance(p, b, named)
    \/ \E e \in checkpoints, b \in Branches : BeginFork(p, e, b)
    \/ \E e \in events : PutCheckpointAgain(p, e)

Next == \E p \in Processes :
            Step(p) \/ ((Begin(p) \/ Answer(p) \/ Kill(p)) /\ UNCHANGED asked)

Spec == Init /\ [][Next]_allVars

\* A process that is not killed goes on. Weak fairness is enough for the locks:
\* with the operations bounded a lock that is released is free for good in the
\* end. Nothing makes a provider answer: it is asked without a timeout.
FairSpec == Spec /\ \A p \in Processes : WF_allVars(Step(p))
-----------------------------------------------------------------------------
(* Properties *)

\* The variables have the types their comments say.
TypeOK ==
    /\ events \cup checkpoints \subseteq Seq(Content) \ {<<>>}
    /\ lineage \in [Branches -> Lineages \cup {None}]
    /\ head \in [Branches -> Heads \cup {None}]
    /\ lock \in [Branches -> Processes \cup {None}]
    /\ op \in [Processes -> Operations \cup {None}]
    /\ \A p \in Processes : pc[p] = "idle" <=> op[p] = None
    /\ started \in 0..MaxOperations /\ crashes \in 0..MaxCrashes

\* A head never names what the store does not hold (verify would fail): the
\* event of a head, every event before it and the checkpoint of each are
\* stored, the revision is the place of the event, and the branch still begins
\* where its record says. A head without a branch record, which no operation
\* could load, is never on disk.
HeadsResolve ==
    \A b \in Branches : head[b] # None =>
        /\ lineage[b] # None
        /\ IsPrefix(lineage[b].event, head[b].event)
        /\ head[b].revision = Len(head[b].event)
        /\ \A n \in 1..Len(head[b].event) :
              SubSeq(head[b].event, 1, n) \in events \cap checkpoints

\* Replay of any branch, at any time, passes all its checks and ends with the
\* state the next commit must begin with: no decision was recorded on top of a
\* state it had not seen, although a run reads the state once and the expected
\* head again before every commit.
ReplayReproduces ==
    \A b \in Branches : (head[b] # None /\ head[b].event # <<>>) =>
        LET replayed == Replay(b)
        IN  /\ replayed.agrees
            /\ replayed.state = CurrentState(lineage[b], head[b].event)

\* Every request that left the machine is an attempt in the history of the
\* branch it was made for, whoever was killed and whatever was committed since.
AskedIsRecorded ==
    \A a \in asked : head[a.branch] # None /\
        \E i \in DOMAIN head[a.branch].event :
            LET c == head[a.branch].event[i]
            IN  c.kind = "attempt" /\ c.branch = a.branch /\ c.input = a.input

\* The events of the branches are a ledger: a commit adds one event to the end
\* of one branch, a fork begins a branch with the events before an event of its
\* parent, and nothing else, no crash in particular, changes what a branch holds.
Ledger == INSTANCE DecisionLedger WITH
    Events <- Content,
    HeadsMayBeLost <- FALSE,
    created <- {b \in Branches : head[b] # None},
    chain <- [b \in Branches |-> IF head[b] = None THEN <<>> ELSE head[b].event],
    readable <- TRUE
ImplementsLedger == [][Ledger!Next]_(Ledger!vars)

\* p waits for a lock that q holds; q may be p itself, since every lock is
\* taken on a file opened anew.
WaitsFor(p, q) ==
    \/ pc[p] = "lock" /\ lock[op[p].branch] = q
    \/ pc[p] = "parent" /\ lock[op[p].base.parent] = q
    \/ pc[p] = "create" /\ lock[op[p].branch] = q

\* Two forks, each into the branch the other starts from, or a fork of a
\* branch into itself.
ForksCross ==
    \/ \E p \in Processes : WaitsFor(p, p)
    \/ \E p, q \in Processes : WaitsFor(p, q) /\ WaitsFor(q, p)

\* An operation that is not killed comes to its end, with a result or an error,
\* or to a provider that it waits for, after whose answer it goes on to an end
\* in the same way; unless forks wait for each other's locks: none of them ever
\* ends.
OperationsEnd ==
    \A p \in Processes : pc[p] # "idle" ~> (pc[p] \in {"idle", "answer"} \/ ForksCross)
=============================================================================
