----------------------------- MODULE RuralSequence -----------------------------
(***************************************************************************)
(* The rural part of a decision run: run_rural_sequence of                 *)
(* rust/src/midend.rs and the RuralAccessPlanner of rust/src/compiler.rs.   *)
(* Communities are joined to the network one after the other, the nearest  *)
(* first; each that is joined becomes part of the frontier that the others *)
(* can join at.  The planner lives in memory: a run that resumes a branch  *)
(* rebuilds it from the operations recorded there.                         *)
(***************************************************************************)
EXTENDS Naturals, FiniteSets, SequencesExt

CONSTANTS
    NumCommunities, \* rural communities, numbered in the order of their ids
    Links,          \* shortest new links from a community to a target
    Townward,       \* Townward[c]: targets met on the way from c to the town
    Dominates,      \* <<c, t, u>>: joining c at t is no worse than at u in anything
    InexactEntry,   \* <<c, t>>: the urban entry of the path from c to t, or
    InexactLength,  \* its length, is another number when read back from the history
    Marker,         \* the answers __unknown__, __needs_evidence__, __none__
    NoAnswer,       \* a failed, invalid or skipped attempt, or an abstention
    NoOffer,        \* no pending community can be joined
    NoDecision,     \* no operation in memory
    Settings,       \* settings a run can be started with: see RunSettings
    MaxCrashes,     \* bound: kills
    MaxForks        \* bound: forks

Communities == 1..NumCommunities
Spine == 0  \* the strategic spines: always part of the frontier
Targets == Communities \cup {Spine}
Ids == {"shortest", "townward", "gap"}  \* candidate ids, "rural:<community>:..."
Actors == {"classifier", "agent"}
Answers == {"shortest", "townward", Marker, NoAnswer}

RunSettings == [live : BOOLEAN, provisional : BOOLEAN,
                classifier : BOOLEAN, specialist : BOOLEAN]

ASSUME RuralConstants ==
    /\ NumCommunities \in Nat
    /\ Links \subseteq [from : Communities, to : Targets, length : Nat]
    /\ \A l, m \in Links : l.from = m.from /\ l.to = m.to => l = m
    /\ Townward \in [Communities -> Seq(Targets)]
    /\ Dominates \subseteq Communities \X Targets \X Targets
    /\ \A c \in Communities, t, u \in Targets :
         <<c, t, u>> \in Dominates => <<c, u, t>> \notin Dominates
    /\ InexactEntry \subseteq Communities \X Targets
    /\ InexactLength \subseteq Communities \X Targets
    /\ {Marker, NoAnswer} \cap Ids = {}
    /\ Marker # NoAnswer
    /\ Settings \subseteq RunSettings
    /\ MaxCrashes \in Nat /\ MaxForks \in Nat

-----------------------------------------------------------------------------
(* Offers *)

\* What a community can be joined at, each candidate by its id.
Offers == {o \in [community : Communities, candidates : UNION {[D -> Targets] : D \in SUBSET Ids}] :
             DOMAIN o.candidates # {}}

ASSUME NoOfferIsNone == NoOffer \notin Offers

\* frontier_targets: the spines and every accepted community.
Frontier(accepted) == accepted \cup {Spine}

\* The order in which compute_offer prefers links: length, community, target.
Before(l, m) ==
    \/ l.length < m.length
    \/ l.length = m.length /\ l.from < m.from
    \/ l.length = m.length /\ l.from = m.from /\ l.to < m.to

\* Where the way to the town first meets the frontier, if it does.
MeetsAt(c, frontier) ==
    {Townward[c][i] : i \in {j \in DOMAIN Townward[c] :
        /\ Townward[c][j] \in frontier
        /\ \A k \in 1..(j - 1) : Townward[c][k] \notin frontier}}

\* The offer for the community of the shortest link: that link and, if it ends
\* elsewhere, the way to the town as far as the frontier.
OfferOver(link, frontier) ==
    LET townward == MeetsAt(link.from, frontier) \ {link.to}
    IN  [community |-> link.from,
         candidates |-> [id \in {"shortest"} \cup (IF townward = {} THEN {} ELSE {"townward"}) |->
                           IF id = "shortest" THEN link.to ELSE CHOOSE t \in townward : TRUE]]

LinksTo(pending, frontier) == {l \in Links : l.from \in pending /\ l.to \in frontier}

\* Mutant: communities can only be joined to the spines.
OfferAtSpines(pending, accepted) ==
    LET reachable == LinksTo(pending, {Spine})
    IN  IF reachable = {} THEN NoOffer
        ELSE OfferOver(CHOOSE l \in reachable : \A m \in reachable \ {l} : Before(l, m),
                       Frontier(accepted))

\* compute_offer: the pending community with the shortest link to the frontier.
OfferNext(pending, accepted) ==
    LET reachable == LinksTo(pending, Frontier(accepted))
    IN  IF reachable = {} THEN NoOffer
        ELSE OfferOver(CHOOSE l \in reachable : \A m \in reachable \ {l} : Before(l, m),
                       Frontier(accepted))

\* The task that records a gap has the gap itself for its only candidate.
GapOffer(c) == [community |-> c, candidates |-> [id \in {"gap"} |-> Spine]]

\* mechanical_rural_candidate: the only candidate, or one that dominates.
Mechanical(offer) ==
    {id \in DOMAIN offer.candidates :
        \A other \in DOMAIN offer.candidates \ {id} :
            <<offer.community, offer.candidates[id], offer.candidates[other]>> \in Dominates}

-----------------------------------------------------------------------------
(* The events of the branch *)

Decisions == [kind : {"decision"}, community : Communities, id : Ids, to : Targets,
              selected : BOOLEAN, provisional : BOOLEAN]
Tasks == [kind : {"task"}, community : Communities, offer : Offers]
Starts == [kind : {"attempt-started"}, community : Communities, actor : Actors]
Results == [kind : {"attempt-result"}, community : Communities, actor : Actors,
            answer : Answers]
Events == Decisions \cup Tasks \cup Starts \cup Results

SelectAt(offer, id, provisional) ==
    [kind |-> "decision", community |-> offer.community, id |-> id,
     to |-> offer.candidates[id], selected |-> TRUE, provisional |-> provisional]

\* An unresolved operation names the first candidate of the offer.
LeaveUnresolved(offer) ==
    LET id == IF "gap" \in DOMAIN offer.candidates THEN "gap" ELSE "shortest"
    IN  [kind |-> "decision", community |-> offer.community, id |-> id,
         to |-> offer.candidates[id], selected |-> FALSE, provisional |-> FALSE]

Escalates(answer) == answer \in {Marker, NoAnswer}

\* Mutant: every answer is taken for the id of a candidate.
SelectAnyAnswer(offer, answer) ==
    [kind |-> "decision", community |-> offer.community, id |-> answer,
     to |-> offer.candidates["shortest"], selected |-> TRUE, provisional |-> FALSE]

\* rural_classifier_operation, or the unresolved operation that stands for it.
ClassifierDecision(offer, answer) ==
    IF answer \in DOMAIN offer.candidates THEN SelectAt(offer, answer, FALSE)
    ELSE LeaveUnresolved(offer)

\* rural_specialist_operation: a choice of the specialist needs permission.
SpecialistDecision(offer, answer, provisional) ==
    IF answer \in DOMAIN offer.candidates /\ provisional THEN SelectAt(offer, answer, TRUE)
    ELSE LeaveUnresolved(offer)

-----------------------------------------------------------------------------
VARIABLES
    chain,     \* the rural events of the branch, oldest first
    pc,        \* where the run is
    run,       \* the settings of the run in progress, or of the last one
    pending,   \* planner: communities neither accepted nor rejected
    accepted,  \* planner: accepted communities (primary_records)
    completed, \* communities with an operation, as the run knows
    at,        \* the event the frontier is being rebuilt from
    task,      \* the offer of the current task, as it was retained
    reread,    \* whether it was read back from the history
    actor,     \* whose attempt the run is working on
    answer,    \* the answer of that attempt
    decision,  \* the operation about to be appended
    outcome,   \* how the last run ended
    crashes, forks

planner == <<pending, accepted>>
memory == <<planner, completed, at, task, reread, actor, answer, decision>>
vars == <<chain, pc, run, memory, outcome, crashes, forks>>

IsTask(e, c) == e.kind = "task" /\ e.community = c
IsResult(e, c, a) == e.kind = "attempt-result" /\ e.community = c /\ e.actor = a
TaskRecorded(c) == \E e \in ToSet(chain) : IsTask(e, c)
ResultRecorded(c, a) == \E e \in ToSet(chain) : IsResult(e, c, a)

\* The offer of the task of c; the branch has at most one.
OfferRecorded(c) == (CHOOSE e \in ToSet(chain) : IsTask(e, c)).offer
AnswerRecorded(c, a) == (CHOOSE e \in ToSet(chain) : IsResult(e, c, a)).answer
RecordedDecisions == {e \in ToSet(chain) : e.kind = "decision"}

\* pending_attempt: an attempt was started and no result follows.
Unfinished ==
    \E i \in DOMAIN chain :
        /\ chain[i].kind = "attempt-started"
        /\ \A j \in (i + 1)..Len(chain) :
             ~IsResult(chain[j], chain[i].community, chain[i].actor)

\* The memory of a run that has ended, and of one that begins.
Forget ==
    /\ pending' = Communities /\ accepted' = {} /\ completed' = {} /\ at' = 1
    /\ task' = NoOffer /\ reread' = FALSE
    /\ actor' = "classifier" /\ answer' = NoAnswer /\ decision' = NoDecision

\* The run ends with an error: the history is contradicted ("disagrees"), or a
\* number in it differs from the one it was written from ("rounded").
Fail(reason) ==
    /\ pc' = "idle"
    /\ outcome' = reason
    /\ Forget

-----------------------------------------------------------------------------
(* Starting, and rebuilding the frontier *)

\* Mutant: a run does not look for operations that were recorded before it.
BeginAnew(settings) ==
    /\ pc = "idle"
    /\ run' = settings
    /\ IF Unfinished \/ \E d \in RecordedDecisions : d.provisional /\ ~settings.provisional
       THEN outcome' = "refused" /\ UNCHANGED pc
       ELSE outcome' = "running" /\ pc' = "rebuild"
    /\ UNCHANGED <<chain, memory, crashes, forks>>

\* run_internal before the rural sequence: see DecisionRun!Begin.
Begin(settings) ==
    /\ pc = "idle"
    /\ run' = settings
    /\ IF Unfinished \/ \E d \in RecordedDecisions : d.provisional /\ ~settings.provisional
       THEN /\ outcome' = "refused"
            /\ UNCHANGED <<pc, completed>>
       ELSE /\ outcome' = "running"
            /\ pc' = "rebuild"
            /\ completed' = {d.community : d \in RecordedDecisions}
    /\ UNCHANGED <<chain, planner, at, task, reread, actor, answer, decision, crashes, forks>>

\* RuralAccessPlanner::accept: the community can be a parent from now on.
AcceptCommunity(c) ==
    /\ pending' = pending \ {c}
    /\ accepted' = accepted \cup {c}

\* Mutant: a rejected community is joined at its first candidate all the same.
RejectIntoFrontier(c) ==
    /\ pending' = pending \ {c}
    /\ accepted' = accepted \cup {c}

\* RuralAccessPlanner::reject: it will be no one's parent.
RejectCommunity(c) ==
    /\ pending' = pending \ {c}
    /\ UNCHANGED accepted

\* Mutant: only selections are put back.
PutBackSelection(d) ==
    IF d.selected THEN AcceptCommunity(d.community) ELSE UNCHANGED planner

\* A recorded operation is put back into the planner.
PutBack(d) ==
    IF d.selected THEN AcceptCommunity(d.community) ELSE RejectCommunity(d.community)

\* The planner offers the community of operation d now, the candidate of its
\* retained task has a parent that was selected before, and leads where the
\* candidate of that id leads now if it was selected.
Fits(d) ==
    LET now == OfferNext(pending, accepted)
        retained == OfferRecorded(d.community).candidates[d.id]
    IN  /\ now # NoOffer
        /\ now.community = d.community
        /\ retained = Spine \/ \E j \in 1..(at - 1) :
              chain[j].kind = "decision" /\ chain[j].community = retained /\ chain[j].selected
        /\ d.selected => d.id \in DOMAIN now.candidates /\ now.candidates[d.id] = retained

\* The urban entry of d, computed again, is not the one read from its task.
EntryDiffers(d) == d.selected /\ <<d.community, d.to>> \in InexactEntry

\* One event after the other. A gap was recorded when there was nothing left to
\* offer, and has no offer now.
Rebuild ==
    /\ pc = "rebuild" /\ at <= Len(chain)
    /\ IF chain[at].kind # "decision" \/ chain[at].id = "gap"
       THEN at' = at + 1 /\ UNCHANGED <<planner, completed, pc, outcome, task, reread, actor, answer, decision>>
       ELSE IF ~Fits(chain[at]) THEN Fail("disagrees")
       ELSE IF EntryDiffers(chain[at]) THEN Fail("rounded")
       ELSE /\ PutBack(chain[at])
            /\ at' = at + 1
            /\ UNCHANGED <<completed, pc, outcome, task, reread, actor, answer, decision>>
    /\ UNCHANGED <<chain, run, crashes, forks>>

Rebuilt ==
    /\ pc = "rebuild" /\ at > Len(chain)
    /\ pc' = "offer"
    /\ UNCHANGED <<chain, run, memory, outcome, crashes, forks>>

-----------------------------------------------------------------------------
(* One community *)

\* The planner's offer becomes a task, or the retained task is taken. If nobody
\* was asked before, a mechanical choice decides it.
TakeOffer ==
    /\ pc = "offer"
    /\ LET now == OfferNext(pending, accepted)
           c == now.community
           offer == IF TaskRecorded(c) THEN OfferRecorded(c) ELSE now
           mechanical == IF \E a \in Actors : ResultRecorded(c, a) THEN {} ELSE Mechanical(now)
       IN  /\ now # NoOffer
           /\ IF c \in completed
              THEN Fail("disagrees") /\ UNCHANGED chain
              ELSE /\ chain' = IF TaskRecorded(c) THEN chain
                               ELSE Append(chain, [kind |-> "task", community |-> c, offer |-> now])
                   /\ task' = offer
                   /\ reread' = TaskRecorded(c)
                   /\ actor' = "classifier"
                   /\ IF mechanical = {}
                      THEN pc' = "attempt" /\ UNCHANGED decision
                      ELSE /\ pc' = "decide"
                           /\ \E id \in mechanical : decision' = SelectAt(now, id, FALSE)
                   /\ UNCHANGED <<planner, completed, at, answer, outcome>>
    /\ UNCHANGED <<run, crashes, forks>>

ReuseAttempt ==
    /\ pc = "attempt"
    /\ ResultRecorded(task.community, actor)
    /\ answer' = AnswerRecorded(task.community, actor)
    /\ pc' = "judge"
    /\ UNCHANGED <<chain, run, planner, completed, at, task, reread, actor, decision, outcome, crashes, forks>>

StartAttempt ==
    /\ pc = "attempt"
    /\ ~ResultRecorded(task.community, actor)
    /\ chain' = Append(chain, [kind |-> "attempt-started", community |-> task.community,
                               actor |-> actor])
    /\ pc' = "wait"
    /\ UNCHANGED <<run, memory, outcome, crashes, forks>>

AsksProvider == IF actor = "classifier" THEN run.live /\ run.classifier ELSE TRUE

\* The provider answers, or the attempt is skipped; the result is recorded.
FinishAttempt ==
    /\ pc = "wait"
    /\ answer' \in IF AsksProvider THEN Answers ELSE {NoAnswer}
    /\ chain' = Append(chain, [kind |-> "attempt-result", community |-> task.community,
                               actor |-> actor, answer |-> answer'])
    /\ pc' = "judge"
    /\ UNCHANGED <<run, planner, completed, at, task, reread, actor, decision, outcome, crashes, forks>>

\* Mutant: a specialist that gave no answer is tried again.
JudgeAgain ==
    /\ pc = "judge"
    /\ IF Escalates(answer) /\ run.live /\ run.specialist
       THEN /\ actor' = "agent"
            /\ pc' = "attempt"
            /\ UNCHANGED decision
       ELSE /\ decision' = ClassifierDecision(task, answer)
            /\ pc' = "decide"
            /\ UNCHANGED actor
    /\ UNCHANGED <<chain, run, planner, completed, at, task, reread, answer, outcome, crashes, forks>>

Judge ==
    /\ pc = "judge"
    /\ IF actor = "classifier" /\ Escalates(answer) /\ run.live /\ run.specialist
       THEN /\ actor' = "agent"
            /\ pc' = "attempt"
            /\ UNCHANGED decision
       ELSE /\ decision' = IF actor = "classifier" THEN ClassifierDecision(task, answer)
                           ELSE SpecialistDecision(task, answer, run.provisional)
            /\ pc' = "decide"
            /\ UNCHANGED actor
    /\ UNCHANGED <<chain, run, planner, completed, at, task, reread, answer, outcome, crashes, forks>>

\* A measure of d, taken from a task that was read back, is not the planner's.
MeasuresDiffer(d) ==
    d.selected /\ reread /\ <<d.community, d.to>> \in InexactEntry \cup InexactLength

\* The planner accepts or rejects, and the operation is appended.
Decide ==
    /\ pc = "decide"
    /\ LET now == OfferNext(pending, accepted)
           id == decision.id
       IN  IF decision.selected /\ (id \notin DOMAIN now.candidates
                                    \/ now.candidates[id] # task.candidates[id])
           THEN Fail("disagrees") /\ UNCHANGED chain
           ELSE IF MeasuresDiffer(decision) THEN Fail("rounded") /\ UNCHANGED chain
           ELSE /\ IF decision.selected THEN AcceptCommunity(now.community)
                   ELSE RejectCommunity(now.community)
                /\ chain' = Append(chain, decision)
                /\ completed' = completed \cup {now.community}
                /\ task' = NoOffer /\ reread' = FALSE
                /\ actor' = "classifier" /\ answer' = NoAnswer /\ decision' = NoDecision
                /\ pc' = "offer"
                /\ UNCHANGED <<at, outcome>>
    /\ UNCHANGED <<run, crashes, forks>>

-----------------------------------------------------------------------------
(* Gaps, and the end *)

NoMoreOffers ==
    /\ pc = "offer"
    /\ OfferNext(pending, accepted) = NoOffer
    /\ pc' = "gaps"
    /\ UNCHANGED <<chain, run, memory, outcome, crashes, forks>>

\* The next community the planner could not serve, in the order of their ids.
NextGap(c) ==
    /\ c \in pending \ completed
    /\ \A e \in pending \ completed : c <= e

RecordGapTask(c) ==
    /\ pc = "gaps" /\ NextGap(c)
    /\ ~TaskRecorded(c)
    /\ chain' = Append(chain, [kind |-> "task", community |-> c, offer |-> GapOffer(c)])
    /\ UNCHANGED <<pc, run, memory, outcome, crashes, forks>>

RecordGap(c) ==
    /\ pc = "gaps" /\ NextGap(c)
    /\ TaskRecorded(c)
    /\ chain' = Append(chain, LeaveUnresolved(GapOffer(c)))
    /\ completed' = completed \cup {c}
    /\ UNCHANGED <<pc, run, planner, at, task, reread, actor, answer, decision, outcome, crashes, forks>>

Finish ==
    /\ pc = "gaps"
    /\ pending \subseteq completed
    /\ pc' = "idle"
    /\ outcome' = "returned"
    /\ Forget
    /\ UNCHANGED <<chain, run, crashes, forks>>

-----------------------------------------------------------------------------
(* Kills and forks *)

Kill ==
    /\ pc # "idle"
    /\ crashes < MaxCrashes
    /\ crashes' = crashes + 1
    /\ pc' = "idle"
    /\ outcome' = "killed"
    /\ Forget
    /\ UNCHANGED <<chain, run, forks>>

\* fork: the work goes on on a new branch, from before the task of c.
Fork(c) ==
    /\ pc = "idle"
    /\ forks < MaxForks
    /\ \E i \in DOMAIN chain :
         /\ IsTask(chain[i], c)
         /\ chain' = SubSeq(chain, 1, i - 1)
    /\ forks' = forks + 1
    /\ outcome' = "none"
    /\ UNCHANGED <<pc, run, memory, crashes>>

-----------------------------------------------------------------------------
Init ==
    /\ chain = <<>>
    /\ pc = "idle"
    /\ run \in Settings
    /\ pending = Communities /\ accepted = {} /\ completed = {} /\ at = 1
    /\ task = NoOffer /\ reread = FALSE
    /\ actor = "classifier" /\ answer = NoAnswer /\ decision = NoDecision
    /\ outcome = "none"
    /\ crashes = 0 /\ forks = 0

Step ==
    \/ Rebuild \/ Rebuilt
    \/ TakeOffer
    \/ ReuseAttempt \/ StartAttempt \/ FinishAttempt \/ Judge
    \/ Decide
    \/ NoMoreOffers
    \/ \E c \in Communities : RecordGapTask(c) \/ RecordGap(c)
    \/ Finish

Next ==
    \/ \E settings \in Settings : Begin(settings)
    \/ Step
    \/ Kill
    \/ \E c \in Communities : Fork(c)

Spec == Init /\ [][Next]_vars

\* The run takes its own steps, but may wait for a provider for ever.
FairSpec == Spec /\ WF_vars(Step /\ ~(pc = "wait" /\ AsksProvider))

-----------------------------------------------------------------------------
(* Properties *)

\* Every variable has its type.
TypeOK ==
    /\ chain \in Seq(Events)
    /\ pc \in {"idle", "rebuild", "offer", "attempt", "wait", "judge", "decide", "gaps"}
    /\ run \in RunSettings
    /\ pending \subseteq Communities /\ accepted \subseteq Communities
    /\ completed \subseteq Communities
    /\ at \in Nat \ {0}
    /\ task \in Offers \cup {NoOffer} /\ reread \in BOOLEAN
    /\ actor \in Actors /\ answer \in Answers
    /\ decision \in Decisions \cup {NoDecision}
    /\ outcome \in {"none", "running", "refused", "disagrees", "rounded", "returned", "killed"}
    /\ crashes \in 0..MaxCrashes /\ forks \in 0..MaxForks

\* A resumed run is never stopped by the history of the runs before it: the
\* planner offers the communities again in the order they were decided in, and
\* what was selected still leads where it led.
NothingDisagrees == outcome # "disagrees"

\* The history in which the numbers of a path were written as text and read back
\* is accepted by the run that resumes it, as it is for the report: ensure_base
\* compares text with text, since comparing the in-memory value would reject a
\* valid resume.
RoundingRefusesNoResume == outcome # "rounded"

\* The planner of a run knows what the branch records, however many runs,
\* rejections and gaps the branch goes back to.
PlannerFollowsHistory ==
    pc \notin {"idle", "rebuild"} =>
        /\ accepted = {d.community : d \in {e \in RecordedDecisions : e.selected}}
        /\ pending = Communities \ {d.community : d \in {e \in RecordedDecisions : e.id # "gap"}}
        /\ completed = {d.community : d \in RecordedDecisions}

\* From every community that was joined the parents lead back to a spine: each
\* parent was joined, not just offered, before its child.
AccessReachesSpine ==
    \A i \in DOMAIN chain :
        chain[i].kind = "decision" /\ chain[i].selected /\ chain[i].to # Spine =>
            \E j \in 1..(i - 1) :
                /\ chain[j].kind = "decision" /\ chain[j].selected
                /\ chain[j].community = chain[i].to

\* No community is decided twice, and a run that returns has decided them all.
EveryCommunityOnce ==
    /\ \A i, j \in DOMAIN chain :
         /\ chain[i].kind = "decision" /\ chain[j].kind = "decision"
         /\ chain[i].community = chain[j].community
         => i = j
    /\ outcome = "returned" => {d.community : d \in RecordedDecisions} = Communities

\* A community is only given up as a gap if no link leads from it to a spine or
\* to any community that was joined, earlier or later.
GapsAreUnreachable ==
    \A d \in RecordedDecisions :
        d.id = "gap" =>
            LinksTo({d.community},
                    Frontier({e.community : e \in {s \in RecordedDecisions : s.selected}})) = {}

\* A run ends, unless a provider does not answer.
RunEnds == pc # "idle" ~> pc = "idle" \/ (pc = "wait" /\ AsksProvider)
=============================================================================
