# A verification of the agentic SATN compiler

TLA+ models of the stateful parts of this repository, the TLC runs that check
them on small instances, and theorems about them that TLAPS checks. Paths are
relative to the repository (`src/rust/src/midend.rs` in `PROJECT.json` is
`rust/src/midend.rs` here).

* [The system](#the-system)
* [The modules](#the-modules)
* [The runs](#the-runs)
* [Proofs](#proofs)
* [Where code and documentation disagree](#where-code-and-documentation-disagree)
* [Not modelled](#not-modelled)
* [Plan](#plan)

## The system

The repository compiles strategic active travel networks. It holds two
implementations: the native compiler (`rust/`, about 16 thousand lines), which
is the current program, and the retained Python implementation (`src/satn`,
`src/lcwip`, `scripts`), from which planning, evidence, publication and
acceptance tools are still used. `docs/compiler-architecture.md` and
`docs/concepts/decision-process.md` describe the first, the records under
`docs/adr` both.

### Native compiler

| Part | State | Operations | Interacts with |
| --- | --- | --- | --- |
| History store, `midend.rs` `HistoryStore` | `base.json`; `events.jsonl` (one event per line, all branches); `branches.json` (newest event of each branch) | `open`, `ensure_base`, `append`, `chain`, `fork` | the run writes and reads it; the file system under it can tear or lose writes |
| Urban decision run, `run_internal` | operations in memory; the connection, attempt and answer it is at | for each connection: task, classifier attempt, perhaps specialist attempt, decision | asks the providers; every step is an event of the store |
| Rural sequence, `run_rural_sequence` and `RuralAccessPlanner` | pending communities, the accepted frontier, the cached offer | offer, accept, reject, gaps at the end | the frontier is rebuilt from the store when a run resumes |
| Replay and officer decisions, `replay`, `officer.rs` | the ledger applied over recorded operations | read only | the store, the prepared report |
| Providers, `judgment.rs` | none | one HTTP request; one child process with pipes | called by the run, without a timeout |
| Compilation, `compiler.rs`, `graph.rs`, ... | none that outlives a call | graph search, candidates, connections, accounting | its report is the input of a run |
| Publication, `publication.rs`, `output.rs`, `main.rs` | files it writes | rendering | reads the result of a run |

What is hard here: a run takes hours and costs requests to paid providers, so
it is interrupted and resumed, on histories that hold the work of earlier
versions of it. A connection of the network is decided by several appends with
a request in the middle, each append is five writes to two files, and of these
only one is synced. The program must then find, from the events alone, what was
asked, what was answered and what was decided.

What makes it correct: no event that was acknowledged is lost or changed; no
provider is asked twice about the same connection of a branch; a decision is
what the recorded answers lead to, whoever recorded them; a task was made from
all the earlier decisions it depends on; a resumed run returns what a replay
of the branch returns; a fork can be run although its source cannot.

### Retained implementation

| Part | State | What is hard |
| --- | --- | --- |
| Partition execution, `parallel_execution.py` | a bounded pool, the futures submitted, one output file per task | workers that fail, leave half a file, or take the pool down; results taken in order while workers finish in any |
| Planning history, `planning_history.py` | content-addressed records, a record and a head per branch, a lock per branch | two processes committing or forking; a crash between two of the files |
| Planning runtime, `planning_runtime.py`, `typesafe_planning.py` | the state an operation read, in memory | a state that another process has moved on from; a provider asked by a run that dies |
| Planning engine, `planning_engine.py` | none | rules of a pure function |
| Filesystem replacement, `filesystem_safety.py` | a destination, its staging and its backup | two renames, a rollback that can fail |
| Retained artifacts, `retained_artifacts.py` | artifacts by identity, pins, a transaction record per collection | nothing is locked: a collection interrupted half way, undone by whoever opens the store next; pins that arrive between plan and collection |
| Incremental DAG and the reuse of `pipeline.py` | the artifacts made so far in a compilation | reuse of an artifact whose dependency changed; an artifact that cannot be decoded |
| Partitions and stitch, `geographic_partitions.py`, `partition_stitch.py`, `parallel_reduction*.py` | obligations at boundaries | each boundary owned once |
| Evidence store, `_evidence_operations.py`, `local_evidence_store.py` | a database file, its sibling while it is rebuilt, a lock file | the lock file is moved by one command and removed by another; cleaning up after a failure |
| Elevation snapshots, `ea_*.py` | a checkpoint, a recovery journal, snapshot directories | a fixed point and a promotion across interruptions |
| Acceptance cut-over, governance, officer decisions | records and their digests | preconditions that became stale |
| LCWIP, `src/lcwip` | stages of a plan | what a late change reopens |
| Pages and deployments | packages of files | replacement, accounting of bytes |
| Pipeline, selection, sources, publishers, scripts | none that outlives a call | large sequential algorithms |

What makes these correct: a result, a file and a gap belong to the same task; a
planning branch replays to the state its next event begins with, and holds
every request that was sent for it; a compilation that reuses artifacts makes
what it would make from nothing, and what is pinned stays; evidence that was
registered is only lost to a command that named it; and everything that takes
a lock ends.

`PROJECT.json` lists every part with its files and whether it is modelled, and
every hazard at its line with the properties that cover it.

## The modules

```
DecisionLedger            what a history promises
   ^            ^                 ^
   | refines    | refines         | refines
HistoryStore   DecisionRun       PlanningRuntime -- EXTENDS --> PlanningHistory
(the files)    (the runs)        (run, advance, fork)           (branch files, locks)
   |            ^-- MCDecisionRun          |     (instance for TLC)
   |            ^-- DecisionRun_proofs     |     (theorems)
   |                   ^-- DecisionHistory_proofs
   ^-- HistoryStore_proofs                 ^-- PlanningRuntime_proofs

RuralSequence             the frontier, over the rural events of a branch
   ^-- MCRuralSequence, RuralSequence_proofs

RetainedCompilation  -- EXTENDS -->  RetainedArtifacts
(resolver, pipeline)                 (store, collection, recovery)
   ^-- MCRetainedCompilation, RetainedCompilation_proofs

EvidenceWorkspace         the commands of the evidence store
   ^-- EvidenceWorkspace_proofs

PartitionExecution        the pool of the retained implementation
   ^-- MCPartitionExecution, PartitionExecution_proofs
```

### DecisionLedger

The abstract specification. A branch is a sequence of events; a step appends
one event to one branch, makes a branch from a prefix of another, makes the
history unreadable, or, if `HeadsMayBeLost`, takes branches back to prefixes of
themselves. Everything else is forbidden: rewriting an event, appending to two
branches at once, shortening a branch without a power loss. It lets a history
become unreadable because the code does (see below), and readable again
only through a power loss that removes the torn line. "Readable" is said of the
whole: every line is an event or skipped, and every branch can be followed.

### HistoryStore

The files, one write at a time.

| Model | Code |
| --- | --- |
| `lines`, `terminated`, `synced` | `events.jsonl`: its lines and how each reads; whether the last has its newline; how many are on the disk |
| `heads`, `diskHeads` | `branches.json`, as read and as it is on the disk |
| `append` | the local variables of `append`, with the write it is at |
| `BeginAppend`, `WriteEvent`, `WriteNewline`, `SyncEvents`, `WriteHead` | `append`: id and parent (505-513), `to_writer` (518), newline (519), `sync_data` (520), `write_branches` (523) |
| `Fork` | `fork`: a new head at the parent of a task event |
| `Readable`, `EventLines`, `Count` | `events`: what it fails on, what it returns and what it skips |
| `ChainOf`, `IsWay`, `LineOf` | `chain`: the map from ids to events, and the walk from the head |
| `KillProcess`, `LosePower`, `WriteBackHeads` | the operating system |

`append` gives `serde_json::to_writer` an unbuffered `File`, so an event is
many small writes: a kill in the middle leaves half a line. Half a line of text is
an error of the parser, and `events` fails. One that ends inside a character (text
that is no ASCII is written as it is) is no UTF-8, which is an error of the reader,
and the filter at line 451 drops it: `events` goes on without it. What is written
next goes onto the same line, is skipped with it, and gets its head all the same. A
line `reads` accordingly as an event, as an error or as skipped. A power loss keeps
the synced lines and any part of the others. `rename` is atomic to a reader and
durable only once the operating system writes it back. The content of an event
(`Bodies`) is all that a branch's meaning depends on. `kept` and `diskKept` remember,
for the properties only, the head each branch had when `chain` could last follow it.

### DecisionRun

One urban run, over branches as sequences of events (that the files behave so is
what `HistoryStore!ImplementsLedger` checks; the failures are the same, but for one:
half a line always makes the file unreadable here, see below).

| Model | Code |
| --- | --- |
| `base`, `created`, `chain` | `base.json`, `branches.json`, and the chain of each branch |
| `file` | the end of `events.jsonl`: clean, without newline ("open"), or not readable ("torn") |
| `disk` | what a power loss leaves of `base.json` and of the heads |
| `run`, `ops`, `conn`, `actor`, `answer`, `choice`, `decision` | local variables of `run_internal` |
| `calls` | a count of requests, kept for the properties only |
| `Begin` | 713-780: base, branch, pending attempt, recorded operations |
| `Pick`, `EnsureTask`, `ReuseAttempt`, `StartAttempt`, `Ask`, `RecordResult`, `JudgeClassifier`, `JudgeSpecialist`, `Decide`, `Finish`, `Abort` | the loop from 784 on, cut at every append and around every request |
| `Fork` | `fork` and the check that the branch is new |
| `Kill`, `LosePower`, `WriteBackFiles` | failures |

Data that no property tells apart is abstracted: a task is its connection, its
base, the relevant earlier decisions and the permission; a provider's answer is a
candidate id, a marker, an abstention or nothing. A provider can name a candidate
the connection does not admit. Which candidates a connection admits and which decisions bear on which
connections (`Admitted`, `Neighbours`, `Overlaps`) are constants, since the
report is fixed for a history. Events of the history that belong to no chain
(interrupted appends) are not in the model: that they do not disturb a chain is
`EventIdsUnique` and `HeadsResolve` of `HistoryStore`, whose one exception is not in
this model either. A run that goes on over a line which was cut inside a
character loses the event it writes first and, with it, its branch: its next look at
the branch is an error, and if there is none it returns decisions that no replay of
the branch can read.

### RuralSequence

`run_rural_sequence` with the `RuralAccessPlanner` it drives. Communities are
joined one at a time, the nearest first, and what was decided about one changes
what the others are offered. The planner is memory: a resumed run asks it for
all the offers again and answers with the recorded operations.

| Model | Code |
| --- | --- |
| `pending`, `accepted` | `pending` and `primary_records` of the planner |
| `OfferNext`, `MeetsAt`, `Mechanical` | `compute_offer`, `destination_frontier_candidate`, `mechanical_rural_candidate` |
| `AcceptCommunity`, `RejectCommunity` | `accept`, `reject` |
| `chain` | the rural events of the branch |
| `completed`, `at`, `task`, `actor`, `answer`, `decision` | local variables of `run_rural_sequence` |
| `Begin`, `Rebuild` (`Fits`, `EntryDiffers`, `PutBack`), `Rebuilt` | the operations found on the branch, and the loop that puts each back (1029-1120) |
| `TakeOffer` | the offer, its task, new or retained, and a mechanical choice (1122-1166) |
| `ReuseAttempt`, `StartAttempt`, `FinishAttempt`, `Judge` | both attempts (1167-1213, 1338-1460) |
| `Decide` | the planner accepts or rejects, the operation is appended (1214-1274) |
| `NoMoreOffers`, `RecordGapTask`, `RecordGap`, `Finish` | gaps (1276-1330) and the end |
| `Kill`, `Fork` | the end of the process anywhere; `fork` |

What a path is made of is left out: a shortest link is its two ends and a length, the way to
the town is the sequence of targets it meets, a candidate is the target it ends at. A
candidate for each criterion other than these two would add ids and no
control. Which of two candidates dominates is a constant, and so is which
numbers change when they are written as text and read back (`InexactEntry`,
`InexactLength`): serde_json parses without `float_roundtrip`, and `reread`
says whether a run found its task in the history. A fork goes on on the prefix
it copies. A kill leaves the branch whole: torn lines, and the settings a
run can be started with, are the subject of `HistoryStore` and `DecisionRun`,
whose attempts are the same functions.

### PartitionExecution

`execute_partitions` with the pool as the library provides it: the submitting
process (`Submit`, `Filled`, `Collect`, `Shutdown`), the workers, the
process-pool behaviour on a lost process (every unfinished future fails at
once, the other workers are terminated, further submits raise), the serial
profile (the variable `profile`, fixed in a run), and the acceptance, retry and gap of each task. A file is none,
partial or whole. Python's executor is modelled from how the code uses it.
Left to the worker, and assumed: a worker that returns has written its file
(`_invoke_worker` checks that it exists). A task that takes its process down
does not do so again in the serial retry, where it would end the program.

### PlanningHistory and PlanningRuntime

A planning history is used by several processes. Records are content-addressed
and never change; a branch is two files, a record of where it starts and a head,
and a lock file. Each write is an fsynced rename, so it is one step, and a
process can be killed between any two. An event contains the digest of its
parent: the model names an event by the sequence of contents up to it, so that
the chain of a head is the head.

| Model | Code |
| --- | --- |
| `events`, `checkpoints` | the event and checkpoint records in the object store |
| `lineage`, `head`, `lock` | the branch record, the head and the `flock` of each branch |
| `op` | the local variables of an operation, the planning state it read among them |
| `LockBranch`, `PutEvent`, `PutCheckpoint`, `WriteHead` | `commit` with `_prepare_event` |
| `BeginFork`, `LockParent`, `LockChild`, `WriteLineage`, `WriteFirstHead` | `fork` and `create_branch` with `_create_branch_unlocked` |
| `PutCheckpointAgain` | `checkpoint` |
| `Replay`, `CurrentState`, `CheckpointOf` | `replay`, `_current_state_ref`, `_get_checkpoint` and `fork` |
| `BeginRun`, `Resume` | `run` and `_start_or_resume` |
| `ApplyExplicit`, `Validated`, `NoProgress`, `DecideByCode`, `RecordRequest`, `DecideRequest` | the explicit operations and the loop of `run`, for decisions of code |
| `StartAttempt`, `Dispatch`, `Answer` | the attempt, the request to a provider, and what comes back |
| `BeginAdvance`, `ReplayPrefix`, `Replace` | `advance` |
| `RecordAfter`, `Record` | `_commit`, which reads the head it expects just before it commits |

A planning state is known by the decisions that led to it. The events that say
why a run ends (refused, failed, interrupted) are one kind. A process that is
killed loses its locks, as the system releases an `flock`.

### RetainedArtifacts and RetainedCompilation

The store has no lock at all. `RetainedArtifacts` is one file operation per
step: `put` makes a directory and renames it into place, `resolve` moves what
fails validation to the quarantine, a collection moves artifacts one by one
into its directory under a transaction record and then removes that directory
entry by entry, and every process that opens the store undoes or completes the
collections it finds, whether their collectors are dead or not.

| Model | Code |
| --- | --- |
| `stored`, `damaged`, `illegible`, `altered`, `old` | `artifacts/`: the ones that fail validation, those of them whose manifest cannot be read, the ones only a decoder can tell, the ones past the grace period |
| `quarantine` | `quarantine/`, without what has been put in place again since |
| `staging`, `pins` | the directories of `gc-staging/` with their `transaction.json`; the pin records |
| `Resolve`, `Reject`, `PutExisting`, `PutRename` | `resolve`, `reject_semantic_artifact`, `put` |
| `Candidates`, `IsOnly`, `Search` | `resolve_specification` |
| `Open`, `Recover`, `Restore` | `__init__` and `_recover_gc_transactions` |
| `Plan`, `Collect`, `WriteTransaction`, `Move`, `CommitCollection`, `Rollback` | `plan_garbage_collection`, `collect_garbage` |
| `ListEntries`, `RemoveEntry`, `RemoveDirectory` | `shutil.rmtree`, in the collector and in recovery |
| `BeginCompile`, `Lookup`, `Build`, `Rename`, `Publish` | `IncrementalDAGResolver.resolve`; the stages of `pipeline.py` |
| `Confirm` | the search of `pipeline.py` (2097) for what it has just put |
| `Lineage`, `Pin`, `WritePin` | `_prepare_active_semantic_reuse`; `pin` |

The identity of an artifact is a digest of its manifest, which holds its
specification (the stage, the version of that stage's own inputs, the artifacts it
was made from) and its outputs. A builder can make different outputs from one
specification (`Outputs`), and each is an artifact of its own. A search is for a
specification: it passes every artifact there is, resolves those it cannot read and those
that match, and is a miss unless exactly one of them is whole
(`nondeterministic-output-candidates`). So a compilation can build a stage
although the store holds it, and what it builds need not be what the store
holds; what is behind that stage must then not be taken from the store either. `late` and
`contested` remember, for the properties only, the two cases in which the code
does lose artifacts, so that the properties can say that there is no third.

### EvidenceWorkspace

The commands that change an evidence store, of several processes. A lock is on
a file, not on a name, and the lock file can be moved or removed while others
have it open: files are therefore numbered by the operation that made them, and
the three paths name one of them or none.

| Model | Code |
| --- | --- |
| `store`, `sibling`, `lockfile`, `holder` | the paths of the database, of the rebuilt database and of the lock; who holds the lock of each file |
| `databases` | what each DuckDB file holds: its committed schema, current coverage and every coverage that was current |
| `OpenLock`, `Lock` | `_writer_lock` |
| `BeginInit`, `Create`, `CreateSchema`, `Verify`, `Report`, `Cleanup`, `RemoveStore`, `RemoveLock` | `init` (`Report` is its last call, `_evidence_operations.py:118`, after the lock is released) and `_cleanup_failed_initialise` |
| `BeginRefresh`, `Read`, `Commit` | `refresh`, one database transaction |
| `BeginRebuild`, `ReadSource`, `BuildSibling`, `ReplaceStore` | `refresh --rebuild` |
| `BeginDelete`, `Check`, `MoveStore`, `MoveLock` | `delete` |

`removed` and `strayed` are kept for the properties only.

## The runs

| Run | Question | Bounds | Result |
| --- | --- | --- | --- |
| `history_crashes` | do heads, ids and chains survive kills and power losses between and inside writes? | 2 branches, 3 lines, 2 failures | holds |
| `run_resume` | is the history right after interrupted and resumed runs, in different modes, with and without permission, with another report? does a run end? | 1 branch, 2 connections, 2 kills | holds |
| `run_fork` | what can be relied on after forks from finished or blocked branches, kills and power losses? | 2 branches, 2 connections, 2 reports, 1 failure | holds |
| `rural_resume` | does a resumed or forked rural sequence go on as the one before it would have, and end? | 5 communities, 2 kills, 1 fork | holds |
| `rural_rounded` | does it accept the numbers it wrote itself? | as `rural_resume` | violated |
| `partitions` | are results, files and bounds right whatever the workers do, in each profile? | 4 tasks, 2 workers | holds |
| `partitions_broken` | does only a task end the run? | as `partitions` | violated |
| `planning_concurrent` | do two processes on one planning history keep it consistent, and do their operations end? | 2 processes, 2 branches, 2 operations, 1 kill | holds |
| `artifacts` | is what a compilation has made from one another, is nothing reused that no longer stands, and does a collection keep what it must? | 2 processes, 2 stages, 2 inputs, 2 outputs of the last stage, 2 operations, 1 kill | holds |
| `artifacts_pin` | is what is pinned retained? | as `artifacts` | violated |
| `evidence` | is coverage only lost to a command that named it, or to the clean-up of a failed init? | 2 processes, 2 partitions, 3 commands, 1 kill | holds |
| `evidence_cleanup` | does a failed init remove only what it made? | as `evidence` | violated |

Why the bounds are enough.

* A chain needs two branches for ids to collide, and three lines for an orphan,
  its successor and an append on a fork; two failures make an orphan twice, or an
  unterminated line and then the line joined to it.
* A run needs two connections for one decision to bear on another and for a
  fork to have a prefix that is neither empty nor everything; in `MCDecisionRun`
  each connection's candidate is one the other does not admit, and a choice of
  `k1` is relevant to connection 2 while an unresolved one is not. Two kills
  allow an interruption of a resumed run.
* The five communities of `MCRuralSequence` are one that only reaches a spine,
  one that is nearer to another community than to a spine, one that can be
  joined at either of these, one that becomes a gap if it is rejected, and one
  whose offer has a mechanical choice.
* Four tasks and two workers leave tasks to submit after the pool has broken,
  one finished, one running and one waiting.
* Two operations on a planning history start from three kinds of history: an
  empty branch, a branch with a decision and its fork, and the same with a
  decision on the fork. Any two operations that interfere therefore meet at
  every pair of their steps; a run can make a decision, and an explicit one
  before it. A third operation would come after one of them or meet them in
  pairs, since each step touches the files of one branch.
* The store of artifacts starts with up to two artifacts that earlier
  compilations left, pinned or not, one of them damaged (so that its manifest can be
  read or not) or altered. The two inputs differ in the first stage, so that the
  second is never shared by mistake. Two outputs of the last stage
  are enough for a search that finds two candidates, for a pin that is not the
  only one of its specification, and for a put that is not confirmed. That the
  first stage can make several too is covered by the theorem.
* Three commands on a workspace are needed for a third to meet what two have
  done to the lock file.

The bounds are in the guards of `BeginAppend`, `BeginRun`, `BeginAdvance`,
`BeginFork`, `BeginCompile`, `BeginCollect`, `EvidenceWorkspace!Begin`
(`MaxLines`, `MaxOperations`, `MaxExplicit`), `KillProcess`, `Kill`, `LosePower`
(`MaxCrashes`) and `RuralSequence!Fork` (`MaxForks`), in the set of states a plan
can be in (`MaxDecisions`), in `Init` of `RetainedCompilation` (`MaxOld`), and
nowhere else. `Symmetry` of `MCRetainedCompilation` permutes processes,
inputs and outputs, which no definition tells apart; its runs check invariants only.

`CHECK_DEADLOCK FALSE` is set where a bound ends everything: in `HistoryStore`
(`MaxLines`; besides, a history with a torn line refuses every operation, which is what
the code does), and where the number of operations is bounded
(`PlanningRuntime`, `RetainedCompilation`, `EvidenceWorkspace`). In
`PlanningRuntime` two forks can also wait for each other, which
`OperationsEnd` names.

Fairness. `DecisionRun!FairSpec` has weak fairness on the steps of the run
itself, which is one thread that nothing else holds up, except for the
step that waits for a provider: neither the HTTP request nor
`wait_with_output` has a timeout, so the code does not justify more.
`RunEnds` therefore says that a run ends or waits for a provider.
`RuralSequence!FairSpec` is the same for the rural sequence, which runs in the
same thread.
`PartitionExecution!FairSpec` has weak fairness on the submitting process and
on each worker, assuming that workers end; the pool has no timeout either.
`PlanningRuntime!FairSpec` has weak fairness on each process, from the beginning
of an operation to its end, again without the answer of a provider
(`typesafe_planning.py` asks without a timeout). A blocking `flock` is a step that
is not enabled while another holds it; as operations are bounded, a lock that
is released is free for good in the end, and weak fairness is enough.

The properties, by what they are about:

* *Files.* `HeadsResolve` (every head, on the disk too, leads over lines that are
  events and synced; or its branch had an event run into a line that was left
  unfinished), `EventIdsUnique`, `HeadsKept`, `ImplementsLedger`.
* *Requests.* `NoSecondCall`, `UnfinishedIsLast`, `ForkCanRun`.
* *Decisions.* `OneDecisionPerConnection`, `DecisionsFollowAnswers`,
  `TasksSeeEarlierDecisions`, `ReplayReproducesRun`.
* *Rural sequence.* `NothingDisagrees` (a run is never stopped by what earlier
  runs recorded), `PlannerFollowsHistory` (the memory of a run is what its
  branch records), `AccessReachesSpine`, `EveryCommunityOnce`,
  `GapsAreUnreachable`.
* *Partitions.* `RetriesAreAlone`, `ResultsMatchFiles`, `CompletedIsKept`,
  `RunsEnd`.
* *Planning.* `HeadsResolve` (a head, its events, their checkpoints and the
  branch record are there, whoever was killed), `ReplayReproduces` (no decision
  on top of a state it had not seen), `AskedIsRecorded`, `ImplementsLedger`,
  `OperationsEnd`.
* *Artifacts.* `CompiledAsFromNothing` (whatever was found, forced or made again, a
  compilation has artifacts that were made from one another, as one compilation from
  nothing would have them, and nothing that was altered; and, its conjunct
  `ReusedFromReused`, what was to be made again, or is behind what was made anew, is
  not taken from the store), `PinnedStays` (an artifact is excepted only while it is in the quarantine: one
  that was made again must stay), `InterruptedIsWhole`.
* *Evidence.* `CoverageGrows`, `DeletedAsExpected`. The second says nothing of
  the clean-up of a failed init, whose removal of the store it exempts:
  `evidence_cleanup` shows what that removes.

Each has a mutant in `PROJECT.json`: a plausible mistake in the code, written as an
operator beside the definition it replaces, under which TLC finds the property
violated in the same run. `TasksSeeEarlierDecisions` is checked in
`run_resume` only; that it also holds with power losses and forks is a theorem.

## Proofs

Every theorem is about the specification of its module with the constants
left open: any number of branches, connections, communities, tasks, processes,
commands and failures. Each rests on an inductive invariant that TLC checked on
the instance of the run, as an invariant of its own, before it was proved; what
is said here of an invariant is what had to be added to the properties of the
runs to make them inductive. `PROJECT.json` lists the theorems with the
properties they state.

The assumptions are on constants only, and TLC evaluates them in every run:
shapes (`RunConstants`, `StoreConstants`, `HistoryConstants`,
`WorkspaceConstants`, `ExecutionConstants`, `RuralConstants`), and that the values
which stand for "nothing" or for a mark are none of the things they mark
(`SpecialValues`, `NoneIsNothing`, `NoOfferIsNone`).

### The decision run: `DecisionRun_proofs`, `DecisionHistory_proofs`

* `TypeCorrect`: `Spec => []TypeOK`. The invariant that is inductive is
  `TypeInv == TypeOK /\ Placed /\ NoEventsElsewhere`: while a run is in
  progress its branch exists and its base is retained, inside the loop a
  connection has been picked, a decision is there when it is to be appended,
  and a branch that was not created has no events.
* `AtMostOneCall`: if the machine does not lose power,
  `Spec => [](RequestsAreRecorded /\ NoSecondCall)`. The inductive invariant
  `CallInv` is made of `RequestsAreRecorded` (what was sent has its start on the
  branch; in a run, the only start without a result is the attempt it works on,
  not yet sent while `pc = "ask"`). `NoSecondCall` alone is not inductive: that
  a new attempt was never sent follows from there being no start on the branch,
  and that there is none from `Begin` having refused branches with a pending
  attempt. The proof must therefore relate the pairing of starts and results
  by position (`Pending`) to the one by membership (`ResultOn`), for appends
  and for the prefixes that a fork copies. The assumption is needed: after a power
  loss TLC finds a second request (see below). `RequestsAreRecorded` is in no
  run, since `NoSecondCall` is what a user would notice; it is the half of the
  invariant that carries the proof.
* `RunsImplementLedger`: `Spec => ImplementsLedger`, step by step: an append is
  `AppendTo`, a fork `ForkFrom`, a kill `TearLine` or a stutter, a power loss
  `LoseHeads`, and everything else leaves the ledger alone.
* `UnfinishedStaysLast`, `DecidedOnce`, `DecisionsAreFounded`,
  `TasksAreComplete`, `ReplayReturnsTheSame`, `ForksCanRun`, these with power losses
  too. They follow from `HistoryInv`, which has two parts. `IsRecord(s)` is what
  the events of any branch are like, said so that it holds of every beginning of
  `s` when it holds of `s`: that is what forks and power losses need. `Knows(s)`
  is what a run in progress knows of its branch: its operations are the decisions
  recorded there, the attempt it works on is the last event and has no result,
  its choice is an answer that was recorded. A decision can only be shown to
  follow from recorded answers because the answer a run judges, its own or an
  earlier run's, is the *only* result of that attempt (`OneResult`), and this in
  turn because a run whose branch ends in a start is refused. `Returned` keeps
  what a run returned true until the next one begins.

### The files under it: `HistoryStore_proofs`

`StoreInv` relates the lines to the heads. The number in an event's id is the number of
events up to its own line (`Numbered`, with `Rank`), which is why no two have the
same id (`Sound`); the heads that are kept lead over synced lines, and those
on the disk are older than those in use (`HeadsInv`); and what an append has read is
still so (`AppendInv`). A head that is not the one kept leads nowhere *for good*
(`LostInv`), and that takes more than the one event that is missing: an id could be
given again. So `LostInv` says that from some number on, no later than the next to be
given, the events of that branch have their parents among themselves (`Closed`): a way
from the head never comes to an event without a parent (`NotFollowed`), and no
later event, whatever its number, can give it one. A synced line of that branch is
no event (`Ruined`), which is the exception `HeadsResolve` makes. From it follow
`IdsAreUnique`, `HeadsAlwaysResolve`, `HeadsOnlyAdvance` and `FilesImplementLedger`. The
walk of `chain` is defined without recursion, as the only way from a head to an event
without a parent (`IsWay`); there is at most one (`WayUnique`), lines added later do
not change it (`SameChain`), a new event makes it one longer (`ChainGrows`), and a
fork's is a beginning of its source's (`ChainBegins`). In the refinement, a head
that leads to its event is `AppendTo`, and one that leads nowhere is `TearLine`: the
branch keeps what it had, and cannot be read.

### The rural sequence: `RuralSequence_proofs`

`RuralInv` says of the branch (`IsRecord`) that every decision was about what a
planner offers after exactly the events before it (`DecisionsFit`), that a task
offers what the planner still offers until its community is decided
(`TasksStand`), and that after a gap nothing is on offer (`GapsLast`);
and of a run (`Knows`) that its planner has been told of the part of the
branch it has put back. `OfferNext` being a function of what is pending and
accepted, a rebuilding planner meets the same offers again: `ResumesAgree`,
`PlannerIsRebuilt`, `DecidedOnce`. `ParentsAreJoined` needs that a candidate ends
at something of the frontier, and `GapsStay` that nothing on offer means no link
from anything that is left to the frontier, which is `compute_offer` finding a
shortest link whenever there is one (`ShortestLink`).

### The retained implementation

* `PartitionExecution_proofs`: `ExecutionInv` ties each future to the workers,
  the first attempt of each task and its file. A retry runs alone because the pool
  has been shut down, and nothing is running once it is broken; what a result
  says of a file stays true because no other attempt of that task is to come
  (`FileInv`). `RetriesRunAlone`, `FilesMatchResults`, `CompletedStays`.
* `PlanningRuntime_proofs`: `HistoryInv` says that every stored event, whether or not
  a head was written for it, was made at the end of its branch
  (`EventInv`), that a head's events and checkpoints are all stored
  (`BranchInv`), and what each operation knows while it holds a lock
  (`Known`: between the comparison of heads and the new head, the head is
  the expected one). That an event's input is the state its parents led to is
  `_transition`'s comparison of input states, and carries
  `ReplayAlwaysReproduces`; with `HeadsAlwaysResolve`, `RequestsAreRecorded`
  and `HistoryIsLedger`, the refinement of `DecisionLedger` by concurrent
  processes.
* `EvidenceWorkspace_proofs`: `WorkspaceInv` says who holds the lock of which file
  (`HolderInv`), that no file has the number of a command that has yet to make
  it (`NumberInv`), and that what a command learnt under the lock is still so
  when it acts (`KnownInv`). The last two hold as long as no process has strayed
  to a lock file that was replaced, and so do `WritersTakeTurns`,
  `CoverageOnlyGrows` and `DeletedOnlyAsExpected`: the properties themselves
  make that exception, since the code does not hold them without it.
  `WritersTakeTurns` is in no run: it is what the lock is for, and
  the reason why the other two hold.

### Retained artifacts: `RetainedCompilation_proofs`

`RetainedInv` is about processes that share a store without any lock, so most of it
says what a process may rely on while others go on:

* `TypeInv`: every artifact there is, was or will be is one that a compilation from nothing
  makes of some input (`Artifacts`). With that `TypeCorrect` follows, since such an
  artifact names exactly what its stage depends on.
* `CompileInv`: what a compilation has is begun (`IsBegun`): each artifact is of the next
  stage, of this input, and was made from exactly those before it that its stage
  depends on, with some output of its builder (`MadeAt`). That is about one artifact
  after the other, so that a step that appends one keeps it (`AppendBegun`),
  whether a search found it or a builder made it. `BegunIsPrefix` then finds the
  builders: the outputs the compilation has are what they make, and with these
  `FromNothing` begins with what the compilation has. What is pinned is the
  last of such a compilation, and what the pipeline reads back from a pin is all of it,
  because it insists on one artifact for every stage (`HasEveryStage`,
  `PinsAreWhole`). `CompilesAsFromNothing`.
* `Reuses`, a part of it: what a compilation made anew has its descendants among
  the invalidated stages, and what it did not make anew was neither forced nor
  depends on what was. A search happens only for a stage that is neither, and that
  what is behind a stage comes after it (`Behind`, `DependentIsBehind`) makes
  this inductive. As a reused artifact was made from artifacts the
  compilation itself has, its whole closure is reused (`ReusesWhatStands`).
* `NumberInv`, `MoveInv`: a collection works in the directory that has its number, nobody
  works there before the directory is made, and what it lists is what it has moved
  and what it has yet to move.
* `PinInv`: what is pinned is in place, in the quarantine or `late`, and only a `late` one is
  listed by a collection. A collection lists nothing that is reachable when it makes its
  directory; a pin that comes later is `late` by its definition, and the closure
  of the old pins and the new one is no more than the closures of both
  (`ClosureSplits`). `PinsAreKept`.
* `WholeInv`: two directories list the same artifact only if it is `contested`; what an
  uncommitted collection lists is safe or in its directory; what a collector or
  a recovery has yet to move back is all that is not safe
  (`Settles`); and a collector whose directory another process recovers has
  all its artifacts `contested`. `InterruptionsLoseNothing`.

Most steps lose nothing: they keep what is in place or put it into the quarantine, and
change at most the directory the process works on. `FrameKeeps` proves the
invariant for all of them at once, from what the step says of its own process
(`GoesOn`); `Recover`, `Collect`, `WriteTransaction`, `Move`, `WritePin` and the
two beginnings have proofs of their own.

The operators are recursive functions over the stages (`ClosureOf`, `Behind`, `FromNothing`), and the
prover has no induction over data. The lemmas about them look at the first stage
at which a statement fails (`UpTo`, from the least number of a set of numbers): the stage
before it satisfies the statement, and the step from one to the next does the
rest. `AboveExists`, `AfterExists` and `MadeExists` show in this way that the functions exist at all,
which their definitions by `CHOOSE` do not say.

Assumed are only the shape of the stages (`StoreConstants`: in topological order, each
once, each with an output that its builder can make) and that `None` is nothing else. The theorems are for any such graph of stages; the
run has two in a chain.

### Only model-checked

* Liveness: `RunEnds` (twice), `RunsEnd`, `OperationsEnd`. Liveness under fairness
  is out of the prover's reach.
* The properties of the four runs that violate them, which are false.

## Where code and documentation disagree

Four runs find a statement of the repository violated by what the code does:

* `rural_rounded`. The comment at `rust/src/midend.rs:395-400`: derived floating
  point fields "can be one ULP away in memory from their persisted JSON
  spelling; comparing the in-memory value would reject a valid resume", and the
  test at `rust/tests/midend.rs:638` has such a report accepted. The rural
  sequence compares the urban entry (1101) and, for a task it found in the history, also
  the lengths (1238-1243) in exactly that way: the branch can then not
  be resumed any more.
* `partitions_broken`. `docs/adr/0019-...:109-110` permits a serial retry after an
  unexpected worker failure, and `parallel_execution.py:578` says "process pool
  failures are per-task observations". While tasks are left to submit, a lost
  process ends the whole run, through the `submit` at line 570.
* `artifacts_pin`. `docs/adr/0019-...:130-132`: "Every artifact reachable from a
  publication, Scenario Compilation or active lineage is retained indefinitely".
  `collect_garbage` looks at the pins once more (`retained_artifacts.py:890-896`)
  and then moves what it listed (910-918), without a lock; a pin written in
  between is answered with success, and what it pins is removed.
* `evidence_cleanup`. The docstring at `_evidence_operations.py:410`: "Remove only
  inventory created by a failed first initialization." The failed init has
  released the lock before its clean-up takes it again; another init can make,
  commit and release a store in between, and the clean-up removes it. An init
  that fails after everything was verified, at its last look at the runtime (118),
  removes its own store in the same way, although other commands may have
  registered coverage in it by then.

Other weaknesses that the models show, which contradict no sentence of the
repository strongly enough for a run, or which the properties name as their
exceptions:

* *Native history.* A process killed while it writes an event leaves half a line of
  text; `events` then fails for the whole file, for every branch
  (`DecisionLedger!TearLine`). One killed inside a character leaves a line that
  `events` skips (`midend.rs:451`) instead of refusing it; the next `append` joins that
  line, returns its event and writes the head, and the event cannot be read, nor
  anything else of its branch: `chain` reports it missing (495-496). It is the
  one exception of `HeadsResolve`. The start of an attempt is synced but the
  head that leads to it is not: after a power loss the request can be repeated,
  although the test at `rust/tests/midend.rs:752` is named
  `an_started_attempt_is_not_silently_repeated`.
* *Planning history.* A process that dies between the record of a branch
  (`planning_history.py:924`) and its head (925) leaves a name that can never be used:
  later operations end with an error. A fork of a branch into itself, and two
  forks that each go into the branch the other comes from, wait for each other for ever
  (566-568, `ForksCross`). `_commit` (`planning_runtime.py:2063`) reads the
  head it expects just before it commits, so that the comparison of heads hardly
  ever refuses a stale run; the comparison of input states does. A run that
  resumes after an attempt without an answer asks the provider again: the attempt is
  recorded (`AskedIsRecorded`), and nothing looks for it. Outside the model:
  `replay` up to an event before the start of a fork returns the state the fork starts from.
* *Artifacts.* The rename of `put` onto a directory that another process has
  put there raises `ENOTEMPTY`, which is not the `FileExistsError` it
  expects, so that one of two equal compilations fails. Recovery undoes a
  collection whose collector is alive. Two collectors, of which one is killed,
  can lose artifacts that nothing pins (`contested`), after which opening the
  store fails; so it does after a crash between the directory of a
  collection and its record, or inside the removal of that directory.
  An alteration that keeps the size passes validation, and only the decoders
  of the pipeline notice it.
* *Evidence.* A process that opened the lock file before `delete` moved it away
  can lock it afterwards, while another locks the next one (`strayed`); from
  then on there can be two writers, where `docs/adr/0015-...:169-173` has one
  lock for all.
  An init that is killed, or whose clean-up finds the lock taken, can leave
  a half-made store that both init and delete refuse.

## Not modelled

* *Native compiler.* Two processes on one native history: nothing locks the
  directory, and nothing in the repository says that it may happen. A crash inside
  `ensure_base` that leaves `base.tmp` behind: it is overwritten. In the urban
  run, a line cut inside a character (it is in `HistoryStore`). In the rural
  sequence, torn lines and power losses, and candidates of the criteria other
  than "shortest" and "townward". The replay with officer decisions, a pure
  function whose result would be a parameter. The compilation, whose
  algorithms run over real-valued geometry, and rendering. The pipes of the
  specialist: what the child writes, and when, is not in the repository.
* *Partitions.* `benchmark_profiles` and `select_auto_profile`, which compare
  timings. A worker that returns and wrote nothing, beside a file left by an
  earlier run, is outside the assumption on workers.
* *Planning.* `investigate_evidence`, the expansions of a problem, the router's
  choice of a provider, the heartbeat thread (it prints), inline states of
  events, `verify`, the object store under a record, and the engine, whose
  states are named by the decisions that led to them. `_start_or_resume`
  reads the head twice; the model reads it once. `advance` of the history
  store itself is only called by tests.
* *Artifacts.* Run reports, `explain`. `resolve_active_lineage` is the resolution of
  a pin at the beginning of `Lineage`. A search of the store is one step: others do not move
  artifacts while it goes through the directories. Python 3.13 ignores entries
  that vanish during `rmtree`; the model is that of 3.12, the least version
  that `pyproject.toml` admits, where they are errors.
* *Evidence.* Normalisation, materialisations, equivalence and replay of stores,
  and the commands that only read. The extension cache, which a failed init
  removes as well, and with it the init that fails before it opens the lock file:
  it removes nothing else. Numbers of files (inodes) are not used again in the model.
* *Elevation snapshots.* `converge_ea_fixed_point`, a loop that resumes from a
  checkpoint of four phases, and `promote_recovery_transaction`, a journal
  of three replacements, are state machines of one process. They are the parts left
  out that a model would fit best; the modules here went to the parts where
  several processes meet.
* *Publications.* `filesystem_safety.py` replaces a directory by two renames; a
  crash between them leaves the backup under a name that nothing looks for,
  so there is no recovery to check.
* The rest of the retained implementation and LCWIP: sequential algorithms, rendering,
  and rules between documents that are pure functions, as the components
  of `PROJECT.json` say one by one. They are by far the most lines of the
  repository, and they keep no state between calls.

## Plan

1. Done: all modules above, and theorems about each of them that has a specification:
   every safety property that a passing run checks of `HistoryStore`,
   `DecisionRun`, `RuralSequence`, `PartitionExecution`, `PlanningRuntime`,
   `EvidenceWorkspace` and `RetainedCompilation`.
2. Next: what no run states yet but the proofs could reach. That everything a
   collection removes for good was in none of the closures of the pins when it was
   planned; that `quarantine` only has what was damaged or could not be decoded; the
   same bound on retries for the rural sequence that `AtMostOneCall` gives for
   the urban one.
