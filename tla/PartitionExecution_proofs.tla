---------------------- MODULE PartitionExecution_proofs ----------------------
(***************************************************************************)
(* Theorems about PartitionExecution, for any number of tasks and workers, *)
(* any profile, and any tasks that may fail or take their process down.    *)
(***************************************************************************)
EXTENDS PartitionExecution, WellFoundedInduction, TLAPS

-----------------------------------------------------------------------------
(* The inductive invariant *)

Before == {"serial", "fill", "collect", "shutdown", "abandon"}

\* The pool: a future whose task is at work is running, or failed when the pool
\* broke; a result is only awaited when one is pending; the serial profile has
\* no pool, and nothing was run of the tasks that were not submitted.
PoolInv ==
    /\ \A t \in alive : future[t] \in {"running", "broken"}
    /\ \A t \in Tasks : future[t] = "running" => t \in alive
    /\ phase = "collect" => pending # {}
    /\ phase = "serial" => alive = {} /\ \A t \in Tasks : future[t] = "none"
    /\ broken => \A t \in Tasks : future[t] # "running"
    /\ phase \in {"serial", "fill", "collect"} =>
          \A t \in Tasks : t >= next =>
              future[t] = "none" /\ first[t] = "none" /\ t \notin pending
    /\ RetriesAreAlone

\* The files: an attempt that returned, in the pool or before it, has left a
\* whole file, and a task with such an attempt has no other one at work or to
\* come.
FileInv ==
    /\ \A t \in Tasks : future[t] = "returned" => file[t] = "whole"
    /\ \A t \in Tasks : future[t] \in {"queued", "running", "returned"} => first[t] # "error"
    /\ \A t \in Tasks : first[t] = "ok" =>
          file[t] = "whole" /\ future[t] \in {"none", "returned"}

\* The outcomes: those of the tasks before "next", each with its file.
ResultInv ==
    /\ phase \in Before => \A t \in Tasks : result[t] = "none"
    /\ phase = "results" => \A t \in Tasks : t < next <=> result[t] # "none"
    /\ phase = "returned" => \A t \in Tasks : result[t] # "none"
    /\ \A t \in Tasks : result[t] = "complete" => file[t] = "whole"
    /\ \A t \in Tasks : result[t] = "gap" => file[t] = "none" /\ t \notin Required

ExecutionInv == TypeOK /\ PoolInv /\ FileInv /\ ResultInv

-----------------------------------------------------------------------------
\* The oldest pending task is one of the pending tasks.
LEMMA OldestIsPending ==
    ASSUME NEW S, S \subseteq Tasks, S # {}
    PROVE  Min(S) \in S
<1> DEFINE Less == OpToRel(<, Nat)
<1>1. S \subseteq Nat
  BY ExecutionConstants DEF Tasks
<1>2. IsWellFoundedOn(Less, Nat)
  BY NatLessThanWellFounded
<1>3. Less = {pair \in Nat \X Nat : pair[1] < pair[2]}
  BY DEF OpToRel
<1> HIDE DEF Less
<1>4. PICK x \in S : \A y \in S : <<y, x>> \notin Less
  BY <1>1, <1>2, WFMin
<1>5. \A y \in S : x <= y
  <2> SUFFICES ASSUME NEW y \in S PROVE x <= y
    OBVIOUS
  <2>1. x \in Nat /\ y \in Nat
    BY <1>1
  <2>2. ~(y < x)
    BY <1>3, <1>4, <2>1
  <2> QED
    BY <2>1, <2>2
<1> QED
  BY <1>5 DEF Min

LEMMA InitInv == Init => ExecutionInv
<1> SUFFICES ASSUME Init PROVE ExecutionInv
  OBVIOUS
<1>1. TypeOK
  <2>1. next \in 1..(NumTasks + 1)
    BY ExecutionConstants DEF Init
  <2>2. phase \in {"serial", "fill"}
    BY DEF Init
  <2> QED
    BY <2>1, <2>2 DEF Init, TypeOK
<1>2. PoolInv
  BY DEF Init, PoolInv, RetriesAreAlone, Ended
<1>3. FileInv
  BY DEF Init, FileInv
<1>4. ResultInv
  BY DEF Init, ResultInv
<1> QED
  BY <1>1, <1>2, <1>3, <1>4 DEF ExecutionInv

\* The submitting process while the pool is in use.
LEMMA PoolStepsKeep ==
    ASSUME ExecutionInv, UNCHANGED profile, Submit \/ Filled \/ Collect \/ Shutdown
    PROVE  ExecutionInv'
<1> USE ExecutionConstants DEF ExecutionInv, Tasks, Finished, Ended, Before
<1>1. CASE Submit
  <2>1. next \in Tasks /\ next' = next + 1 /\ next' \in 1..(NumTasks + 1)
    BY <1>1 DEF Submit, TypeOK
  <2>2. CASE broken
    <3>1. phase' = "abandon" /\ UNCHANGED <<pool, first, result, file>>
      BY <1>1, <2>2 DEF Submit, pool
    <3>2. TypeOK'
      BY <2>1, <3>1 DEF TypeOK, pool
    <3>3. PoolInv'
      BY <3>1 DEF PoolInv, RetriesAreAlone, pool
    <3>4. FileInv' /\ ResultInv'
      BY <1>1, <3>1 DEF Submit, FileInv, ResultInv, pool
    <3> QED
      BY <3>2, <3>3, <3>4
  <2>3. CASE ~broken
    <3>1. /\ future' = [future EXCEPT ![next] = "queued"]
          /\ pending' = pending \cup {next}
          /\ UNCHANGED <<phase, alive, broken, first, result, file>>
      BY <1>1, <2>3 DEF Submit
    <3>2. TypeOK'
      BY <2>1, <3>1 DEF TypeOK
    <3>3. next \notin alive /\ first[next] = "none"
      <4>1. first[next] = "none"
        BY <1>1, <2>1 DEF Submit, PoolInv, TypeOK
      <4>2. next \notin alive
        BY <1>1, <2>1 DEF Submit, PoolInv, TypeOK
      <4> QED
        BY <4>1, <4>2
    <3>4. PoolInv'
      BY <1>1, <2>1, <3>1, <3>3 DEF Submit, PoolInv, RetriesAreAlone, TypeOK
    <3>5. FileInv' /\ ResultInv'
      BY <1>1, <2>1, <3>1, <3>3 DEF Submit, FileInv, ResultInv, TypeOK
    <3> QED
      BY <3>2, <3>4, <3>5
  <2> QED
    BY <2>2, <2>3
<1>2. CASE Filled
  <2>1. TypeOK'
    BY <1>2 DEF Filled, TypeOK, pool
  <2>2. PoolInv'
    BY <1>2 DEF Filled, PoolInv, RetriesAreAlone, pool
  <2>3. FileInv' /\ ResultInv'
    BY <1>2 DEF Filled, FileInv, ResultInv, pool
  <2> QED
    BY <2>1, <2>2, <2>3
<1>3. CASE Collect
  <2>1. PICK t \in Tasks : /\ t \in pending /\ future[t] \in Finished
                           /\ first' = [first EXCEPT ![t] = IF future[t] = "returned"
                                                            THEN "ok" ELSE "error"]
                           /\ pending' = pending \ {t}
    <3>1. Min(pending) \in pending /\ pending \subseteq Tasks
      BY <1>3, OldestIsPending DEF Collect, TypeOK, PoolInv
    <3> QED
      BY <1>3, <3>1 DEF Collect
  <2>2. TypeOK'
    BY <1>3, <2>1 DEF Collect, TypeOK
  <2>3. PoolInv'
    BY <1>3, <2>1 DEF Collect, PoolInv, TypeOK, RetriesAreAlone
  <2>4. FileInv'
    BY <1>3, <2>1 DEF Collect, FileInv, TypeOK
  <2>5. ResultInv'
    BY <1>3 DEF Collect, ResultInv
  <2> QED
    BY <2>2, <2>3, <2>4, <2>5
<1>4. CASE Shutdown
  <2>1. TypeOK'
    BY <1>4 DEF Shutdown, TypeOK, pool
  <2>2. PoolInv'
    BY <1>4 DEF Shutdown, PoolInv, RetriesAreAlone, pool
  <2>3. FileInv'
    BY <1>4 DEF Shutdown, FileInv, pool
  <2>4. ResultInv'
    BY <1>4 DEF Shutdown, ResultInv, TypeOK
  <2> QED
    BY <2>1, <2>2, <2>3, <2>4
<1> QED
  BY <1>1, <1>2, <1>3, <1>4

\* The workers of the pool.
LEMMA WorkerStepsKeep ==
    ASSUME ExecutionInv, NEW t \in Tasks, Worker(t)
    PROVE  ExecutionInv'
<1> USE ExecutionConstants DEF ExecutionInv, Finished, Ended, Before
<1>1. CASE WorkerStarts(t)
  <2>1. TypeOK'
    BY <1>1 DEF Worker, WorkerStarts, TypeOK
  <2>2. PoolInv'
    BY <1>1 DEF Worker, WorkerStarts, PoolInv, TypeOK, RetriesAreAlone
  <2>3. FileInv' /\ ResultInv'
    BY <1>1 DEF Worker, WorkerStarts, FileInv, ResultInv, TypeOK
  <2> QED
    BY <2>1, <2>2, <2>3
<1>2. CASE WorkerReturns(t)
  <2>1. TypeOK'
    BY <1>2 DEF Worker, WorkerReturns, TypeOK
  <2>2. PoolInv'
    BY <1>2 DEF Worker, WorkerReturns, PoolInv, TypeOK, RetriesAreAlone
  <2>3. FileInv' /\ ResultInv'
    <3>1. phase \in Before
      BY <1>2 DEF WorkerReturns, PoolInv, RetriesAreAlone, TypeOK
    <3>2. FileInv'
      BY <1>2 DEF WorkerReturns, FileInv, PoolInv, TypeOK
    <3>3. ResultInv'
      BY <1>2, <3>1 DEF WorkerReturns, ResultInv, TypeOK
    <3> QED
      BY <3>2, <3>3
  <2> QED
    BY <2>1, <2>2, <2>3
<1>3. CASE WorkerRaises(t)
  <2>1. TypeOK'
    BY <1>3 DEF Worker, WorkerRaises, TypeOK
  <2>2. PoolInv'
    BY <1>3 DEF Worker, WorkerRaises, PoolInv, TypeOK, RetriesAreAlone
  <2>3. FileInv' /\ ResultInv'
    <3>1. phase \in Before
      BY <1>3 DEF WorkerRaises, PoolInv, RetriesAreAlone, TypeOK
    <3>2. FileInv'
      BY <1>3 DEF WorkerRaises, FileInv, PoolInv, TypeOK
    <3>3. ResultInv'
      BY <1>3, <3>1 DEF WorkerRaises, ResultInv, TypeOK
    <3> QED
      BY <3>2, <3>3
  <2> QED
    BY <2>1, <2>2, <2>3
<1>4. CASE WorkerDies(t)
  <2>1. TypeOK'
    BY <1>4 DEF Worker, WorkerDies, TypeOK
  <2>2. PoolInv'
    BY <1>4 DEF Worker, WorkerDies, PoolInv, TypeOK, RetriesAreAlone
  <2>3. FileInv' /\ ResultInv'
    <3>1. phase \in Before
      BY <1>4 DEF WorkerDies, PoolInv, RetriesAreAlone, TypeOK
    <3>2. FileInv'
      BY <1>4 DEF WorkerDies, FileInv, PoolInv, TypeOK
    <3>3. ResultInv'
      BY <1>4, <3>1 DEF WorkerDies, ResultInv, TypeOK
    <3> QED
      BY <3>2, <3>3
  <2> QED
    BY <2>1, <2>2, <2>3
<1>5. CASE WorkerTerminated(t)
  <2>1. TypeOK'
    BY <1>5 DEF Worker, WorkerTerminated, TypeOK
  <2>2. PoolInv'
    BY <1>5 DEF Worker, WorkerTerminated, PoolInv, TypeOK, RetriesAreAlone
  <2>3. FileInv' /\ ResultInv'
    <3>1. phase \in Before
      BY <1>5 DEF WorkerTerminated, PoolInv, RetriesAreAlone, TypeOK
    <3>2. FileInv'
      BY <1>5 DEF WorkerTerminated, FileInv, PoolInv, TypeOK
    <3>3. ResultInv'
      BY <1>5, <3>1 DEF WorkerTerminated, ResultInv, TypeOK
    <3> QED
      BY <3>2, <3>3
  <2> QED
    BY <2>1, <2>2, <2>3
<1> QED
  BY <1>1, <1>2, <1>3, <1>4, <1>5 DEF Worker

\* The submitting process alone: the serial profile, results and retries.
LEMMA OwnStepsKeep ==
    ASSUME ExecutionInv, Own
    PROVE  ExecutionInv'
<1> USE ExecutionConstants DEF ExecutionInv, Tasks, Finished, Ended, Before
<1>1. CASE Submit \/ Filled \/ Collect \/ Shutdown
  BY <1>1, PoolStepsKeep DEF Own
<1>2. CASE SerialDone
  <2>1. TypeOK'
    BY <1>2 DEF Own, SerialDone, TypeOK, pool
  <2>2. PoolInv' /\ FileInv'
    BY <1>2 DEF SerialDone, PoolInv, FileInv, RetriesAreAlone, pool
  <2>3. ResultInv'
    BY <1>2 DEF SerialDone, ResultInv, TypeOK
  <2> QED
    BY <2>1, <2>2, <2>3
<1>3. CASE Return
  <2>1. TypeOK'
    BY <1>3 DEF Own, Return, TypeOK, pool
  <2>2. PoolInv' /\ FileInv'
    BY <1>3 DEF Return, PoolInv, FileInv, RetriesAreAlone, pool
  <2>3. ResultInv'
    BY <1>3 DEF Return, ResultInv, TypeOK
  <2> QED
    BY <2>1, <2>2, <2>3
<1>4. ASSUME NEW t \in Tasks, NEW ok \in BOOLEAN, Serial(t, ok)
      PROVE  ExecutionInv'
  <2>1. TypeOK'
    BY <1>4 DEF Own, Serial, TypeOK, pool
  <2>2. PoolInv'
    BY <1>4 DEF Serial, PoolInv, RetriesAreAlone, TypeOK, pool
  <2>3. FileInv'
    BY <1>4 DEF Serial, PoolInv, FileInv, TypeOK, pool
  <2>4. ResultInv'
    BY <1>4 DEF Serial, ResultInv, TypeOK, pool
  <2> QED
    BY <2>1, <2>2, <2>3, <2>4
<1>5. ASSUME NEW t \in Tasks, Accept(t)
      PROVE  ExecutionInv'
  <2>1. TypeOK'
    BY <1>5 DEF Own, Accept, TypeOK, pool
  <2>2. PoolInv' /\ FileInv'
    BY <1>5 DEF Accept, PoolInv, FileInv, RetriesAreAlone, TypeOK, pool
  <2>3. ResultInv'
    BY <1>5 DEF Accept, FileInv, ResultInv, TypeOK, pool
  <2> QED
    BY <2>1, <2>2, <2>3
<1>6. ASSUME NEW t \in Tasks, RetryReturns(t)
      PROVE  ExecutionInv'
  <2>1. TypeOK'
    BY <1>6 DEF Own, RetryReturns, TypeOK, pool
  <2>2. PoolInv' /\ FileInv'
    BY <1>6 DEF RetryReturns, PoolInv, FileInv, RetriesAreAlone, TypeOK, pool
  <2>3. ResultInv'
    BY <1>6 DEF RetryReturns, FileInv, ResultInv, TypeOK, pool
  <2> QED
    BY <2>1, <2>2, <2>3
<1>7. ASSUME NEW t \in Tasks, RetryRaises(t)
      PROVE  ExecutionInv'
  <2>1. TypeOK'
    BY <1>7 DEF Own, RetryRaises, TypeOK, pool
  <2>2. PoolInv' /\ FileInv'
    BY <1>7 DEF RetryRaises, PoolInv, FileInv, RetriesAreAlone, TypeOK, pool
  <2>3. ResultInv'
    BY <1>7 DEF RetryRaises, FileInv, ResultInv, TypeOK, pool
  <2> QED
    BY <2>1, <2>2, <2>3
<1> QED
  BY <1>1, <1>2, <1>3, <1>4, <1>5, <1>6, <1>7 DEF Own

LEMMA StepsKeep == ExecutionInv /\ [Next]_vars => ExecutionInv'
<1> SUFFICES ASSUME ExecutionInv, [Next]_vars PROVE ExecutionInv'
  OBVIOUS
<1>1. CASE Own
  BY <1>1, OwnStepsKeep
<1>2. ASSUME NEW t \in Tasks, Worker(t) PROVE ExecutionInv'
  BY <1>2, WorkerStepsKeep
<1>3. CASE UNCHANGED vars
  BY <1>3 DEF vars, ExecutionInv, TypeOK, PoolInv, FileInv, ResultInv, RetriesAreAlone
<1> QED
  BY <1>1, <1>2, <1>3 DEF Next, Over

-----------------------------------------------------------------------------
(* Theorems *)

\* Every variable keeps its type.
THEOREM TypeCorrect == Spec => []TypeOK
<1>1. ExecutionInv => TypeOK
  BY DEF ExecutionInv
<1> QED
  BY <1>1, InitInv, StepsKeep, PTL DEF Spec

\* No worker of the pool is at work, nor will be, while the process runs a task
\* again or after the run has ended, with or without an exception.
THEOREM RetriesRunAlone == Spec => []RetriesAreAlone
<1>1. ExecutionInv => RetriesAreAlone
  BY DEF ExecutionInv, PoolInv
<1> QED
  BY <1>1, InitInv, StepsKeep, PTL DEF Spec

\* A run that returns has the whole file of each complete task and none of a
\* gap, and no required task is a gap.
THEOREM FilesMatchResults == Spec => []ResultsMatchFiles
<1>1. ExecutionInv => ResultsMatchFiles
  BY DEF ExecutionInv, ResultInv, TypeOK, ResultsMatchFiles
<1> QED
  BY <1>1, InitInv, StepsKeep, PTL DEF Spec

\* The file of a task that completed is whole, and no later step touches it.
THEOREM CompletedStays == Spec => CompletedIsKept
<1>1. ASSUME ExecutionInv, Next, NEW t \in Tasks, first[t] = "ok"
      PROVE  file[t] = "whole" /\ file'[t] = "whole"
  <2> USE DEF ExecutionInv, TypeOK
  <2>1. file[t] = "whole"
    BY <1>1 DEF FileInv
  <2>2. CASE Submit \/ Filled \/ Collect \/ Shutdown \/ SerialDone \/ Return \/ Over
    BY <2>1, <2>2 DEF Submit, Filled, Collect, Shutdown, SerialDone, Return, Over, vars
  <2>3. ASSUME NEW u \in Tasks, NEW ok \in BOOLEAN, Serial(u, ok)
        PROVE  file'[t] = "whole"
    <3>1. u # t
      BY <1>1, <2>3, ExecutionConstants DEF Serial, PoolInv, Tasks
    <3> QED
      BY <2>1, <2>3, <3>1 DEF Serial
  <2>4. ASSUME NEW u \in Tasks, Accept(u) \/ RetryReturns(u) \/ RetryRaises(u)
        PROVE  file'[t] = "whole"
    BY <1>1, <2>1, <2>4 DEF Accept, RetryReturns, RetryRaises
  <2>5. ASSUME NEW u \in Tasks, Worker(u)
        PROVE  file'[t] = "whole"
    <3>1. t \notin alive
      BY <1>1 DEF PoolInv, FileInv
    <3> QED
      BY <1>1, <2>1, <2>5, <3>1 DEF Worker, WorkerStarts, WorkerReturns, WorkerRaises,
                                    WorkerDies, WorkerTerminated
  <2> QED
    BY <1>1, <2>1, <2>2, <2>3, <2>4, <2>5 DEF Next, Own
<1>2. ExecutionInv /\ [Next]_vars =>
        [\A t \in Tasks : first[t] = "ok" => file[t] = "whole" /\ file'[t] = "whole"]_vars
  BY <1>1
<1> QED
  BY <1>2, InitInv, StepsKeep, PTL DEF Spec, CompletedIsKept

=============================================================================
