------------------------- MODULE PartitionExecution -------------------------
(***************************************************************************)
(* execute_partitions of src/satn/parallel_execution.py: partition tasks   *)
(* are run in a bounded pool of workers, or one after the other, in the    *)
(* order of their ids; a task that failed is run once more by the process  *)
(* itself.  A worker may fail, leave half a file, or take its process, and *)
(* with it the pool, down.                                                 *)
(***************************************************************************)
EXTENDS Naturals, FiniteSets

CONSTANTS
    NumTasks,   \* tasks, numbered in the order of their partition ids
    Profiles,   \* execution profiles, each with the digest that is expected
    Required,   \* tasks that may not become gaps
    MayFail,    \* tasks whose worker may raise an exception
    MayDie      \* tasks whose worker process may exit unexpectedly

Tasks == 1..NumTasks

ASSUME ExecutionConstants ==
    /\ NumTasks \in Nat
    /\ Required \subseteq Tasks /\ MayFail \subseteq Tasks
    /\ MayDie \subseteq Tasks
    \* expected: the complete tasks of the expected digest; {0}: none was given
    /\ Profiles \subseteq [mode : {"serial", "thread", "process"}, workers : Nat \ {0},
                            expected : {{0}} \cup SUBSET Tasks]

VARIABLES
    profile, \* the execution profile of the run
    phase,   \* where execute_partitions is
    next,    \* the next task to submit, to run serially or to look at
    future,  \* future[t]: the state of the attempt in the pool
    pending, \* submitted, and the result not yet taken
    alive,   \* tasks a worker of the pool is executing
    broken,  \* the pool lost a process and accepts no more work
    first,   \* first[t]: the outcome of the first attempt
    result,  \* result[t]: complete, a gap, or none yet
    file     \* file[t]: the output file of the task

vars == <<profile, phase, next, future, pending, alive, broken, first, result, file>>
pool == <<future, pending, alive, broken>>

Min(S) == CHOOSE x \in S : \A y \in S : x <= y
Finished == {"returned", "raised", "broken"}

Init ==
    /\ profile \in Profiles
    /\ phase = IF profile.mode = "serial" THEN "serial" ELSE "fill"
    /\ next = 1
    /\ future = [t \in Tasks |-> "none"]
    /\ pending = {} /\ alive = {} /\ broken = FALSE
    /\ first = [t \in Tasks |-> "none"]
    /\ result = [t \in Tasks |-> "none"]
    /\ file = [t \in Tasks |-> "none"]

-----------------------------------------------------------------------------
(* _bounded_map: the submitting process *)

\* fill: submit raises an exception when the pool is broken, and fill is not
\* guarded as the taking of results is.
Submit ==
    /\ phase = "fill"
    /\ next <= NumTasks /\ Cardinality(pending) < profile.workers
    /\ IF broken
       THEN /\ phase' = "abandon"
            /\ UNCHANGED <<future, pending>>
       ELSE /\ future' = [future EXCEPT ![next] = "queued"]
            /\ pending' = pending \cup {next}
            /\ UNCHANGED phase
    /\ next' = next + 1
    /\ UNCHANGED <<alive, broken, first, result, file>>

Filled ==
    /\ phase = "fill"
    /\ next > NumTasks \/ Cardinality(pending) = profile.workers
    /\ phase' = IF pending = {} THEN "shutdown" ELSE "collect"
    /\ UNCHANGED <<next, pool, first, result, file>>

\* Mutant: a task whose future has finished is taken for complete.
CollectUnchecked ==
    /\ phase = "collect"
    /\ LET t == Min(pending)
       IN  /\ future[t] \in Finished
           /\ first' = [first EXCEPT ![t] = "ok"]
           /\ pending' = pending \ {t}
    /\ phase' = "fill"
    /\ UNCHANGED <<next, future, alive, broken, result, file>>

\* The result of the oldest pending task is awaited; an exception is an
\* outcome of the task like any other.
Collect ==
    /\ phase = "collect"
    /\ LET t == Min(pending)
       IN  /\ future[t] \in Finished
           /\ first' = [first EXCEPT ![t] = IF future[t] = "returned" THEN "ok" ELSE "error"]
           /\ pending' = pending \ {t}
    /\ phase' = "fill"
    /\ UNCHANGED <<next, future, alive, broken, result, file>>

\* Mutant: the results are looked at from index zero.
ShutdownAtZero ==
    /\ phase \in {"shutdown", "abandon"} /\ alive = {}
    /\ \A t \in Tasks : future[t] # "queued"
    /\ phase' = IF phase = "shutdown" THEN "results" ELSE "aborted"
    /\ next' = 0
    /\ UNCHANGED <<pool, first, result, file>>

\* Mutant: shutdown(wait=False).
LeavePool ==
    /\ phase \in {"shutdown", "abandon"}
    /\ phase' = IF phase = "shutdown" THEN "results" ELSE "aborted"
    /\ next' = 1
    /\ UNCHANGED <<pool, first, result, file>>

\* shutdown(wait=True): nothing of the pool is left when it returns.
Shutdown ==
    /\ phase \in {"shutdown", "abandon"}
    /\ alive = {}
    /\ \A t \in Tasks : future[t] # "queued"
    /\ phase' = IF phase = "shutdown" THEN "results" ELSE "aborted"
    /\ next' = 1
    /\ UNCHANGED <<pool, first, result, file>>

-----------------------------------------------------------------------------
(* The workers of the pool *)

WorkerStarts(t) ==
    /\ future[t] = "queued" /\ ~broken
    /\ Cardinality(alive) < profile.workers
    /\ future' = [future EXCEPT ![t] = "running"]
    /\ alive' = alive \cup {t}
    /\ UNCHANGED <<phase, next, pending, broken, first, result, file>>

\* _invoke_worker: the output is in the file of the task, whole.
WorkerReturns(t) ==
    /\ t \in alive /\ future[t] = "running"
    /\ future' = [future EXCEPT ![t] = "returned"]
    /\ alive' = alive \ {t}
    /\ file' = [file EXCEPT ![t] = "whole"]
    /\ UNCHANGED <<phase, next, pending, broken, first, result>>

\* A worker that writes its file itself may have begun.
WorkerRaises(t) ==
    /\ t \in alive /\ future[t] = "running" /\ t \in MayFail
    /\ future' = [future EXCEPT ![t] = "raised"]
    /\ alive' = alive \ {t}
    /\ \E left \in {"none", "partial"} : file' = [file EXCEPT ![t] = left]
    /\ UNCHANGED <<phase, next, pending, broken, first, result>>

\* A worker process is gone: the pool is broken, and every submitted task that
\* has not finished fails, although its worker may still be at work.
WorkerDies(t) ==
    /\ t \in alive /\ future[t] = "running" /\ t \in MayDie
    /\ profile.mode = "process"
    /\ broken' = TRUE
    /\ future' = [u \in Tasks |-> IF future[u] \in {"queued", "running"}
                                  THEN "broken" ELSE future[u]]
    /\ alive' = alive \ {t}
    /\ \E left \in {"none", "partial"} : file' = [file EXCEPT ![t] = left]
    /\ UNCHANGED <<phase, next, pending, first, result>>

\* The other processes of a broken pool are terminated, whatever they wrote.
WorkerTerminated(t) ==
    /\ t \in alive /\ broken
    /\ alive' = alive \ {t}
    /\ \E left \in {"none", "partial", "whole"} : file' = [file EXCEPT ![t] = left]
    /\ UNCHANGED <<phase, next, future, pending, broken, first, result>>

-----------------------------------------------------------------------------
(* _serial_attempt, as the first attempt of the serial profile *)

Serial(t, ok) ==
    /\ phase = "serial" /\ t = next
    /\ ok \/ t \in MayFail
    /\ first' = [first EXCEPT ![t] = IF ok THEN "ok" ELSE "error"]
    /\ \E left \in IF ok THEN {"whole"} ELSE {"none", "partial"} :
         file' = [file EXCEPT ![t] = left]
    /\ next' = next + 1
    /\ UNCHANGED <<phase, pool, result>>

SerialDone ==
    /\ phase = "serial" /\ next > NumTasks
    /\ phase' = "results" /\ next' = 1
    /\ UNCHANGED <<pool, first, result, file>>

-----------------------------------------------------------------------------
(* execute_partitions: results and retries, task by task *)

Accept(t) ==
    /\ phase = "results" /\ t = next /\ first[t] = "ok"
    /\ result' = [result EXCEPT ![t] = "complete"]
    /\ next' = next + 1
    /\ UNCHANGED <<phase, pool, first, file>>

RetryReturns(t) ==
    /\ phase = "results" /\ t = next /\ first[t] = "error"
    /\ file' = [file EXCEPT ![t] = "whole"]
    /\ result' = [result EXCEPT ![t] = "complete"]
    /\ next' = next + 1
    /\ UNCHANGED <<phase, pool, first>>

\* Mutant: what the attempts left stays where it is.
RetryRaisesKeepingFile(t) ==
    /\ phase = "results" /\ t = next /\ first[t] = "error" /\ t \in MayFail
    /\ IF t \in Required
       THEN /\ phase' = "raised"
            /\ UNCHANGED <<next, result>>
       ELSE /\ result' = [result EXCEPT ![t] = "gap"]
            /\ next' = next + 1
            /\ UNCHANGED phase
    /\ UNCHANGED <<pool, first, file>>

\* Mutant: an optional task is tried until it succeeds.
RetryAgain(t) ==
    /\ phase = "results" /\ t = next /\ first[t] = "error" /\ t \in MayFail
    /\ \E left \in {"none", "partial"} : file' = [file EXCEPT ![t] = left]
    /\ phase' = IF t \in Required THEN "raised" ELSE phase
    /\ UNCHANGED <<next, pool, first, result>>

\* A second failure: the file is removed; a required task ends the run, an
\* optional one becomes a gap.
RetryRaises(t) ==
    /\ phase = "results" /\ t = next /\ first[t] = "error" /\ t \in MayFail
    /\ file' = [file EXCEPT ![t] = "none"]
    /\ IF t \in Required
       THEN /\ phase' = "raised"
            /\ UNCHANGED <<next, result>>
       ELSE /\ result' = [result EXCEPT ![t] = "gap"]
            /\ next' = next + 1
            /\ UNCHANGED phase
    /\ UNCHANGED <<pool, first>>

\* The digest covers the complete outputs only.
Return ==
    /\ phase = "results" /\ next > NumTasks
    /\ phase' = IF profile.expected = {0} \/ profile.expected = {t \in Tasks : result[t] = "complete"}
                THEN "returned" ELSE "mismatch"
    /\ UNCHANGED <<next, pool, first, result, file>>

-----------------------------------------------------------------------------
Ended == {"returned", "mismatch", "raised", "aborted"}

\* The run is over; nothing happens after it.
Over ==
    /\ phase \in Ended
    /\ UNCHANGED vars

Own ==
    /\ \/ Submit \/ Filled \/ Collect \/ Shutdown
       \/ SerialDone \/ Return
       \/ \E t \in Tasks : \/ \E ok \in BOOLEAN : Serial(t, ok)
                           \/ Accept(t) \/ RetryReturns(t) \/ RetryRaises(t)
    /\ UNCHANGED profile

Worker(t) ==
    /\ \/ WorkerStarts(t) \/ WorkerReturns(t) \/ WorkerRaises(t)
       \/ WorkerDies(t) \/ WorkerTerminated(t)
    /\ UNCHANGED profile

Next == Own \/ (\E t \in Tasks : Worker(t)) \/ Over

Spec == Init /\ [][Next]_vars

\* Every worker gets time, and ends; so does the process itself.
FairSpec == Spec /\ WF_vars(Own) /\ \A t \in Tasks : WF_vars(Worker(t))

-----------------------------------------------------------------------------
(* Properties *)

\* Every variable has its type.
TypeOK ==
    /\ profile \in Profiles
    /\ phase \in {"serial", "fill", "collect", "shutdown", "abandon", "results"} \cup Ended
    /\ next \in 1..(NumTasks + 1)
    /\ future \in [Tasks -> {"none", "queued", "running"} \cup Finished]
    /\ pending \subseteq Tasks /\ alive \subseteq Tasks
    /\ broken \in BOOLEAN
    /\ first \in [Tasks -> {"none", "ok", "error"}]
    /\ result \in [Tasks -> {"none", "complete", "gap"}]
    /\ file \in [Tasks -> {"none", "partial", "whole"}]

\* When the process runs a task again, or has ended, no worker of the pool can
\* still write a file, not even one of a pool that broke down.
RetriesAreAlone ==
    phase \in {"results"} \cup Ended =>
        /\ alive = {}
        /\ \A t \in Tasks : future[t] \notin {"queued", "running"}

\* A run that returns has an outcome for each task: the whole output of a
\* complete one, and no file of a gap, which is never a required task.
ResultsMatchFiles ==
    phase = "returned" =>
        \A t \in Tasks :
            \/ result[t] = "complete" /\ file[t] = "whole"
            \/ result[t] = "gap" /\ file[t] = "none" /\ t \notin Required

\* A task that completed is not run again: its output stays as it is to the
\* end, whatever becomes of the tasks after it.
CompletedIsKept ==
    [][\A t \in Tasks : first[t] = "ok" => file[t] = "whole" /\ file'[t] = "whole"]_vars

\* A run is only ended by a required task that failed twice, or by a digest
\* that is not the expected one. (Not so: fill runs into the broken pool.)
OnlyTasksEndTheRun == phase # "aborted"

\* Every run ends.
RunsEnd == <>(phase \in Ended)
=============================================================================
