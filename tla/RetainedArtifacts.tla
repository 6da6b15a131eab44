-------------------------- MODULE RetainedArtifacts --------------------------
(***************************************************************************)
(* The store of src/satn/retained_artifacts.py (RetainedArtifactStore):    *)
(* content-addressed artifacts that name the artifacts they were made      *)
(* from, pins that keep them, and a garbage collection that first moves    *)
(* what it removes into a staging directory, with a transaction record     *)
(* that the next process to open the store recovers from.  Nothing is      *)
(* locked: a step is one change one process makes to one file or           *)
(* directory, with what it read just before, and a process can be killed   *)
(* between any two.                                                        *)
(*                                                                         *)
(* The identity of an artifact is a digest of its whole manifest: of the   *)
(* specification (the stage that made it, the version of that stage's own  *)
(* inputs, and the artifacts it was made from) and of the outputs that     *)
(* were made.  A builder may make different outputs from one               *)
(* specification, and each is an artifact of its own.                      *)
(***************************************************************************)
EXTENDS Naturals, SequencesExt, FiniteSetsExt

CONSTANTS
    Processes,     \* processes that use the store
    Stages,        \* the stages of a compilation, in topological order
    Dependencies,  \* [stage -> the stages it is made from]
    Inputs,        \* what can be compiled; also the names of the pins
    Version,       \* [input -> [stage -> version of the stage's own inputs]]
    Outputs,       \* [stage -> the outputs its builder can make]
    MaxOperations, \* bound: operations started
    MaxCrashes,    \* bound: processes killed
    MaxOld,        \* bound: artifacts in the store at the start
    None           \* no transaction, no pin, no operation

Names == Range(Stages)

ASSUME StoreConstants ==
    /\ Len(Stages) \in Nat \ {0} /\ DOMAIN Stages = 1..Len(Stages)
    /\ \A m, n \in DOMAIN Stages : Stages[m] = Stages[n] => m = n
    /\ \A n \in DOMAIN Stages :
          Dependencies[Stages[n]] \subseteq {Stages[m] : m \in 1..(n - 1)}
    /\ \A s \in Names : Outputs[s] # {}
    /\ MaxOperations \in Nat /\ MaxCrashes \in Nat /\ MaxOld \in Nat

\* Operations are numbered; the directory of a collection has the number of its
\* operation for a name.
Transactions == 1..MaxOperations

VARIABLES
    stored,      \* artifacts at their place
    damaged,     \* the ones of them whose files are not what was written
    illegible,   \* the damaged ones whose manifest cannot be read either
    altered,     \* artifacts with other content than was written, of the same
                 \* size: they pass validation, and fail to be decoded
    old,         \* those in their place that are older than the grace period
    quarantine,  \* artifacts moved away because they were damaged, and not put
                 \* in place again since
    staging,     \* staging[t]: the directory of collection t, None if there is none
    pins,        \* pins[i]: the artifact that is kept for input i, or None
    pc,          \* the step each process is at
    op,          \* the operation of each process: its local variables
    started,     \* operations started so far
    crashes      \* processes killed so far

disk == <<stored, damaged, illegible, altered, old, quarantine, staging, pins>>
vars == <<disk, pc, op, started, crashes>>

\* The artifacts S was made from, and what those were made from, ...
ClosureOf(S) ==
    LET Above[n \in 0..Len(Stages)] ==
            IF n = 0 THEN S
            ELSE Above[n - 1] \cup UNION {a.upstream : a \in Above[n - 1]}
    IN  Above[Len(Stages)]
Closure(a) == ClosureOf({a})

Goes(p, step) == pc' = [pc EXCEPT ![p] = step]
EndsNow(p) == Goes(p, "idle") /\ op' = [op EXCEPT ![p] = None]

-----------------------------------------------------------------------------
(* resolve: a hit if the artifact and all it was made from are in place and *)
(* pass validation. What fails validation is moved to the quarantine.       *)

IsValid(a) == a \in stored \ damaged
Resolves(a) == \A b \in Closure(a) : IsValid(b)

\* What a resolution of a looks at: it stops at what is not valid.
Visited(a) ==
    LET Seen[n \in 0..Len(Stages)] ==
            IF n = 0 THEN {a}
            ELSE Seen[n - 1] \cup UNION {b.upstream : b \in {c \in Seen[n - 1] : IsValid(c)}}
    IN  Seen[Len(Stages)]
Quarantine(found) ==
    /\ quarantine' = quarantine \cup found
    /\ stored' = stored \ found
    /\ damaged' = damaged \ found
    /\ illegible' = illegible \ found
    /\ altered' = altered \ found
    /\ old' = old \ found
    /\ UNCHANGED <<staging, pins>>
Resolve(a) == Quarantine(damaged \cap Visited(a))

-----------------------------------------------------------------------------
(* resolve_specification: the one artifact that was made from what the     *)
(* specification names.                                                    *)

Artifact(specification, output) ==
    [stage |-> specification.stage, version |-> specification.version,
     upstream |-> specification.upstream, output |-> output]
SpecificationOf(a) == [stage |-> a.stage, version |-> a.version, upstream |-> a.upstream]

\* Those of it that resolve. Unless there is exactly one, the search is a miss.
Candidates(specification) ==
    {a \in stored : SpecificationOf(a) = specification /\ Resolves(a)}
IsOnly(specification, a) == Candidates(specification) = {a}

\* What the search moves away: it passes every artifact there is, and resolves
\* those it cannot read and those of the specification.
Searched(specification) ==
    {a \in damaged : \/ a \in illegible
                    \/ \E b \in stored \ illegible :
                          SpecificationOf(b) = specification /\ a \in Visited(b)}
Search(specification) == Quarantine(Searched(specification))

\* reject_semantic_artifact, for what could not be decoded: whatever is at its
\* place by now is moved away.
Reject(p) ==
    /\ pc[p] = "reject"
    /\ Quarantine({op[p].rejected} \cap stored)
    /\ IF op[p].next = "idle" THEN EndsNow(p)
       ELSE Goes(p, op[p].next) /\ op' = [op EXCEPT ![p].rejected = None]
    /\ UNCHANGED <<started, crashes>>

-----------------------------------------------------------------------------
(* put *)

Writes(p, a) == Goes(p, "rename") /\ op' = [op EXCEPT ![p].made = a]

\* An artifact that is in place already is resolved and returned; what remains
\* in place but does not resolve is an error.
PutExisting(p, a, Returned) ==
    IF a \notin stored THEN Writes(p, a) /\ UNCHANGED disk
    ELSE /\ Resolve(a)
         /\ IF Resolves(a) THEN Returned
            ELSE IF a \in stored' THEN EndsNow(p) ELSE Writes(p, a)

\* It is made in a directory of its own, which is renamed to its place. When
\* another process put it there in the meantime, the rename fails with an error
\* that is not FileExistsError (a directory that is not empty), and so does put.
PutRename(p, a, Returned) ==
    IF a \in stored THEN EndsNow(p) /\ UNCHANGED disk
    ELSE /\ stored' = stored \cup {a}
         /\ altered' = altered \ {a}
         /\ quarantine' = quarantine \ {a}
         /\ UNCHANGED <<damaged, illegible, old, staging, pins>>
         /\ Returned

-----------------------------------------------------------------------------
(* Removing a directory of a collection (rmtree), by the collector or by a *)
(* process that opens the store: its entries are listed, removed one by    *)
(* one in any order, then the directory itself. An entry that is gone, and *)
(* one that is new, is an error.                                           *)

TransactionFile == None   \* its name among the names of artifacts
Without(directory, e) ==
    IF e = TransactionFile THEN [directory EXCEPT !.state = "none"]
    ELSE [directory EXCEPT !.held = @ \ {e}]
Entries(t) ==
    staging[t].held \cup (IF staging[t].state = "none" THEN {} ELSE {TransactionFile})

\* An error ends the operation, but the collector first moves back what it moved.
Raise(p) ==
    IF op[p].then = "done" THEN Goes(p, "rollback") /\ UNCHANGED op
    ELSE EndsNow(p)

Remaining(p) == IF staging[op[p].tx] = None THEN {} ELSE Entries(op[p].tx)

ListEntries(p) ==
    /\ pc[p] = "list"
    /\ IF staging[op[p].tx] = None THEN Raise(p)
       ELSE op' = [op EXCEPT ![p].todo = Remaining(p)] /\ Goes(p, "remove")
    /\ UNCHANGED <<disk, started, crashes>>

RemoveEntry(p) ==
    /\ pc[p] = "remove"
    /\ \E e \in op[p].todo :
         IF e \notin Remaining(p) THEN Raise(p) /\ UNCHANGED staging
         ELSE /\ staging' = [staging EXCEPT ![op[p].tx] = Without(@, e)]
              /\ op' = [op EXCEPT ![p].todo = @ \ {e}]
              /\ UNCHANGED pc
    /\ UNCHANGED <<stored, damaged, illegible, altered, old, quarantine, pins, started, crashes>>

RemoveDirectory(p) ==
    /\ pc[p] = "remove"
    /\ op[p].todo = {}
    /\ IF staging[op[p].tx] = None \/ Remaining(p) # {} THEN Raise(p) /\ UNCHANGED staging
       ELSE /\ staging' = [staging EXCEPT ![op[p].tx] = None]
            /\ IF op[p].then = "recover"
               THEN /\ op' = [op EXCEPT ![p].left = @ \ {op[p].tx}, ![p].tx = 0]
                    /\ Goes(p, "recover")
               ELSE EndsNow(p)
    /\ UNCHANGED <<stored, damaged, illegible, altered, old, quarantine, pins, started, crashes>>

-----------------------------------------------------------------------------
(* _recover_gc_transactions: every process that opens the store undoes the *)
(* collections it finds, or completes the ones that were committed, also   *)
(* when the collector is still at work.                                    *)

Open(p) ==
    /\ pc[p] = "open"
    /\ LET found == {t \in Transactions : staging[t] # None}
       IN  /\ op' = [op EXCEPT ![p].left = found]
           /\ Goes(p, IF found = {} THEN op[p].next ELSE "recover")
    /\ UNCHANGED <<disk, started, crashes>>

\* Mutant: a collection that was interrupted is completed.
RecoverForward(p) ==
    /\ pc[p] = "recover"
    /\ IF op[p].left = {} THEN Goes(p, op[p].next) /\ op' = [op EXCEPT ![p].then = "raise"]
       ELSE \E t \in op[p].left :
              IF staging[t] = None \/ staging[t].state = "none" THEN EndsNow(p)
              ELSE /\ op' = [op EXCEPT ![p].tx = t, ![p].then = "recover", ![p].todo = {}]
                   /\ Goes(p, "restore")
    /\ UNCHANGED <<disk, started, crashes>>

\* A directory without a transaction record is an error.
Recover(p) ==
    /\ pc[p] = "recover"
    /\ IF op[p].left = {} THEN Goes(p, op[p].next) /\ op' = [op EXCEPT ![p].then = "raise"]
       ELSE \E t \in op[p].left :
              IF staging[t] = None \/ staging[t].state = "none" THEN EndsNow(p)
              ELSE /\ op' = [op EXCEPT
                         ![p].tx = t, ![p].then = "recover",
                         ![p].todo = IF staging[t].state = "moving" THEN staging[t].ids ELSE {}]
                   /\ Goes(p, "restore")
    /\ UNCHANGED <<disk, started, crashes>>

MoveBack(t, a) ==
    /\ stored' = stored \cup {a}
    /\ old' = old \cup {a}
    /\ quarantine' = quarantine \ {a}
    /\ staging' = [staging EXCEPT ![t].held = @ \ {a}]
    /\ UNCHANGED <<damaged, illegible, altered, pins>>
IsHeld(t, a) == staging[t] # None /\ a \in staging[t].held

\* Each artifact is moved back, or must be in place.
Restore(p) ==
    /\ pc[p] = "restore"
    /\ \/ \E a \in op[p].todo :
             IF IsHeld(op[p].tx, a)
             THEN IF a \in stored THEN EndsNow(p) /\ UNCHANGED disk
                  ELSE /\ MoveBack(op[p].tx, a)
                       /\ op' = [op EXCEPT ![p].todo = @ \ {a}]
                       /\ UNCHANGED pc
             ELSE /\ IF IsValid(a) THEN op' = [op EXCEPT ![p].todo = @ \ {a}] /\ UNCHANGED pc
                     ELSE EndsNow(p)
                  /\ UNCHANGED disk
       \/ /\ op[p].todo = {}
          /\ Goes(p, "list")
          /\ UNCHANGED <<disk, op>>
    /\ UNCHANGED <<started, crashes>>

-----------------------------------------------------------------------------
(* plan_garbage_collection and collect_garbage *)

Roots == {pins[i] : i \in Inputs} \ {None}
Reachable == ClosureOf(Roots)
\* Mutant: the artifacts a pinned one was made from are not kept.
DisposableBehindPins == (old \ damaged) \ Roots
\* What is damaged is left to resolve.
Disposable == (old \ damaged) \ Reachable
CurrentPlan == [reachable |-> Reachable, candidates |-> Disposable]
PlanFails == \E a \in Reachable : ~IsValid(a)

Plan(p) ==
    /\ pc[p] = "plan"
    /\ IF PlanFails THEN EndsNow(p)
       ELSE op' = [op EXCEPT ![p].plan = CurrentPlan] /\ Goes(p, "collect")
    /\ UNCHANGED <<disk, started, crashes>>

\* The plan is made again and must be the same.
Collect(p) ==
    /\ pc[p] = "collect"
    /\ IF PlanFails \/ CurrentPlan # op[p].plan \/ op[p].plan.candidates = {}
       THEN EndsNow(p) /\ UNCHANGED staging
       ELSE LET t == op[p].number
            IN  /\ staging' = [staging EXCEPT ![t] =
                       [state |-> "none", ids |-> op[p].plan.candidates, held |-> {}]]
                /\ op' = [op EXCEPT ![p].tx = t, ![p].todo = op[p].plan.candidates, ![p].moved = {},
                                    ![p].then = "done", ![p].plan = None]
                /\ Goes(p, "transaction")
    /\ UNCHANGED <<stored, damaged, illegible, altered, old, quarantine, pins, started, crashes>>

WriteTransaction(p) ==
    /\ pc[p] = "transaction"
    /\ staging' = [staging EXCEPT ![op[p].tx].state = "moving"]
    /\ Goes(p, "move")
    /\ UNCHANGED <<stored, damaged, illegible, altered, old, quarantine, pins, op, started, crashes>>

Move(p) ==
    /\ pc[p] = "move"
    /\ \E a \in op[p].todo :
         IF a \notin stored \/ staging[op[p].tx] = None
         THEN Raise(p) /\ UNCHANGED disk
         ELSE /\ stored' = stored \ {a}
              /\ old' = old \ {a}
              /\ staging' = [staging EXCEPT ![op[p].tx].held = @ \cup {a}]
              /\ op' = [op EXCEPT ![p].todo = @ \ {a}, ![p].moved = @ \cup {a}]
              /\ UNCHANGED <<damaged, illegible, altered, quarantine, pins, pc>>
    /\ UNCHANGED <<started, crashes>>

CommitCollection(p) ==
    /\ pc[p] = "move"
    /\ op[p].todo = {}
    /\ IF staging[op[p].tx] = None THEN Raise(p) /\ UNCHANGED staging
       ELSE /\ staging' = [staging EXCEPT ![op[p].tx].state = "committed"]
            /\ Goes(p, "list")
            /\ UNCHANGED op
    /\ UNCHANGED <<stored, damaged, illegible, altered, old, quarantine, pins, started, crashes>>

\* What was moved is moved back unless it is in place again.
Rollback(p) ==
    /\ pc[p] = "rollback"
    /\ \/ \E a \in op[p].moved :
             /\ IF IsHeld(op[p].tx, a) /\ a \notin stored THEN MoveBack(op[p].tx, a)
                ELSE UNCHANGED disk
             /\ op' = [op EXCEPT ![p].moved = @ \ {a}]
             /\ UNCHANGED pc
       \/ /\ op[p].moved = {}
          /\ op' = [op EXCEPT ![p].then = "raise"]
          /\ Goes(p, "list")
          /\ UNCHANGED disk
    /\ UNCHANGED <<started, crashes>>

\* All steps but Recover and Collect, which RetainedCompilation observes.
Store(p) ==
    \/ Open(p) \/ Restore(p) \/ Reject(p)
    \/ Plan(p) \/ WriteTransaction(p) \/ Move(p) \/ CommitCollection(p) \/ Rollback(p)
    \/ ListEntries(p) \/ RemoveEntry(p) \/ RemoveDirectory(p)

Kill(p) ==
    /\ pc[p] # "idle"
    /\ crashes < MaxCrashes
    /\ crashes' = crashes + 1
    /\ EndsNow(p)
    /\ UNCHANGED <<disk, started>>
=============================================================================
