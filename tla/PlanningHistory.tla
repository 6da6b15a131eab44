--------------------------- MODULE PlanningHistory ---------------------------
(***************************************************************************)
(* The branch files of src/satn/planning_history.py (HistoryStore), used   *)
(* by several processes at once.  Records (events, checkpoints) are named  *)
(* by a digest of their content and never change; a branch is a record of  *)
(* where it starts and a head that is replaced under the lock of the       *)
(* branch.  Every write is a rename that is synced, so a step of this      *)
(* module is one such write, and a process can be killed between any two.  *)
(*                                                                         *)
(* An event contains the digest of its parent, hence of all events before  *)
(* it: its identity is the sequence of contents from the first event of    *)
(* the history to it.  This module names an event by that sequence, and    *)
(* "no event" by the empty one.                                            *)
(***************************************************************************)
EXTENDS Naturals, SequencesExt, FiniteSetsExt

CONSTANTS
    Processes,     \* processes that use the history
    Branches,      \* names a branch can have
    Main,          \* a branch that exists from the start
    Candidates,    \* what a decision can select
    MaxDecisions,  \* a state that holds so many decisions is a finished plan
    MaxOperations, \* bound: operations started
    MaxCrashes,    \* bound: processes killed
    None           \* no lineage, no holder, no operation, no state

ASSUME HistoryConstants ==
    /\ Main \in Branches /\ Candidates # {}
    /\ MaxDecisions \in Nat \ {0} /\ MaxOperations \in Nat /\ MaxCrashes \in Nat
    /\ None \notin Processes \cup Branches \cup Candidates

VARIABLES
    events,       \* event records in the store
    checkpoints,  \* events whose checkpoint record is in the store
    lineage,      \* lineage[b]: the branch record, None if there is no file
    head,         \* head[b]: the head record, None if there is no file
    lock,         \* lock[b]: the process that holds the lock of b, or None
    pc,           \* the step each process is at
    op,           \* the operation of each process: its local variables
    started,      \* operations started so far
    crashes       \* processes killed so far

store == <<events, checkpoints, lineage, head>>
vars == <<store, lock, pc, op, started, crashes>>

\* A planning state is known by the decisions that led to it.
State == UNION {[1..n -> Candidates] : n \in 0..MaxDecisions}
\* A diagnostic stands for every event that says why a run ends: an operation
\* that was refused, a provider that failed, an attempt that was interrupted.
Kinds == {"initialization", "request", "attempt", "diagnostic", "decision"}
\* What an event records. Only an initialization and a decision have an
\* output: the others are not state transitions.
Content == [branch : Branches, kind : Kinds, input : State \cup {None},
            output : State \cup {None}]
Heads == [event : Seq(Content), revision : Nat]
\* A branch record: the event before the one that was decided again, and the
\* state that was there then.
Lineages == [parent : Branches \cup {None}, checkpoint : Seq(Content),
             state : State \cup {None}, event : Seq(Content)]
\* The local variables of an operation. "next" is the step that follows the
\* commit or the creation it is at.
Operations == [branch : Branches, base : Lineages, state : State \cup {None},
               content : Content \cup {None}, expected : Seq(Content),
               next : {"idle", "resume", "decide", "apply", "dispatch"}, explicit : Nat]

ASSUME NoneIsNothing ==
    None \notin State /\ None \notin Content /\ None \notin Heads
    /\ None \notin Lineages /\ None \notin Operations

\* What create_branch is asked for when no source is named.
NoLineage == [parent |-> None, checkpoint |-> <<>>, state |-> None, event |-> <<>>]

-----------------------------------------------------------------------------
(* Reading *)

\* _current_state_ref: the output of the newest event that has one, or else
\* the state the branch starts from.
CurrentState(base, e) ==
    LET outputs == {i \in DOMAIN e : e[i].output # None}
    IN  IF outputs = {} THEN base.state ELSE e[Max(outputs)].output

\* replay(): apply what was recorded after the start of the branch to the
\* state it starts from, and check that every transition begins where the one
\* before it ended. "state" is what replay returns, "agrees" that it did not
\* raise.
Replay(b) ==
    LET e == head[b].event
        base == lineage[b]
        from == IF base.state # None THEN base.state
                ELSE IF base.event # <<>> THEN Last(base.event).output ELSE None
        moves == {i \in DOMAIN e : i > Len(base.event) /\ e[i].output # None}
        After(done) == IF done = {} THEN from ELSE e[Max(done)].output
        Before(i) == After({j \in moves : j < i})
    IN  [agrees |-> \A i \in moves :
                        e[i].input # None /\ Before(i) # None => e[i].input = Before(i),
         state  |-> IF e = <<>> THEN None ELSE After(moves)]

\* The state a fork of event e starts from, and its place in the history.
CheckpointOf(e) == [parent |-> Last(e).branch, checkpoint |-> e,
                    state |-> Last(e).input, event |-> Front(e)]

-----------------------------------------------------------------------------
(* Committing one event: op[p] holds the branch, the event to be recorded  *)
(* and the head it is meant to follow.                                     *)

Operation(b) == [branch |-> b, base |-> NoLineage, state |-> None, content |-> None,
                 expected |-> <<>>, next |-> "idle", explicit |-> 0]

EndsNow(p) == pc' = [pc EXCEPT ![p] = "idle"] /\ op' = [op EXCEPT ![p] = None]
Goes(p, step) == pc' = [pc EXCEPT ![p] = step]
Release(p) == lock' = [b \in Branches |-> IF lock[b] = p THEN None ELSE lock[b]]

\* Mutant: the lock is not taken.
NoLock(p) ==
    /\ pc[p] = "lock"
    /\ Goes(p, "event")
    /\ UNCHANGED <<store, lock, op, started, crashes>>

LockBranch(p) ==
    /\ pc[p] = "lock"
    /\ lock[op[p].branch] = None
    /\ lock' = [lock EXCEPT ![op[p].branch] = p]
    /\ Goes(p, "event")
    /\ UNCHANGED <<store, op, started, crashes>>

\* _prepare_event: the head is still the expected one, and an event that
\* transforms the state, or names one, names the current one.
IsStale(p) == head[op[p].branch].event # op[p].expected
\* Mutant: the state an event was made from is not compared.
AnyInput(p) == TRUE
InputIsCurrent(p) ==
    LET current == CurrentState(lineage[op[p].branch], head[op[p].branch].event)
        content == op[p].content
    IN  current # None /\ (content.output # None \/ content.input # None)
            => content.input = current

NewEvent(p) == Append(op[p].expected, op[p].content)

\* Mutant: a refused event leaves the branch locked.
PutEventKeepingLock(p) ==
    /\ pc[p] = "event"
    /\ IF ~IsStale(p) /\ InputIsCurrent(p)
       THEN /\ events' = events \cup {NewEvent(p)}
            /\ Goes(p, "checkpoint")
            /\ UNCHANGED op
       ELSE EndsNow(p) /\ UNCHANGED events
    /\ UNCHANGED <<checkpoints, lineage, head, lock, started, crashes>>

PutEvent(p) ==
    /\ pc[p] = "event"
    /\ IF ~IsStale(p) /\ InputIsCurrent(p)
       THEN /\ events' = events \cup {NewEvent(p)}
            /\ Goes(p, "checkpoint")
            /\ UNCHANGED <<op, lock>>
       ELSE EndsNow(p) /\ Release(p) /\ UNCHANGED events
    /\ UNCHANGED <<checkpoints, lineage, head, started, crashes>>

PutCheckpoint(p) ==
    /\ pc[p] = "checkpoint"
    /\ checkpoints' = checkpoints \cup {NewEvent(p)}
    /\ Goes(p, "head")
    /\ UNCHANGED <<events, lineage, head, lock, op, started, crashes>>

\* The head is replaced, the lock released, and the caller goes on.
WriteHead(p) ==
    /\ pc[p] = "head"
    /\ head' = [head EXCEPT ![op[p].branch] =
                   [event |-> NewEvent(p), revision |-> @.revision + 1]]
    /\ Release(p)
    /\ IF op[p].next = "idle" THEN EndsNow(p)
       ELSE /\ Goes(p, op[p].next)
            /\ op' = [op EXCEPT ![p].state =
                         IF op[p].content.output = None THEN @ ELSE op[p].content.output]
    /\ UNCHANGED <<events, checkpoints, lineage, started, crashes>>

Commit(p) ==
    LockBranch(p) \/ PutEvent(p) \/ PutCheckpoint(p) \/ WriteHead(p)

-----------------------------------------------------------------------------
(* Making branches: create_branch and fork share the steps "create" on.    *)

\* checkpoint(): the record is written again for any event of the store.
PutCheckpointAgain(p, e) ==
    /\ pc[p] = "idle"
    /\ e \in events \ checkpoints
    /\ checkpoints' = checkpoints \cup {e}
    /\ UNCHANGED <<events, lineage, head, lock, pc, op, started, crashes>>

BeginFork(p, e, b) ==
    /\ pc[p] = "idle" /\ started < MaxOperations
    /\ e \in checkpoints
    /\ op' = [op EXCEPT ![p] = [Operation(b) EXCEPT !.base = CheckpointOf(e)]]
    /\ Goes(p, "parent")
    /\ started' = started + 1
    /\ UNCHANGED <<store, lock, crashes>>

\* fork: the lock of the parent is held while that of the child is taken.
LockParent(p) ==
    /\ pc[p] = "parent"
    /\ lock[op[p].base.parent] = None
    /\ lock' = [lock EXCEPT ![op[p].base.parent] = p]
    /\ Goes(p, "create")
    /\ UNCHANGED <<store, op, started, crashes>>

LockChild(p) ==
    /\ pc[p] = "create"
    /\ lock[op[p].branch] = None
    /\ lock' = [lock EXCEPT ![op[p].branch] = p]
    /\ Goes(p, "lineage")
    /\ UNCHANGED <<store, op, started, crashes>>

\* _create_branch_unlocked: a branch that exists is returned if it starts at
\* the same place, and is an error if it does not. Its head is not looked at.
WriteLineage(p) ==
    /\ pc[p] = "lineage"
    /\ LET b == op[p].branch
       IN  IF lineage[b] = None
           THEN /\ lineage' = [lineage EXCEPT ![b] = op[p].base]
                /\ Goes(p, "firsthead")
                /\ UNCHANGED <<op, lock>>
           ELSE /\ IF lineage[b] = op[p].base /\ op[p].next # "idle"
                   THEN Goes(p, op[p].next) /\ UNCHANGED op
                   ELSE EndsNow(p)
                /\ Release(p)
                /\ UNCHANGED lineage
    /\ UNCHANGED <<events, checkpoints, head, started, crashes>>

\* Mutant: a fork counts its revisions from zero.
WriteFirstHeadAtZero(p) ==
    /\ pc[p] = "firsthead"
    /\ head' = [head EXCEPT ![op[p].branch] =
                   [event |-> op[p].base.event, revision |-> 0]]
    /\ Release(p)
    /\ IF op[p].next = "idle" THEN EndsNow(p) ELSE Goes(p, op[p].next) /\ UNCHANGED op
    /\ UNCHANGED <<events, checkpoints, lineage, started, crashes>>

WriteFirstHead(p) ==
    /\ pc[p] = "firsthead"
    /\ head' = [head EXCEPT ![op[p].branch] =
                   [event |-> op[p].base.event, revision |-> Len(op[p].base.event)]]
    /\ Release(p)
    /\ IF op[p].next = "idle" THEN EndsNow(p) ELSE Goes(p, op[p].next) /\ UNCHANGED op
    /\ UNCHANGED <<events, checkpoints, lineage, started, crashes>>

Create(p) == LockParent(p) \/ LockChild(p) \/ WriteLineage(p) \/ WriteFirstHead(p)

\* A process is killed: its locks are released by the system, its files stay.
Kill(p) ==
    /\ pc[p] # "idle"
    /\ crashes < MaxCrashes
    /\ crashes' = crashes + 1
    /\ EndsNow(p)
    /\ Release(p)
    /\ UNCHANGED <<store, started>>

=============================================================================
