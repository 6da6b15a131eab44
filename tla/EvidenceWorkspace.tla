-------------------------- MODULE EvidenceWorkspace --------------------------
(***************************************************************************)
(* The commands of the Local Evidence Store that change it                 *)
(* (src/satn/_evidence_operations.py: init, refresh, refresh --rebuild,    *)
(* delete; src/satn/local_evidence_store.py: the database), run by several *)
(* processes at once.  They meet at a lock file, which is a file like the  *)
(* others: it is made by the first writer, moved away by delete, and       *)
(* removed by an init that fails.  A lock is held on a file, not on a name.*)
(* So files are numbered here: an operation makes files that have its      *)
(* number, and the paths of the store, of the rebuilt store and of the     *)
(* lock name one of them or none.  Numbers are not used again.             *)
(*                                                                         *)
(* The database is DuckDB: a transaction is committed or not at all, and a *)
(* connection that writes excludes every other one.  The commands that     *)
(* only read (status, query, a dry run) change nothing and are left out.   *)
(***************************************************************************)
EXTENDS Naturals, FiniteSets

CONSTANTS
    Processes,     \* processes that use the workspace
    Keys,          \* partitions: a source layer and a cell
    Exports,       \* source exports a partition can be read from
    MaxOperations, \* bound: operations started
    MaxCrashes,    \* bound: processes killed
    None           \* no file, no holder, no operation, no export

ASSUME WorkspaceConstants == MaxOperations \in Nat /\ MaxCrashes \in Nat

VARIABLES
    databases,  \* the content of each database file
    store,      \* the file at the path of the store, or None
    sibling,    \* the file at the path where a store is rebuilt, or None
    lockfile,   \* the file at the path of the lock, or None
    holder,     \* holder[f]: the process that holds the lock of file f, or None
    pc,         \* the step each process is at
    op,         \* the operation of each process: its local variables
    started,    \* operations started so far
    crashes,    \* processes killed so far
    removed,    \* for the properties only: the stores an init that failed
                \* removed, with the number of that init
    strayed     \* for the properties only: a process has locked a file that
                \* is not the lock file any more

files == <<databases, store, sibling, lockfile, holder>>
vars == <<files, pc, op, started, crashes, removed, strayed>>

Numbers == 0..MaxOperations      \* 0: the files there are at the start
\* The lock file that opening it for an append makes, if there is none.
Reopened(n) == MaxOperations + 1 + n
LockFiles == Numbers \cup {Reopened(n) : n \in Numbers}

\* What partitions are read from. A coverage without any is what a store
\* without a current state has.
Coverage == [Keys -> Exports \cup {None}]
Nothing == [k \in Keys |-> None]
\* A file: whether its schema is committed, its current coverage, and every
\* coverage that was current.
Empty(committed) == [schema |-> committed, current |-> Nothing, states |-> {Nothing}]
Registered(file, next) == [file EXCEPT !.current = next, !.states = @ \cup {next}]

\* The local variables of a command.
Operations == [number : 1..MaxOperations, kind : {"init", "refresh", "rebuild", "delete"},
               first : {"create", "read", "source", "check"}, lock : LockFiles \cup {None},
               made : BOOLEAN, file : Numbers \cup {None}, keys : SUBSET Keys,
               export : Exports \cup {None}, replace : BOOLEAN,
               expect : Coverage, next : Coverage]

ASSUME NoneIsNothing == None \notin Processes \cup Exports \cup LockFiles /\ None \notin Operations

Goes(p, step) == pc' = [pc EXCEPT ![p] = step]
Ends(p) == Goes(p, "idle") /\ op' = [op EXCEPT ![p] = None]
Release(p) == holder' = [f \in LockFiles |-> IF holder[f] = p THEN None ELSE holder[f]]

\* DuckDB: the connections that are open for writing are those of a schema or
\* a refresh that is not committed yet.
Connected(f) == \E p \in Processes : pc[p] \in {"schema", "commit"} /\ op[p].file = f
CanOpen == store # None /\ databases[store].schema /\ ~Connected(store)
CurrentAt(f) == databases[f].current

\* The end of the locked part of a command, and an error in it. After an error
\* an init goes on to remove what it has made.
Finish(p) == Ends(p) /\ Release(p)
Fail(p) ==
    /\ Release(p)
    /\ IF op[p].kind = "init" THEN Goes(p, "cleanup") /\ UNCHANGED op ELSE Ends(p)

-----------------------------------------------------------------------------
(* Commands begin. What a user tells a command (expect) is the state the    *)
(* store has when the command is given.                                     *)

Operation(kind, first) ==
    [number |-> started + 1, kind |-> kind, first |-> first, lock |-> None, made |-> FALSE,
     file |-> None, keys |-> {}, export |-> None, replace |-> FALSE, expect |-> Nothing,
     next |-> Nothing]

Begin(p, operation) ==
    /\ pc[p] = "idle" /\ started < MaxOperations
    /\ op' = [op EXCEPT ![p] = operation]
    /\ Goes(p, "openlock")
    /\ started' = started + 1
    /\ UNCHANGED <<files, crashes, removed, strayed>>

\* An init that finds a store only reads it.
BeginInit(p) == store = None /\ Begin(p, Operation("init", "create"))

BeginRefresh(p) ==
    \E keys \in SUBSET Keys \ {{}}, e \in Exports, replace \in BOOLEAN :
        /\ replace => CanOpen
        /\ Begin(p, [Operation("refresh", "read") EXCEPT
              !.keys = keys, !.export = e, !.replace = replace,
              !.expect = IF replace THEN CurrentAt(store) ELSE Nothing])

BeginRebuild(p) == Begin(p, Operation("rebuild", "source"))

BeginDelete(p) ==
    /\ CanOpen
    /\ CurrentAt(store) # Nothing
    /\ Begin(p, [Operation("delete", "check") EXCEPT !.expect = CurrentAt(store)])

-----------------------------------------------------------------------------
(* _writer_lock: the file is made, or opened if there is one, and then      *)
(* locked without waiting.                                                  *)

OpenLock(p) ==
    /\ pc[p] = "openlock"
    /\ LET makes == lockfile = None
           file == IF makes THEN op[p].number ELSE lockfile
       IN  /\ lockfile' = file
           /\ op' = [op EXCEPT ![p].lock = file, ![p].made = makes]
    /\ Goes(p, "lock")
    /\ UNCHANGED <<databases, store, sibling, holder, started, crashes, removed, strayed>>

\* Mutant: the lock is not taken.
LockNothing(p) ==
    /\ pc[p] = "lock"
    /\ Goes(p, op[p].first)
    /\ UNCHANGED <<files, op, started, crashes, removed, strayed>>

Lock(p) ==
    /\ pc[p] = "lock"
    /\ IF holder[op[p].lock] = None
       THEN /\ holder' = [holder EXCEPT ![op[p].lock] = p]
            /\ Goes(p, op[p].first)
            /\ strayed' = (strayed \/ op[p].lock # lockfile)
            /\ UNCHANGED op
       ELSE Ends(p) /\ UNCHANGED <<holder, strayed>>      \* the writer lock is busy
    /\ UNCHANGED <<databases, store, sibling, lockfile, started, crashes, removed>>

-----------------------------------------------------------------------------
(* init: a database file is made at the path, then its schema committed,    *)
(* then all is verified. Each of these can fail, for reasons of the system. *)

Create(p) ==
    /\ pc[p] = "create"
    /\ \/ /\ store = None
          /\ store' = op[p].number
          /\ databases' = [databases EXCEPT ![op[p].number] = Empty(FALSE)]
          /\ op' = [op EXCEPT ![p].file = op[p].number]
          /\ Goes(p, "schema")
          /\ UNCHANGED holder
       \/ /\ CanOpen                             \* another init has made it
          /\ Goes(p, "verify")
          /\ UNCHANGED <<store, databases, op, holder>>
       \/ Fail(p) /\ UNCHANGED <<store, databases>>
    /\ UNCHANGED <<sibling, lockfile, started, crashes, removed, strayed>>

CreateSchema(p) ==
    /\ pc[p] = "schema"
    /\ \/ /\ databases' = [databases EXCEPT ![op[p].file] = Empty(TRUE)]
          /\ Goes(p, "verify")
          /\ UNCHANGED <<op, holder>>
       \/ Fail(p) /\ UNCHANGED databases
    /\ UNCHANGED <<store, sibling, lockfile, started, crashes, removed, strayed>>

\* Of a coverage that is there, the retained exports can have changed.
Verify(p) ==
    /\ pc[p] = "verify"
    /\ \/ (store = None \/ CanOpen) /\ Release(p) /\ Goes(p, "report") /\ UNCHANGED op
       \/ store # None /\ (~CanOpen \/ CurrentAt(store) # Nothing)
          /\ Fail(p)
    /\ UNCHANGED <<databases, store, sibling, lockfile, started, crashes, removed, strayed>>

\* The runtime is looked at once more, without the lock; an error there too
\* leads to the removal of what is now a store that others may use.
Report(p) ==
    /\ pc[p] = "report"
    /\ Ends(p) \/ (Goes(p, "cleanup") /\ UNCHANGED op)
    /\ UNCHANGED <<files, started, crashes, removed, strayed>>

\* _cleanup_failed_initialise, by an init that had the lock: only while the
\* lock file is still the one it had, and nobody holds it. Opening the file
\* makes it if it is gone.
Cleanup(p) ==
    /\ pc[p] = "cleanup"
    /\ LET file == IF lockfile = None THEN Reopened(op[p].number) ELSE lockfile
       IN  /\ lockfile' = file
           /\ IF file = op[p].lock /\ holder[file] = None
              THEN /\ holder' = [holder EXCEPT ![file] = p]
                   /\ Goes(p, "removestore")
                   /\ UNCHANGED op
              ELSE Ends(p) /\ UNCHANGED holder
    /\ UNCHANGED <<databases, store, sibling, started, crashes, removed, strayed>>

RemoveStore(p) ==
    /\ pc[p] = "removestore"
    /\ store' = None
    /\ removed' = removed \cup (IF store = None THEN {} ELSE {<<op[p].number, store>>})
    /\ Goes(p, "removelock")
    /\ UNCHANGED <<databases, sibling, lockfile, holder, op, started, crashes, strayed>>

\* Mutant: the lock is not released at the end of the removal.
RemoveLockHeld(p) ==
    /\ pc[p] = "removelock"
    /\ lockfile' = IF op[p].made /\ lockfile = op[p].lock THEN None ELSE lockfile
    /\ Ends(p)
    /\ UNCHANGED <<databases, store, sibling, holder, started, crashes, removed, strayed>>

RemoveLock(p) ==
    /\ pc[p] = "removelock"
    /\ lockfile' = IF op[p].made /\ lockfile = op[p].lock THEN None ELSE lockfile
    /\ Finish(p)
    /\ UNCHANGED <<databases, store, sibling, started, crashes, removed, strayed>>

-----------------------------------------------------------------------------
(* refresh: one transaction from the current coverage to the next *)

Replaced(p, current) == {k \in op[p].keys : current[k] \notin {None, op[p].export}}

Refuses(p, current) ==
    \/ op[p].replace /\ current # op[p].expect
    \/ ~op[p].replace /\ Replaced(p, current) # {}

Refreshed(p, current) == [k \in Keys |-> IF k \in op[p].keys THEN op[p].export ELSE current[k]]

\* Reading the exports can fail too.
Read(p) ==
    /\ pc[p] = "read"
    /\ \/ /\ CanOpen
          /\ ~Refuses(p, CurrentAt(store))
          /\ op' = [op EXCEPT ![p].file = store, ![p].next = Refreshed(p, CurrentAt(store))]
          /\ Goes(p, "commit")
          /\ UNCHANGED holder
       \/ Fail(p)
    /\ UNCHANGED <<databases, store, sibling, lockfile, started, crashes, removed, strayed>>

\* The file the connection is open on may not be at the path any more.
Commit(p) ==
    /\ pc[p] = "commit"
    /\ \/ databases' = [databases EXCEPT ![op[p].file] = Registered(@, op[p].next)]
       \/ UNCHANGED databases                   \* an error: the transaction is rolled back
    /\ Finish(p)
    /\ UNCHANGED <<store, sibling, lockfile, started, crashes, removed, strayed>>

-----------------------------------------------------------------------------
(* refresh --rebuild: every state is read from the store, made again in a   *)
(* file beside it and checked, and that file takes the place of the store.  *)

ReadSource(p) ==
    /\ pc[p] = "source"
    /\ \/ /\ CanOpen
          /\ CurrentAt(store) # Nothing
          /\ op' = [op EXCEPT ![p].file = store]
          /\ databases' = [databases EXCEPT ![op[p].number] = databases[store]]
          /\ Goes(p, "sibling")
          /\ UNCHANGED holder
       \/ Fail(p) /\ UNCHANGED databases
    /\ UNCHANGED <<store, sibling, lockfile, started, crashes, removed, strayed>>

BuildSibling(p) ==
    /\ pc[p] = "sibling"
    /\ sibling' = op[p].number
    /\ Goes(p, "replace")
    /\ UNCHANGED <<databases, store, lockfile, holder, op, started, crashes, removed, strayed>>

\* Mutant: only the current state is made again.
ReplaceByCurrent(p) ==
    /\ pc[p] = "replace"
    /\ store' = sibling
    /\ sibling' = None
    /\ databases' = [databases EXCEPT ![sibling].states = {databases[sibling].current}]
    /\ Finish(p)
    /\ UNCHANGED <<lockfile, started, crashes, removed, strayed>>

\* A check of the sibling can fail; it is removed then, as is one that a
\* process left there that was killed.
ReplaceStore(p) ==
    /\ pc[p] = "replace"
    /\ \/ sibling # None /\ store' = sibling
       \/ UNCHANGED store
    /\ sibling' = None
    /\ Finish(p)
    /\ UNCHANGED <<databases, lockfile, started, crashes, removed, strayed>>

-----------------------------------------------------------------------------
(* delete: the store and then the lock file are moved to the trash. *)

Check(p) ==
    /\ pc[p] = "check"
    /\ \/ CanOpen /\ CurrentAt(store) = op[p].expect /\ Goes(p, "movestore")
          /\ UNCHANGED <<op, holder>>
       \/ Fail(p)
    /\ UNCHANGED <<databases, store, sibling, lockfile, started, crashes, removed, strayed>>

MoveStore(p) ==
    /\ pc[p] = "movestore"
    /\ store' = None
    /\ IF store = None THEN Fail(p) ELSE Goes(p, "movelock") /\ UNCHANGED <<op, holder>>
    /\ UNCHANGED <<databases, sibling, lockfile, started, crashes, removed, strayed>>

MoveLock(p) ==
    /\ pc[p] = "movelock"
    /\ lockfile' = None
    /\ Finish(p)
    /\ UNCHANGED <<databases, store, sibling, started, crashes, removed, strayed>>

-----------------------------------------------------------------------------
\* A process is killed: the system releases its lock, the database undoes its
\* transaction, its files stay.
Kill(p) ==
    /\ pc[p] # "idle"
    /\ crashes < MaxCrashes
    /\ crashes' = crashes + 1
    /\ Finish(p)
    /\ UNCHANGED <<databases, store, sibling, lockfile, started, removed, strayed>>

\* No store yet, or one in which one partition was read, and the lock file
\* that was left by the command that made it.
Init ==
    /\ \E covered \in SUBSET Keys, e \in Exports, exists \in BOOLEAN :
         LET current == [k \in Keys |-> IF k \in covered THEN e ELSE None]
         IN  /\ Cardinality(covered) <= 1
             /\ databases = [f \in Numbers |->
                    IF f = 0 THEN [Empty(TRUE) EXCEPT !.current = current,
                                                      !.states = {Nothing, current}]
                    ELSE Empty(FALSE)]
             /\ store = IF exists THEN 0 ELSE None
             /\ lockfile = store
    /\ sibling = None
    /\ holder = [f \in LockFiles |-> None]
    /\ pc = [p \in Processes |-> "idle"]
    /\ op = [p \in Processes |-> None]
    /\ started = 0 /\ crashes = 0
    /\ removed = {} /\ strayed = FALSE

Step(p) ==
    \/ OpenLock(p) \/ Lock(p)
    \/ Create(p) \/ CreateSchema(p) \/ Verify(p) \/ Report(p)
    \/ Cleanup(p) \/ RemoveStore(p) \/ RemoveLock(p)
    \/ Read(p) \/ Commit(p)
    \/ ReadSource(p) \/ BuildSibling(p) \/ ReplaceStore(p)
    \/ Check(p) \/ MoveStore(p) \/ MoveLock(p)

Next == \E p \in Processes :
    \/ BeginInit(p) \/ BeginRefresh(p) \/ BeginRebuild(p) \/ BeginDelete(p)
    \/ Step(p)
    \/ Kill(p)

Spec == Init /\ [][Next]_vars
-----------------------------------------------------------------------------
(* Properties *)

\* The variables have the types their comments say, and a lock is held only by
\* a process that is at work.
TypeOK ==
    /\ databases \in [Numbers -> [schema : BOOLEAN, current : Coverage,
                                  states : SUBSET Coverage]]
    /\ store \in Numbers \cup {None} /\ sibling \in Numbers \cup {None}
    /\ lockfile \in LockFiles \cup {None}
    /\ holder \in [LockFiles -> Processes \cup {None}]
    /\ \A p \in Processes : (pc[p] = "idle") <=> (op[p] = None)
    /\ \A f \in LockFiles : holder[f] # None => pc[holder[f]] # "idle"
    /\ started \in 0..MaxOperations /\ crashes \in 0..MaxCrashes

HasStore == store # None /\ databases[store].schema
Current == IF HasStore THEN databases[store].current ELSE Nothing
States == IF HasStore THEN databases[store].states ELSE {}

\* Coverage that was registered stays registered while there is a store, and so
\* does every state that was current, also across a rebuild; a partition is
\* read from another export only by a command that named the state it replaced.
\* (A process that opened the lock file before a delete moved it away can lock
\* it afterwards, while others lock the next one: from then on none of this
\* holds.)
Grows ==
    HasStore /\ HasStore' =>
        /\ States \subseteq States'
        /\ \A k \in Keys : Current[k] # None =>
              \/ Current'[k] = Current[k]
              \/ /\ Current'[k] # None
                 /\ \E p \in Processes : pc[p] = "commit" /\ op[p].replace
                                         /\ op[p].expect = Current
CoverageGrows == [][~strayed => Grows]_vars

\* A store with coverage goes away only when a delete moves it that was told
\* the state the store has at that moment, or when a failed init removes it
\* (with the same exception).
Stays ==
    Current # Nothing /\ store' = None =>
        \E p \in Processes :
            \/ pc[p] = "movestore" /\ op[p].expect = Current
            \/ pc[p] = "removestore"
DeletedAsExpected == [][~strayed => Stays]_vars

\* A failed init removes only what a failed init has made: no store that another
\* init has made and committed.
CleanupRemovesOnlyItsOwn == \A r \in removed : r[2] = r[1] \/ ~databases[r[2]].schema
=============================================================================
