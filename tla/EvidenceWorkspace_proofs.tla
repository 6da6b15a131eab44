----------------------- MODULE EvidenceWorkspace_proofs -----------------------
(***************************************************************************)
(* Theorems about EvidenceWorkspace, for any number of processes, commands,*)
(* partitions and exports, and any number of processes that are killed.    *)
(***************************************************************************)
EXTENDS EvidenceWorkspace, TLAPS

-----------------------------------------------------------------------------
(* The inductive invariant *)

\* The steps a process is at while it holds the lock.
Writing == {"create", "schema", "verify", "removestore", "removelock", "read", "commit",
            "source", "sibling", "replace", "check", "movestore", "movelock"}

Steps == {"idle", "openlock", "lock", "report", "cleanup"} \cup Writing

Database == [schema : BOOLEAN, current : Coverage, states : SUBSET Coverage]

\* The files are what their comments say.
FilesInv ==
    /\ databases \in [Numbers -> Database]
    /\ store \in Numbers \cup {None} /\ sibling \in Numbers \cup {None}
    /\ lockfile \in LockFiles \cup {None}
    /\ started \in 0..MaxOperations /\ crashes \in 0..MaxCrashes

\* Of every process: the step, and the command it is in.
ProcessInv ==
    /\ pc \in [Processes -> Steps]
    /\ op \in [Processes -> Operations \cup {None}]
    /\ \A p \in Processes :
          /\ pc[p] = "idle" <=> op[p] = None
          /\ pc[p] \in {"lock", "report", "cleanup"} \cup Writing => op[p].lock # None
          /\ pc[p] \in {"read", "commit"} => op[p].first = "read"
          /\ pc[p] # "idle" /\ op[p].first = "read" => op[p].export # None

\* A process holds the lock of a file exactly while it is at one of these
\* steps; and unless one strayed, that file is the lock file.
HolderInv ==
    /\ holder \in [LockFiles -> Processes \cup {None}]
    /\ \A p \in Processes, f \in LockFiles :
          holder[f] = p <=> pc[p] \in Writing /\ op[p].lock = f
    /\ ~strayed => \A p \in Processes : pc[p] \in Writing => lockfile = op[p].lock

\* Commands have different numbers, and no file has the number of a command
\* that has yet to make it.
NumberInv ==
    /\ store # None => store <= started
    /\ sibling # None => sibling <= started
    /\ \A p \in Processes : pc[p] # "idle" =>
          /\ op[p].number <= started
          /\ \A q \in Processes : pc[q] # "idle" /\ q # p => op[q].number # op[p].number
    /\ \A p \in Processes : pc[p] \in {"openlock", "lock", "source"} =>
          store # op[p].number /\ sibling # op[p].number

\* What a command that writes knows of the store is still so: nobody else has
\* written since it looked.
Known(p) ==
    /\ pc[p] = "schema" => op[p].file = store /\ store # None /\ ~databases[store].schema
    /\ pc[p] = "commit" =>
          /\ op[p].file = store /\ store # None /\ databases[store].schema
          /\ op[p].export # None
          /\ ~Refuses(p, databases[store].current)
          /\ op[p].next = Refreshed(p, databases[store].current)
    /\ pc[p] \in {"sibling", "replace"} =>
          /\ store # None /\ op[p].number # store
          /\ databases[op[p].number] = databases[store]
    /\ pc[p] = "replace" => sibling = op[p].number
    /\ pc[p] = "movestore" =>
          store # None /\ databases[store].schema /\ databases[store].current = op[p].expect
KnownInv == ~strayed => \A p \in Processes : Known(p)

WorkspaceInv == FilesInv /\ ProcessInv /\ HolderInv /\ NumberInv /\ KnownInv

-----------------------------------------------------------------------------
(* Operators *)

LEMMA Numbered == Numbers \subseteq LockFiles /\ None \notin Numbers /\ 1..MaxOperations \subseteq Numbers
  BY NoneIsNothing, WorkspaceConstants DEF Numbers, LockFiles

LEMMA FieldsOfOperations ==
    ASSUME NEW o \in Operations
    PROVE  /\ o # None
           /\ o.number \in 1..MaxOperations /\ o.number \in Numbers /\ o.number # None
           /\ o.first \in {"create", "read", "source", "check"}
           /\ o.lock \in LockFiles \cup {None} /\ o.file \in Numbers \cup {None}
           /\ o.keys \subseteq Keys /\ o.export \in Exports \cup {None}
           /\ o.replace \in BOOLEAN /\ o.expect \in Coverage /\ o.next \in Coverage
  BY NoneIsNothing, Numbered DEF Operations

LEMMA SetFile ==
    ASSUME NEW o \in Operations, NEW f \in Numbers
    PROVE  /\ [o EXCEPT !.file = f] \in Operations
           /\ [o EXCEPT !.file = f].file = f
           /\ [o EXCEPT !.file = f].number = o.number
           /\ [o EXCEPT !.file = f].first = o.first
           /\ [o EXCEPT !.file = f].lock = o.lock
           /\ [o EXCEPT !.file = f].export = o.export
  BY DEF Operations

LEMMA EmptyContent ==
    Nothing \in Coverage /\ Empty(TRUE) \in Database /\ Empty(FALSE) \in Database
  BY DEF Nothing, Coverage, Empty, Database

LEMMA RegisteredContent ==
    ASSUME NEW d \in Database, NEW c \in Coverage
    PROVE  /\ Registered(d, c) \in Database /\ Registered(d, c).schema = d.schema
           /\ Registered(d, c).current = c /\ Registered(d, c).states = d.states \cup {c}
  BY DEF Database, Registered

LEMMA RefreshedContent ==
    ASSUME ProcessInv, NEW p \in Processes, pc[p] \in {"read", "commit"}, NEW c \in Coverage
    PROVE  Refreshed(p, c) \in Coverage
<1>1. op[p] \in Operations /\ op[p].export # None
  BY DEF ProcessInv
<1> QED
  BY <1>1, FieldsOfOperations DEF Refreshed, Coverage

\* Nobody else is at a step that writes.
LEMMA OthersWait ==
    ASSUME WorkspaceInv, ~strayed, NEW p \in Processes, NEW q \in Processes,
           pc[p] \in Writing, pc[q] \in Writing
    PROVE  p = q
<1>1. op[p].lock = lockfile /\ op[q].lock = lockfile
  BY DEF WorkspaceInv, HolderInv
<1>2. lockfile \in LockFiles
  BY <1>1, NoneIsNothing DEF WorkspaceInv, ProcessInv, FilesInv
<1> QED
  BY <1>1, <1>2 DEF WorkspaceInv, HolderInv

\* What a process knows is of the store, the sibling and its own command.
LEMMA SameKnown ==
    ASSUME NEW q \in Processes, pc'[q] = pc[q], op'[q] = op[q], databases' = databases,
           store' = store, sibling' = sibling, Known(q)
    PROVE  Known(q)'
  BY DEF Known, Refuses, Replaced, Refreshed

-----------------------------------------------------------------------------
(* Kinds of steps *)

\* The locked part of a command ends or fails, or an init has verified what
\* there is, whatever happens to the files:
\* the process knows nothing any more, and neither did the others.
LEMMA LeavesKeeps ==
    ASSUME WorkspaceInv, NEW p \in Processes, pc[p] \in Writing,
           \/ Fail(p) \/ Finish(p)
           \/ Release(p) /\ Goes(p, "report") /\ UNCHANGED op,
           lockfile' = lockfile, strayed' = strayed
    PROVE  /\ ProcessInv' /\ HolderInv' /\ KnownInv'
           /\ pc'[p] \in {"idle", "report", "cleanup"}
           /\ \A q \in Processes \ {p} : pc'[q] = pc[q] /\ op'[q] = op[q]
           /\ pc'[p] # "idle" => op'[p] = op[p]
<1>0. ProcessInv /\ HolderInv /\ op[p] \in Operations
  BY DEF WorkspaceInv, ProcessInv, Writing
<1>1. ProcessInv' /\ HolderInv' /\ pc'[p] \in {"idle", "report", "cleanup"}
      /\ (\A q \in Processes \ {p} : pc'[q] = pc[q] /\ op'[q] = op[q])
      /\ (pc'[p] # "idle" => op'[p] = op[p])
  <2>1. ASSUME NEW step \in {"report", "cleanup"},
               pc' = [pc EXCEPT ![p] = step], op' = op, Release(p)
        PROVE  /\ ProcessInv' /\ HolderInv' /\ pc'[p] \in {"idle", "report", "cleanup"}
               /\ \A q \in Processes \ {p} : pc'[q] = pc[q] /\ op'[q] = op[q]
               /\ pc'[p] # "idle" => op'[p] = op[p]
    <3>1. ProcessInv'
      BY <1>0, <2>1 DEF ProcessInv, Writing, Steps
    <3>2. HolderInv'
      BY <1>0, <2>1, NoneIsNothing DEF ProcessInv, HolderInv, Writing, Steps, Release
    <3> QED
      BY <1>0, <2>1, <3>1, <3>2 DEF ProcessInv, Writing
  <2>2. CASE pc' = [pc EXCEPT ![p] = "idle"] /\ op' = [op EXCEPT ![p] = None] /\ Release(p)
    <3>1. ProcessInv'
      BY <1>0, <2>2 DEF ProcessInv, Writing, Steps
    <3>2. HolderInv'
      BY <1>0, <2>2, NoneIsNothing DEF ProcessInv, HolderInv, Writing, Steps, Release
    <3> QED
      BY <1>0, <2>2, <3>1, <3>2 DEF ProcessInv, Writing
  <2> QED
    BY <2>1, <2>2 DEF Fail, Finish, Ends, Goes
<1>2. KnownInv'
  <2> SUFFICES ASSUME ~strayed', NEW q \in Processes
               PROVE  Known(q)'
    BY DEF KnownInv
  <2>1. pc'[q] \notin Writing
    BY <1>1, OthersWait DEF Writing
  <2> QED
    BY <2>1 DEF Known, Writing
<1> QED
  BY <1>1, <1>2

\* The locked part of a command goes on to another of its steps: only what the
\* process itself knows is left to show.
LEMMA ContinuesKeeps ==
    ASSUME WorkspaceInv, NEW p \in Processes, pc[p] \in Writing, NEW step \in Writing,
           Goes(p, step), op' \in [Processes -> Operations \cup {None}], op'[p] \in Operations,
           op'[p].lock = op[p].lock, op'[p].first = op[p].first, op'[p].export = op[p].export,
           \A q \in Processes \ {p} : op'[q] = op[q],
           step \in {"read", "commit"} => op[p].first = "read",
           holder' = holder, lockfile' = lockfile, strayed' = strayed
    PROVE  /\ ProcessInv' /\ HolderInv' /\ (Known(p)' => KnownInv') /\ pc'[p] = step
           /\ \A q \in Processes \ {p} : pc'[q] = pc[q] /\ op'[q] = op[q]
<1>0. ProcessInv /\ HolderInv /\ op[p] \in Operations
  BY DEF WorkspaceInv, ProcessInv, Writing
<1>1. pc'[p] = step /\ \A q \in Processes \ {p} : pc'[q] = pc[q] /\ op'[q] = op[q]
  BY <1>0 DEF ProcessInv, Goes
<1>2. ProcessInv'
  <2>1. pc' \in [Processes -> Steps]
    BY <1>0 DEF ProcessInv, Steps, Goes
  <2>2. op'[p] # None /\ op[p] # None /\ op[p].lock # None
    BY <1>0, FieldsOfOperations DEF ProcessInv
  <2>3. ASSUME NEW q \in Processes
        PROVE  /\ pc'[q] = "idle" <=> op'[q] = None
               /\ pc'[q] \in {"lock", "report", "cleanup"} \cup Writing => op'[q].lock # None
               /\ pc'[q] \in {"read", "commit"} => op'[q].first = "read"
               /\ pc'[q] # "idle" /\ op'[q].first = "read" => op'[q].export # None
    BY <1>0, <1>1, <2>2 DEF ProcessInv, Writing
  <2> QED
    BY <2>1, <2>3 DEF ProcessInv
<1>3. HolderInv'
  BY <1>0, <1>1 DEF HolderInv
<1>4. ASSUME Known(p)' PROVE KnownInv'
  <2> SUFFICES ASSUME ~strayed', NEW q \in Processes \ {p}
               PROVE  Known(q)'
    BY <1>4 DEF KnownInv
  <2>1. pc'[q] \notin Writing
    BY <1>1, OthersWait
  <2> QED
    BY <2>1 DEF Known, Writing
<1> QED
  BY <1>1, <1>2, <1>3, <1>4

\* Numbers stay different when no file is made.
LEMMA NumbersKeep ==
    ASSUME WorkspaceInv, NEW p \in Processes, pc[p] \in Writing, started' = started,
           \A q \in Processes \ {p} : pc'[q] = pc[q] /\ op'[q] = op[q],
           pc'[p] # "idle" => op'[p].number = op[p].number,
           pc'[p] \notin {"openlock", "lock", "source"},
           store' \in {None, store, op[p].number, sibling},
           sibling' \in {None, sibling, op[p].number}
    PROVE  NumberInv'
<1>0. ProcessInv /\ NumberInv /\ FilesInv /\ op[p] \in Operations
  BY DEF WorkspaceInv, ProcessInv, Writing
<1>1. op[p].number <= started /\ op[p].number # None
  BY <1>0, FieldsOfOperations DEF NumberInv, Writing
<1>2. \A q \in Processes : pc'[q] \in {"openlock", "lock", "source"} =>
        q # p /\ pc[q] = pc'[q] /\ op[q] \in Operations /\ op'[q] = op[q]
  BY <1>0 DEF ProcessInv
<1>3. \A q \in Processes : pc'[q] \in {"openlock", "lock", "source"} =>
        store' # op'[q].number /\ sibling' # op'[q].number
  <2> SUFFICES ASSUME NEW q \in Processes, pc'[q] \in {"openlock", "lock", "source"}
               PROVE  store' # op'[q].number /\ sibling' # op'[q].number
    OBVIOUS
  <2>1. store # op[q].number /\ sibling # op[q].number /\ op[q].number # None
    BY <1>0, <1>2, FieldsOfOperations DEF NumberInv
  <2>2. op[p].number # op[q].number
    BY <1>0, <1>2 DEF NumberInv, Writing
  <2> QED
    BY <1>2, <2>1, <2>2
<1>4. \A q \in Processes : pc'[q] # "idle" =>
          /\ op'[q].number <= started'
          /\ \A r \in Processes : pc'[r] # "idle" /\ r # q => op'[r].number # op'[q].number
  <2>1. \A q \in Processes : pc'[q] # "idle" => pc[q] # "idle" /\ op'[q].number = op[q].number
    BY <1>0 DEF Writing
  <2> QED
    BY <1>0, <2>1 DEF NumberInv
<1> QED
  BY <1>0, <1>1, <1>3, <1>4 DEF NumberInv

-----------------------------------------------------------------------------
(* The actions *)

LEMMA OpenLockKeeps ==
    ASSUME WorkspaceInv, NEW p \in Processes, OpenLock(p)
    PROVE  WorkspaceInv'
<1>0. FilesInv /\ ProcessInv /\ HolderInv /\ NumberInv /\ KnownInv /\ op[p] \in Operations
      /\ pc[p] = "openlock"
  BY DEF WorkspaceInv, ProcessInv, OpenLock
<1> DEFINE makes == lockfile = None
           file == IF makes THEN op[p].number ELSE lockfile
           o == [op[p] EXCEPT !.lock = file, !.made = makes]
<1>1. file \in LockFiles /\ makes \in BOOLEAN
  BY <1>0, FieldsOfOperations, Numbered DEF FilesInv
<1>2. o \in Operations /\ o.lock = file /\ o.number = op[p].number /\ o.first = op[p].first
      /\ o.export = op[p].export
  <2> HIDE DEF file, makes
  <2> QED
    BY <1>0, <1>1 DEF Operations
<1>3. op' = [op EXCEPT ![p] = o] /\ pc' = [pc EXCEPT ![p] = "lock"] /\ lockfile' = file
      /\ UNCHANGED <<databases, store, sibling, holder, started, crashes, removed, strayed>>
  BY DEF OpenLock, Goes
<1> HIDE DEF file, makes, o
<1>4. file # None /\ o # None
  BY <1>1, <1>2, NoneIsNothing
<1>5. FilesInv'
  BY <1>0, <1>1, <1>3 DEF FilesInv
<1>6. ProcessInv'
  BY <1>0, <1>2, <1>3, <1>4 DEF ProcessInv, Writing, Steps
<1>7. HolderInv'
  <2>1. ASSUME NEW q \in Processes, pc'[q] \in Writing
        PROVE  q # p /\ pc[q] = pc'[q] /\ op'[q] = op[q]
    BY <1>0, <1>3, <2>1 DEF ProcessInv, Writing
  <2>2. ASSUME NEW q \in Processes, pc[q] \in Writing
        PROVE  pc[q] = pc'[q] /\ op'[q] = op[q] /\ op[q].lock # None
    BY <1>0, <1>3, <2>2 DEF ProcessInv, Writing
  <2>3. lockfile # None => lockfile' = lockfile
    BY <1>3 DEF file, makes
  <2> QED
    BY <1>0, <1>3, <2>1, <2>2, <2>3 DEF HolderInv
<1>8. NumberInv'
  BY <1>0, <1>2, <1>3 DEF NumberInv, ProcessInv
<1>9. KnownInv'
  <2> SUFFICES ASSUME ~strayed', NEW q \in Processes
               PROVE  Known(q)'
    BY DEF KnownInv
  <2>1. CASE q = p
    BY <1>0, <1>3, <2>1 DEF Known, ProcessInv
  <2>2. CASE q # p
    BY <1>0, <1>3, <2>2, SameKnown DEF KnownInv, ProcessInv
  <2> QED
    BY <2>1, <2>2
<1> QED
  BY <1>5, <1>6, <1>7, <1>8, <1>9 DEF WorkspaceInv

\* The lock is taken if nobody holds it: the others that write hold another.
LEMMA LockKeeps ==
    ASSUME WorkspaceInv, NEW p \in Processes, Lock(p)
    PROVE  WorkspaceInv'
<1>0. FilesInv /\ ProcessInv /\ HolderInv /\ NumberInv /\ KnownInv /\ op[p] \in Operations
      /\ pc[p] = "lock"
  BY DEF WorkspaceInv, ProcessInv, Lock
<1>1. op[p].lock \in LockFiles /\ op[p].first \in Writing /\ op[p].first \in {"create", "read", "source", "check"}
  BY <1>0, FieldsOfOperations DEF ProcessInv, Writing
<1>2. FilesInv'
  BY <1>0 DEF FilesInv, Lock
<1>3. CASE holder[op[p].lock] = None
  <2>0. /\ pc' = [pc EXCEPT ![p] = op[p].first] /\ op' = op
        /\ holder' = [holder EXCEPT ![op[p].lock] = p]
        /\ strayed' = (strayed \/ op[p].lock # lockfile)
        /\ UNCHANGED <<databases, store, sibling, lockfile, started, crashes, removed>>
    BY <1>3 DEF Lock, Goes
  <2>1. ProcessInv'
    BY <1>0, <1>1, <2>0 DEF ProcessInv, Writing, Steps
  <2>2. HolderInv'
    <3>1. holder' \in [LockFiles -> Processes \cup {None}]
      BY <1>0, <2>0 DEF HolderInv
    <3>2. ASSUME NEW q \in Processes, NEW f \in LockFiles
          PROVE  holder'[f] = q <=> pc'[q] \in Writing /\ op'[q].lock = f
      <4>1. pc[p] \notin Writing
        BY <1>0 DEF Writing
      <4>2. CASE f = op[p].lock
        BY <1>0, <1>1, <1>3, <2>0, <4>1, <4>2, NoneIsNothing DEF HolderInv, ProcessInv
      <4>3. CASE f # op[p].lock
        BY <1>0, <1>1, <2>0, <4>1, <4>3 DEF HolderInv, ProcessInv
      <4> QED
        BY <4>2, <4>3
    <3>3. ~strayed' => \A q \in Processes : pc'[q] \in Writing => lockfile' = op'[q].lock
      BY <1>0, <2>0 DEF HolderInv, ProcessInv
    <3> QED
      BY <3>1, <3>2, <3>3 DEF HolderInv
  <2>3. NumberInv'
    BY <1>0, <1>1, <2>0 DEF NumberInv, ProcessInv
  <2>4. KnownInv'
    <3> SUFFICES ASSUME ~strayed', NEW q \in Processes
                 PROVE  Known(q)'
      BY DEF KnownInv
    <3>1. CASE q = p
      BY <1>0, <1>1, <2>0, <3>1 DEF Known, ProcessInv
    <3>2. CASE q # p
      BY <1>0, <2>0, <3>2, SameKnown DEF KnownInv, ProcessInv
    <3> QED
      BY <3>1, <3>2
  <2> QED
    BY <1>2, <2>1, <2>2, <2>3, <2>4 DEF WorkspaceInv
<1>4. CASE holder[op[p].lock] # None
  <2>0. /\ pc' = [pc EXCEPT ![p] = "idle"] /\ op' = [op EXCEPT ![p] = None]
        /\ UNCHANGED <<databases, store, sibling, lockfile, holder, started, crashes, removed, strayed>>
    BY <1>4 DEF Lock, Ends, Goes
  <2>1. ProcessInv'
    BY <1>0, <2>0 DEF ProcessInv, Writing, Steps
  <2>2. HolderInv'
    BY <1>0, <2>0 DEF HolderInv, ProcessInv, Writing
  <2>3. NumberInv'
    BY <1>0, <2>0 DEF NumberInv, ProcessInv
  <2>4. KnownInv'
    <3> SUFFICES ASSUME ~strayed', NEW q \in Processes
                 PROVE  Known(q)'
      BY DEF KnownInv
    <3>1. CASE q = p
      BY <1>0, <2>0, <3>1 DEF Known, ProcessInv
    <3>2. CASE q # p
      BY <1>0, <2>0, <3>2, SameKnown DEF KnownInv, ProcessInv
    <3> QED
      BY <3>1, <3>2
  <2> QED
    BY <1>2, <2>1, <2>2, <2>3, <2>4 DEF WorkspaceInv
<1> QED
  BY <1>3, <1>4

LEMMA CreateKeeps ==
    ASSUME WorkspaceInv, NEW p \in Processes, Create(p)
    PROVE  WorkspaceInv'
<1>0. FilesInv /\ ProcessInv /\ HolderInv /\ NumberInv /\ KnownInv /\ op[p] \in Operations
      /\ pc[p] \in Writing
  BY DEF WorkspaceInv, ProcessInv, Writing, Create
<1>1. CASE /\ store = None /\ store' = op[p].number
              /\ databases' = [databases EXCEPT ![op[p].number] = Empty(FALSE)]
              /\ op' = [op EXCEPT ![p].file = op[p].number]
              /\ Goes(p, "schema") /\ UNCHANGED holder
  <2>0. /\ op' \in [Processes -> Operations \cup {None}] /\ op'[p] \in Operations
        /\ op'[p].file = op[p].number /\ op'[p].number = op[p].number
        /\ op'[p].lock = op[p].lock /\ op'[p].first = op[p].first /\ op'[p].export = op[p].export
        /\ \A q \in Processes \ {p} : op'[q] = op[q]
    BY <1>0, <1>1, FieldsOfOperations, SetFile DEF ProcessInv
  <2>1. ProcessInv' /\ HolderInv' /\ (Known(p)' => KnownInv') /\ pc'[p] = "schema"
        /\ \A q \in Processes \ {p} : pc'[q] = pc[q] /\ op'[q] = op[q]
    <3>1. "schema" \in Writing
      BY DEF Writing
    <3> QED
      BY <1>0, <1>1, <2>0, <3>1, ContinuesKeeps DEF Create
  <2>2. NumberInv'
    BY <1>0, <1>1, <2>0, <2>1, NumbersKeep DEF Create
  <2>3. FilesInv'
    BY <1>0, <1>1, <2>0, FieldsOfOperations, EmptyContent DEF FilesInv, Create
  <2>4. Known(p)'
    BY <1>0, <1>1, <2>0, <2>1, FieldsOfOperations DEF Known, FilesInv, Empty
  <2> QED
    BY <2>1, <2>2, <2>3, <2>4 DEF WorkspaceInv
<1>2. CASE CanOpen /\ Goes(p, "verify") /\ UNCHANGED <<store, databases, op, holder>>
  <2>0. op' = op /\ op' \in [Processes -> Operations \cup {None}]
    BY <1>0, <1>2 DEF ProcessInv
  <2>1. ProcessInv' /\ HolderInv' /\ (Known(p)' => KnownInv') /\ pc'[p] = "verify"
        /\ \A q \in Processes \ {p} : pc'[q] = pc[q] /\ op'[q] = op[q]
    <3>1. "verify" \in Writing
      BY DEF Writing
    <3> QED
      BY <1>0, <1>2, <2>0, <3>1, ContinuesKeeps DEF Create
  <2>2. NumberInv'
    BY <1>0, <1>2, <2>0, <2>1, NumbersKeep DEF Create
  <2>3. FilesInv'
    BY <1>0, <1>2, <2>0 DEF FilesInv, Create
  <2>4. Known(p)'
    BY <2>1 DEF Known
  <2> QED
    BY <2>1, <2>2, <2>3, <2>4 DEF WorkspaceInv
<1>3. CASE Fail(p) /\ UNCHANGED <<store, databases>>
  <2>1. ProcessInv' /\ HolderInv' /\ KnownInv' /\ pc'[p] \in {"idle", "report", "cleanup"}
        /\ (\A q \in Processes \ {p} : pc'[q] = pc[q] /\ op'[q] = op[q])
        /\ (pc'[p] # "idle" => op'[p] = op[p])
    BY <1>0, <1>3, LeavesKeeps DEF Create
  <2>2. NumberInv'
    BY <1>0, <1>3, <2>1, NumbersKeep DEF Create
  <2>3. FilesInv'
    BY <1>0, <1>3 DEF FilesInv, Create
  <2> QED
    BY <2>1, <2>2, <2>3 DEF WorkspaceInv
<1> QED
  BY <1>1, <1>2, <1>3 DEF Create

LEMMA CreateSchemaKeeps ==
    ASSUME WorkspaceInv, NEW p \in Processes, CreateSchema(p)
    PROVE  WorkspaceInv'
<1>0. FilesInv /\ ProcessInv /\ HolderInv /\ NumberInv /\ KnownInv /\ op[p] \in Operations
      /\ pc[p] \in Writing
  BY DEF WorkspaceInv, ProcessInv, Writing, CreateSchema
<1>9. op[p].file \in Numbers \cup {None}
  BY <1>0, FieldsOfOperations
<1>1. CASE /\ databases' = [databases EXCEPT ![op[p].file] = Empty(TRUE)]
              /\ Goes(p, "verify") /\ UNCHANGED <<op, holder>>
  <2>0. op' = op /\ op' \in [Processes -> Operations \cup {None}]
    BY <1>0, <1>1 DEF ProcessInv
  <2>1. ProcessInv' /\ HolderInv' /\ (Known(p)' => KnownInv') /\ pc'[p] = "verify"
        /\ \A q \in Processes \ {p} : pc'[q] = pc[q] /\ op'[q] = op[q]
    <3>1. "verify" \in Writing
      BY DEF Writing
    <3> QED
      BY <1>0, <1>1, <2>0, <3>1, ContinuesKeeps DEF CreateSchema
  <2>2. NumberInv'
    BY <1>0, <1>1, <2>0, <2>1, NumbersKeep DEF CreateSchema
  <2>3. FilesInv'
    BY <1>0, <1>1, <2>0, <1>9, EmptyContent DEF FilesInv, CreateSchema
  <2>4. Known(p)'
    BY <2>1 DEF Known
  <2> QED
    BY <2>1, <2>2, <2>3, <2>4 DEF WorkspaceInv
<1>2. CASE Fail(p) /\ UNCHANGED databases
  <2>1. ProcessInv' /\ HolderInv' /\ KnownInv' /\ pc'[p] \in {"idle", "report", "cleanup"}
        /\ (\A q \in Processes \ {p} : pc'[q] = pc[q] /\ op'[q] = op[q])
        /\ (pc'[p] # "idle" => op'[p] = op[p])
    BY <1>0, <1>2, LeavesKeeps DEF CreateSchema
  <2>2. NumberInv'
    BY <1>0, <1>2, <2>1, NumbersKeep DEF CreateSchema
  <2>3. FilesInv'
    BY <1>0, <1>2 DEF FilesInv, CreateSchema
  <2> QED
    BY <2>1, <2>2, <2>3 DEF WorkspaceInv
<1> QED
  BY <1>1, <1>2 DEF CreateSchema

LEMMA VerifyKeeps ==
    ASSUME WorkspaceInv, NEW p \in Processes, Verify(p)
    PROVE  WorkspaceInv'
<1>0. FilesInv /\ ProcessInv /\ HolderInv /\ NumberInv /\ KnownInv /\ op[p] \in Operations
      /\ pc[p] \in Writing
  BY DEF WorkspaceInv, ProcessInv, Writing, Verify
<1>1. Fail(p) \/ (Release(p) /\ Goes(p, "report") /\ UNCHANGED op)
  BY DEF Verify
<1>2. ProcessInv' /\ HolderInv' /\ KnownInv' /\ pc'[p] \in {"idle", "report", "cleanup"}
      /\ (\A q \in Processes \ {p} : pc'[q] = pc[q] /\ op'[q] = op[q])
      /\ (pc'[p] # "idle" => op'[p] = op[p])
  BY <1>0, <1>1, LeavesKeeps DEF Verify
<1>3. NumberInv'
  BY <1>0, <1>2, NumbersKeep DEF Verify
<1>4. FilesInv'
  BY <1>0 DEF FilesInv, Verify
<1> QED
  BY <1>2, <1>3, <1>4 DEF WorkspaceInv

LEMMA ReportKeeps ==
    ASSUME WorkspaceInv, NEW p \in Processes, Report(p)
    PROVE  WorkspaceInv'
<1>0. FilesInv /\ ProcessInv /\ HolderInv /\ NumberInv /\ KnownInv /\ op[p] \in Operations
      /\ pc[p] = "report" /\ UNCHANGED <<files, started, crashes, strayed>>
  BY DEF WorkspaceInv, ProcessInv, Report
<1>1. \/ pc' = [pc EXCEPT ![p] = "idle"] /\ op' = [op EXCEPT ![p] = None]
      \/ pc' = [pc EXCEPT ![p] = "cleanup"] /\ op' = op
  BY DEF Report, Ends, Goes
<1>2. FilesInv'
  BY <1>0 DEF FilesInv, files
<1>3. ProcessInv'
  BY <1>0, <1>1 DEF ProcessInv, Writing, Steps
<1>4. HolderInv'
  BY <1>0, <1>1 DEF HolderInv, ProcessInv, Writing, files
<1>5. NumberInv'
  BY <1>0, <1>1 DEF NumberInv, ProcessInv, files
<1>6. KnownInv'
  <2> SUFFICES ASSUME ~strayed', NEW q \in Processes
               PROVE  Known(q)'
    BY DEF KnownInv
  <2>1. CASE q = p
    BY <1>0, <1>1, <2>1 DEF Known, ProcessInv
  <2>2. CASE q # p
    BY <1>0, <1>1, <2>2, SameKnown DEF KnownInv, ProcessInv, files
  <2> QED
    BY <2>1, <2>2
<1> QED
  BY <1>2, <1>3, <1>4, <1>5, <1>6 DEF WorkspaceInv

\* The file is made if it is gone, and then locked only if it is the one the
\* process had locked.
LEMMA CleanupKeeps ==
    ASSUME WorkspaceInv, NEW p \in Processes, Cleanup(p)
    PROVE  WorkspaceInv'
<1>0. FilesInv /\ ProcessInv /\ HolderInv /\ NumberInv /\ KnownInv /\ op[p] \in Operations
      /\ pc[p] = "cleanup"
  BY DEF WorkspaceInv, ProcessInv, Cleanup
<1> DEFINE file == IF lockfile = None THEN Reopened(op[p].number) ELSE lockfile
<1>1. file \in LockFiles
  BY <1>0, FieldsOfOperations DEF FilesInv, LockFiles
<1>2. lockfile' = file /\ (lockfile # None => file = lockfile)
      /\ UNCHANGED <<databases, store, sibling, started, crashes, removed, strayed>>
  BY DEF Cleanup
<1>3. \/ /\ file = op[p].lock /\ holder[file] = None
         /\ holder' = [holder EXCEPT ![file] = p]
         /\ pc' = [pc EXCEPT ![p] = "removestore"] /\ op' = op
      \/ pc' = [pc EXCEPT ![p] = "idle"] /\ op' = [op EXCEPT ![p] = None] /\ holder' = holder
  BY DEF Cleanup, Goes, Ends
<1> HIDE DEF file
<1>4. FilesInv'
  BY <1>0, <1>1, <1>2 DEF FilesInv
<1>5. ProcessInv'
  BY <1>0, <1>3 DEF ProcessInv, Writing, Steps
<1>6. HolderInv'
  <2>0. pc[p] \notin Writing
    BY <1>0 DEF Writing
  <2>1. ASSUME NEW q \in Processes, pc[q] \in Writing
        PROVE  pc[q] = pc'[q] /\ op'[q] = op[q] /\ op[q].lock # None
    BY <1>0, <1>3, <2>0, <2>1 DEF ProcessInv
  <2>2. ~strayed' => \A q \in Processes : pc'[q] \in Writing => lockfile' = op'[q].lock
    BY <1>0, <1>2, <1>3, <2>1, NoneIsNothing DEF HolderInv, ProcessInv, Writing
  <2>3. ASSUME NEW q \in Processes, NEW f \in LockFiles
        PROVE  holder'[f] = q <=> pc'[q] \in Writing /\ op'[q].lock = f
    <3>1. "idle" \notin Writing /\ "removestore" \in Writing
      BY DEF Writing
    <3> QED
      BY <1>0, <1>1, <1>3, <2>0, <3>1, NoneIsNothing DEF HolderInv, ProcessInv
  <2>4. holder' \in [LockFiles -> Processes \cup {None}]
    BY <1>0, <1>3 DEF HolderInv
  <2> QED
    BY <2>2, <2>3, <2>4 DEF HolderInv
<1>7. NumberInv'
  BY <1>0, <1>2, <1>3 DEF NumberInv, ProcessInv
<1>8. KnownInv'
  <2> SUFFICES ASSUME ~strayed', NEW q \in Processes
               PROVE  Known(q)'
    BY DEF KnownInv
  <2>1. CASE q = p
    BY <1>0, <1>3, <2>1 DEF Known, ProcessInv
  <2>2. CASE q # p
    BY <1>0, <1>2, <1>3, <2>2, SameKnown DEF KnownInv, ProcessInv
  <2> QED
    BY <2>1, <2>2
<1> QED
  BY <1>4, <1>5, <1>6, <1>7, <1>8 DEF WorkspaceInv

LEMMA RemoveStoreKeeps ==
    ASSUME WorkspaceInv, NEW p \in Processes, RemoveStore(p)
    PROVE  WorkspaceInv'
<1>0. FilesInv /\ ProcessInv /\ HolderInv /\ NumberInv /\ KnownInv /\ op[p] \in Operations
      /\ pc[p] \in Writing
  BY DEF WorkspaceInv, ProcessInv, Writing, RemoveStore
<1>1. op' = op /\ op' \in [Processes -> Operations \cup {None}] /\ "removelock" \in Writing
  BY <1>0 DEF ProcessInv, RemoveStore, Writing
<1>2. ProcessInv' /\ HolderInv' /\ (Known(p)' => KnownInv') /\ pc'[p] = "removelock"
      /\ \A q \in Processes \ {p} : pc'[q] = pc[q] /\ op'[q] = op[q]
  BY <1>0, <1>1, ContinuesKeeps DEF RemoveStore
<1>3. NumberInv'
  BY <1>0, <1>1, <1>2, NumbersKeep DEF RemoveStore
<1>4. FilesInv'
  BY <1>0 DEF FilesInv, RemoveStore
<1>5. Known(p)'
  BY <1>2 DEF Known
<1> QED
  BY <1>2, <1>3, <1>4, <1>5 DEF WorkspaceInv

LEMMA RemoveLockKeeps ==
    ASSUME WorkspaceInv, NEW p \in Processes, RemoveLock(p)
    PROVE  WorkspaceInv'
<1>0. FilesInv /\ ProcessInv /\ HolderInv /\ NumberInv /\ KnownInv /\ op[p] \in Operations
  BY DEF WorkspaceInv, ProcessInv, RemoveLock
<1>1. FilesInv'
  BY <1>0, FieldsOfOperations DEF FilesInv, RemoveLock, Goes, Ends, Release, Finish, Fail, files
<1>2. ProcessInv'
  BY <1>0, FieldsOfOperations, SetFile, NoneIsNothing DEF ProcessInv, Writing, Steps, RemoveLock, Goes, Ends, Release, Finish, Fail, files
<1>3. HolderInv'
  BY <1>0, FieldsOfOperations, SetFile, NoneIsNothing DEF HolderInv, ProcessInv, Writing, Steps, RemoveLock, Goes, Ends, Release, Finish, Fail, files
<1>4. NumberInv'
  BY <1>0, FieldsOfOperations, SetFile, NoneIsNothing DEF NumberInv, ProcessInv, FilesInv, RemoveLock, Goes, Ends, Release, Finish, Fail, files
<1>5. KnownInv'
  BY <1>0, FieldsOfOperations, SetFile, OthersWait DEF KnownInv, Known, NumberInv, ProcessInv, FilesInv, Writing, RemoveLock, Goes, Ends, Release, Finish, Fail, files
<1> QED
  BY <1>1, <1>2, <1>3, <1>4, <1>5 DEF WorkspaceInv

\* What is read is of the store, and the lock is held: it stays so until the
\* transaction ends.
LEMMA ReadKeeps ==
    ASSUME WorkspaceInv, NEW p \in Processes, Read(p)
    PROVE  WorkspaceInv'
<1>0. FilesInv /\ ProcessInv /\ HolderInv /\ NumberInv /\ KnownInv /\ op[p] \in Operations
      /\ pc[p] \in Writing
  BY DEF WorkspaceInv, ProcessInv, Writing, Read
<1>1. CASE /\ CanOpen /\ ~Refuses(p, CurrentAt(store))
              /\ op' = [op EXCEPT ![p].file = store, ![p].next = Refreshed(p, CurrentAt(store))]
              /\ Goes(p, "commit") /\ UNCHANGED holder
  <2> DEFINE o == [op[p] EXCEPT !.file = store, !.next = Refreshed(p, CurrentAt(store))]
  <2>a. store \in Numbers /\ databases[store].schema /\ CurrentAt(store) \in Coverage
    BY <1>0, <1>1 DEF CanOpen, FilesInv, CurrentAt, Database
  <2>b. /\ o \in Operations /\ o.file = store /\ o.next = Refreshed(p, CurrentAt(store))
        /\ o.number = op[p].number /\ o.first = op[p].first /\ o.lock = op[p].lock
        /\ o.export = op[p].export /\ o.keys = op[p].keys /\ o.replace = op[p].replace
        /\ o.expect = op[p].expect
    <3>1. Refreshed(p, CurrentAt(store)) \in Coverage
      BY <1>0, <2>a, RefreshedContent DEF Read
    <3> QED
      BY <1>0, <2>a, <3>1 DEF Operations
  <2>c. op' = [op EXCEPT ![p] = o]
    BY <1>1
  <2> HIDE DEF o
  <2>0. /\ op' \in [Processes -> Operations \cup {None}] /\ op'[p] = o
        /\ op'[p] \in Operations /\ op'[p].number = op[p].number
        /\ op'[p].lock = op[p].lock /\ op'[p].first = op[p].first /\ op'[p].export = op[p].export
        /\ op'[p].first = "read" /\ op'[p].export # None
        /\ \A q \in Processes \ {p} : op'[q] = op[q]
    BY <1>0, <2>b, <2>c DEF ProcessInv, Read
  <2>1. ProcessInv' /\ HolderInv' /\ (Known(p)' => KnownInv') /\ pc'[p] = "commit"
        /\ \A q \in Processes \ {p} : pc'[q] = pc[q] /\ op'[q] = op[q]
    <3>1. "commit" \in Writing
      BY DEF Writing
    <3> QED
      BY <1>0, <1>1, <2>0, <3>1, ContinuesKeeps DEF Read
  <2>2. NumberInv'
    BY <1>0, <1>1, <2>0, <2>1, NumbersKeep DEF Read
  <2>3. FilesInv'
    BY <1>0, <1>1, <2>0 DEF FilesInv, Read
  <2>4. Known(p)'
    <3>1. store' = store /\ databases' = databases /\ pc'[p] = "commit" /\ store # None
      BY <1>0, <2>1, <2>a, Numbered DEF Read
    <3>2. op'[p].file = store /\ op'[p].export # None
      BY <2>0, <2>b
    <3>3. /\ op'[p].keys = op[p].keys /\ op'[p].export = op[p].export
          /\ op'[p].replace = op[p].replace /\ op'[p].expect = op[p].expect
          /\ op'[p].next = Refreshed(p, databases[store].current)
      BY <2>0, <2>b DEF CurrentAt
    <3>4. (~Refuses(p, databases[store].current))'
      <4>1. ~Refuses(p, databases[store].current)
        BY <1>1 DEF CurrentAt
      <4> QED
        BY <3>1, <3>3, <4>1 DEF Refuses, Replaced
    <3>5. op'[p].next = Refreshed(p, databases[store].current)'
      BY <3>1, <3>3 DEF Refreshed
    <3> QED
      BY <2>a, <3>1, <3>2, <3>4, <3>5 DEF Known
  <2> QED
    BY <2>1, <2>2, <2>3, <2>4 DEF WorkspaceInv
<1>2. CASE Fail(p)
  <2>1. ProcessInv' /\ HolderInv' /\ KnownInv' /\ pc'[p] \in {"idle", "report", "cleanup"}
        /\ (\A q \in Processes \ {p} : pc'[q] = pc[q] /\ op'[q] = op[q])
        /\ (pc'[p] # "idle" => op'[p] = op[p])
    BY <1>0, <1>2, LeavesKeeps DEF Read
  <2>2. NumberInv'
    BY <1>0, <1>2, <2>1, NumbersKeep DEF Read
  <2>3. FilesInv'
    BY <1>0, <1>2 DEF FilesInv, Read
  <2> QED
    BY <2>1, <2>2, <2>3 DEF WorkspaceInv
<1> QED
  BY <1>1, <1>2 DEF Read

LEMMA CommitKeeps ==
    ASSUME WorkspaceInv, NEW p \in Processes, Commit(p)
    PROVE  WorkspaceInv'
<1>0. FilesInv /\ ProcessInv /\ HolderInv /\ NumberInv /\ KnownInv /\ op[p] \in Operations
      /\ pc[p] \in Writing
  BY DEF WorkspaceInv, ProcessInv, Writing, Commit
<1>5. databases' \in [Numbers -> Database]
  <2>1. op[p].next \in Coverage /\ op[p].file \in Numbers \cup {None}
    BY <1>0, FieldsOfOperations
  <2>2. op[p].file \in Numbers => Registered(databases[op[p].file], op[p].next) \in Database
    BY <1>0, <2>1, RegisteredContent DEF FilesInv
  <2> QED
    BY <1>0, <2>1, <2>2 DEF FilesInv, Commit
<1>1. Fail(p) \/ Finish(p)
  BY DEF Commit
<1>2. ProcessInv' /\ HolderInv' /\ KnownInv' /\ pc'[p] \in {"idle", "report", "cleanup"}
      /\ (\A q \in Processes \ {p} : pc'[q] = pc[q] /\ op'[q] = op[q])
      /\ (pc'[p] # "idle" => op'[p] = op[p])
  BY <1>0, <1>1, LeavesKeeps DEF Commit
<1>3. NumberInv'
  BY <1>0, <1>2, NumbersKeep DEF Commit
<1>4. FilesInv'
  BY <1>0, <1>5 DEF FilesInv, Commit
<1> QED
  BY <1>2, <1>3, <1>4 DEF WorkspaceInv

\* The file that is made has a number no path has: the store is not touched.
LEMMA ReadSourceKeeps ==
    ASSUME WorkspaceInv, NEW p \in Processes, ReadSource(p)
    PROVE  WorkspaceInv'
<1>0. FilesInv /\ ProcessInv /\ HolderInv /\ NumberInv /\ KnownInv /\ op[p] \in Operations
      /\ pc[p] \in Writing
  BY DEF WorkspaceInv, ProcessInv, Writing, ReadSource
<1>1. CASE /\ CanOpen /\ op' = [op EXCEPT ![p].file = store]
              /\ databases' = [databases EXCEPT ![op[p].number] = databases[store]]
              /\ Goes(p, "sibling") /\ UNCHANGED holder
  <2>a. store \in Numbers
    BY <1>0, <1>1 DEF CanOpen, FilesInv
  <2>0. /\ op' \in [Processes -> Operations \cup {None}] /\ op'[p] \in Operations
        /\ op'[p].number = op[p].number
        /\ op'[p].lock = op[p].lock /\ op'[p].first = op[p].first /\ op'[p].export = op[p].export
        /\ \A q \in Processes \ {p} : op'[q] = op[q]
    BY <1>0, <1>1, <2>a, SetFile DEF ProcessInv
  <2>1. ProcessInv' /\ HolderInv' /\ (Known(p)' => KnownInv') /\ pc'[p] = "sibling"
        /\ \A q \in Processes \ {p} : pc'[q] = pc[q] /\ op'[q] = op[q]
    <3>1. "sibling" \in Writing
      BY DEF Writing
    <3> QED
      BY <1>0, <1>1, <2>0, <3>1, ContinuesKeeps DEF ReadSource
  <2>2. NumberInv'
    BY <1>0, <1>1, <2>0, <2>1, NumbersKeep DEF ReadSource
  <2>3. FilesInv'
    BY <1>0, <1>1, <2>0, <2>a, FieldsOfOperations DEF FilesInv, ReadSource
  <2>4. Known(p)'
    <3>1. op[p].number # store /\ op[p].number \in Numbers
      BY <1>0, FieldsOfOperations DEF NumberInv, ReadSource
    <3>2. databases'[op[p].number] = databases[store] /\ databases'[store] = databases[store]
      BY <1>0, <1>1, <2>a, <3>1 DEF FilesInv
    <3> QED
      BY <2>0, <2>1, <2>a, <3>1, <3>2, Numbered DEF Known, ReadSource
  <2> QED
    BY <2>1, <2>2, <2>3, <2>4 DEF WorkspaceInv
<1>2. CASE Fail(p) /\ UNCHANGED databases
  <2>1. ProcessInv' /\ HolderInv' /\ KnownInv' /\ pc'[p] \in {"idle", "report", "cleanup"}
        /\ (\A q \in Processes \ {p} : pc'[q] = pc[q] /\ op'[q] = op[q])
        /\ (pc'[p] # "idle" => op'[p] = op[p])
    BY <1>0, <1>2, LeavesKeeps DEF ReadSource
  <2>2. NumberInv'
    BY <1>0, <1>2, <2>1, NumbersKeep DEF ReadSource
  <2>3. FilesInv'
    BY <1>0, <1>2 DEF FilesInv, ReadSource
  <2> QED
    BY <2>1, <2>2, <2>3 DEF WorkspaceInv
<1> QED
  BY <1>1, <1>2 DEF ReadSource

LEMMA BuildSiblingKeeps ==
    ASSUME WorkspaceInv, NEW p \in Processes, BuildSibling(p)
    PROVE  WorkspaceInv'
<1>0. FilesInv /\ ProcessInv /\ HolderInv /\ NumberInv /\ KnownInv /\ op[p] \in Operations
      /\ pc[p] \in Writing
  BY DEF WorkspaceInv, ProcessInv, Writing, BuildSibling
<1>1. op' = op /\ op' \in [Processes -> Operations \cup {None}] /\ "replace" \in Writing
  BY <1>0 DEF ProcessInv, BuildSibling, Writing
<1>2. ProcessInv' /\ HolderInv' /\ (Known(p)' => KnownInv') /\ pc'[p] = "replace"
      /\ \A q \in Processes \ {p} : pc'[q] = pc[q] /\ op'[q] = op[q]
  BY <1>0, <1>1, ContinuesKeeps DEF BuildSibling
<1>3. NumberInv'
  BY <1>0, <1>1, <1>2, NumbersKeep DEF BuildSibling
<1>4. FilesInv'
  BY <1>0, FieldsOfOperations DEF FilesInv, BuildSibling
<1>5. ~strayed => Known(p)'
  BY <1>0, <1>1, <1>2 DEF KnownInv, Known, BuildSibling
<1>6. KnownInv'
  BY <1>2, <1>5 DEF KnownInv, BuildSibling
<1> QED
  BY <1>2, <1>3, <1>4, <1>6 DEF WorkspaceInv

LEMMA ReplaceStoreKeeps ==
    ASSUME WorkspaceInv, NEW p \in Processes, ReplaceStore(p)
    PROVE  WorkspaceInv'
<1>0. FilesInv /\ ProcessInv /\ HolderInv /\ NumberInv /\ KnownInv /\ op[p] \in Operations
      /\ pc[p] \in Writing
  BY DEF WorkspaceInv, ProcessInv, Writing, ReplaceStore
<1>1. Fail(p) \/ Finish(p)
  BY DEF ReplaceStore
<1>2. ProcessInv' /\ HolderInv' /\ KnownInv' /\ pc'[p] \in {"idle", "report", "cleanup"}
      /\ (\A q \in Processes \ {p} : pc'[q] = pc[q] /\ op'[q] = op[q])
      /\ (pc'[p] # "idle" => op'[p] = op[p])
  BY <1>0, <1>1, LeavesKeeps DEF ReplaceStore
<1>3. NumberInv'
  BY <1>0, <1>2, NumbersKeep DEF ReplaceStore
<1>4. FilesInv'
  BY <1>0 DEF FilesInv, ReplaceStore
<1> QED
  BY <1>2, <1>3, <1>4 DEF WorkspaceInv

LEMMA CheckKeeps ==
    ASSUME WorkspaceInv, NEW p \in Processes, Check(p)
    PROVE  WorkspaceInv'
<1>0. FilesInv /\ ProcessInv /\ HolderInv /\ NumberInv /\ KnownInv /\ op[p] \in Operations
      /\ pc[p] \in Writing
  BY DEF WorkspaceInv, ProcessInv, Writing, Check
<1>1. CASE CanOpen /\ CurrentAt(store) = op[p].expect /\ Goes(p, "movestore") /\ UNCHANGED <<op, holder>>
  <2>0. op' = op /\ op' \in [Processes -> Operations \cup {None}]
    BY <1>0, <1>1 DEF ProcessInv
  <2>1. ProcessInv' /\ HolderInv' /\ (Known(p)' => KnownInv') /\ pc'[p] = "movestore"
        /\ \A q \in Processes \ {p} : pc'[q] = pc[q] /\ op'[q] = op[q]
    <3>1. "movestore" \in Writing
      BY DEF Writing
    <3> QED
      BY <1>0, <1>1, <2>0, <3>1, ContinuesKeeps DEF Check
  <2>2. NumberInv'
    BY <1>0, <1>1, <2>0, <2>1, NumbersKeep DEF Check
  <2>3. FilesInv'
    BY <1>0, <1>1, <2>0 DEF FilesInv, Check
  <2>4. Known(p)'
    BY <1>1, <2>0, <2>1 DEF Known, CanOpen, CurrentAt, Check
  <2> QED
    BY <2>1, <2>2, <2>3, <2>4 DEF WorkspaceInv
<1>2. CASE Fail(p)
  <2>1. ProcessInv' /\ HolderInv' /\ KnownInv' /\ pc'[p] \in {"idle", "report", "cleanup"}
        /\ (\A q \in Processes \ {p} : pc'[q] = pc[q] /\ op'[q] = op[q])
        /\ (pc'[p] # "idle" => op'[p] = op[p])
    BY <1>0, <1>2, LeavesKeeps DEF Check
  <2>2. NumberInv'
    BY <1>0, <1>2, <2>1, NumbersKeep DEF Check
  <2>3. FilesInv'
    BY <1>0, <1>2 DEF FilesInv, Check
  <2> QED
    BY <2>1, <2>2, <2>3 DEF WorkspaceInv
<1> QED
  BY <1>1, <1>2 DEF Check

LEMMA MoveStoreKeeps ==
    ASSUME WorkspaceInv, NEW p \in Processes, MoveStore(p)
    PROVE  WorkspaceInv'
<1>0. FilesInv /\ ProcessInv /\ HolderInv /\ NumberInv /\ KnownInv /\ op[p] \in Operations
      /\ pc[p] \in Writing
  BY DEF WorkspaceInv, ProcessInv, Writing, MoveStore
<1>1. CASE store # None /\ store' = None /\ Goes(p, "movelock") /\ UNCHANGED <<op, holder>>
  <2>0. op' = op /\ op' \in [Processes -> Operations \cup {None}]
    BY <1>0, <1>1 DEF ProcessInv
  <2>1. ProcessInv' /\ HolderInv' /\ (Known(p)' => KnownInv') /\ pc'[p] = "movelock"
        /\ \A q \in Processes \ {p} : pc'[q] = pc[q] /\ op'[q] = op[q]
    <3>1. "movelock" \in Writing
      BY DEF Writing
    <3> QED
      BY <1>0, <1>1, <2>0, <3>1, ContinuesKeeps DEF MoveStore
  <2>2. NumberInv'
    BY <1>0, <1>1, <2>0, <2>1, NumbersKeep DEF MoveStore
  <2>3. FilesInv'
    BY <1>0, <1>1, <2>0 DEF FilesInv, MoveStore
  <2>4. Known(p)'
    BY <2>1 DEF Known
  <2> QED
    BY <2>1, <2>2, <2>3, <2>4 DEF WorkspaceInv
<1>2. CASE Fail(p) /\ store' = None
  <2>1. ProcessInv' /\ HolderInv' /\ KnownInv' /\ pc'[p] \in {"idle", "report", "cleanup"}
        /\ (\A q \in Processes \ {p} : pc'[q] = pc[q] /\ op'[q] = op[q])
        /\ (pc'[p] # "idle" => op'[p] = op[p])
    BY <1>0, <1>2, LeavesKeeps DEF MoveStore
  <2>2. NumberInv'
    BY <1>0, <1>2, <2>1, NumbersKeep DEF MoveStore
  <2>3. FilesInv'
    BY <1>0, <1>2 DEF FilesInv, MoveStore
  <2> QED
    BY <2>1, <2>2, <2>3 DEF WorkspaceInv
<1> QED
  BY <1>1, <1>2 DEF MoveStore

LEMMA MoveLockKeeps ==
    ASSUME WorkspaceInv, NEW p \in Processes, MoveLock(p)
    PROVE  WorkspaceInv'
<1>0. FilesInv /\ ProcessInv /\ HolderInv /\ NumberInv /\ KnownInv /\ op[p] \in Operations
  BY DEF WorkspaceInv, ProcessInv, MoveLock
<1>1. FilesInv'
  BY <1>0, FieldsOfOperations DEF FilesInv, MoveLock, Goes, Ends, Release, Finish, Fail, files
<1>2. ProcessInv'
  BY <1>0, FieldsOfOperations, SetFile, NoneIsNothing DEF ProcessInv, Writing, Steps, MoveLock, Goes, Ends, Release, Finish, Fail, files
<1>3. HolderInv'
  BY <1>0, FieldsOfOperations, SetFile, NoneIsNothing DEF HolderInv, ProcessInv, Writing, Steps, MoveLock, Goes, Ends, Release, Finish, Fail, files
<1>4. NumberInv'
  BY <1>0, FieldsOfOperations, SetFile, NoneIsNothing DEF NumberInv, ProcessInv, FilesInv, MoveLock, Goes, Ends, Release, Finish, Fail, files
<1>5. KnownInv'
  BY <1>0, FieldsOfOperations, SetFile, OthersWait DEF KnownInv, Known, NumberInv, ProcessInv, FilesInv, Writing, MoveLock, Goes, Ends, Release, Finish, Fail, files
<1> QED
  BY <1>1, <1>2, <1>3, <1>4, <1>5 DEF WorkspaceInv

LEMMA KillKeeps ==
    ASSUME WorkspaceInv, NEW p \in Processes, Kill(p)
    PROVE  WorkspaceInv'
<1>0. FilesInv /\ ProcessInv /\ HolderInv /\ NumberInv /\ KnownInv /\ op[p] \in Operations
  BY DEF WorkspaceInv, ProcessInv, Kill
<1>1. FilesInv'
  BY <1>0, WorkspaceConstants DEF FilesInv, Kill, Goes, Ends, Release, Finish, Fail, files
<1>2. ProcessInv'
  BY <1>0, FieldsOfOperations, SetFile, NoneIsNothing DEF ProcessInv, Writing, Steps, Kill, Goes, Ends, Release, Finish, Fail, files
<1>3. HolderInv'
  BY <1>0, FieldsOfOperations, SetFile, NoneIsNothing DEF HolderInv, ProcessInv, Writing, Steps, Kill, Goes, Ends, Release, Finish, Fail, files
<1>4. NumberInv'
  BY <1>0, FieldsOfOperations, SetFile, NoneIsNothing DEF NumberInv, ProcessInv, FilesInv, Kill, Goes, Ends, Release, Finish, Fail, files
<1>5. KnownInv'
  <2> SUFFICES ASSUME ~strayed', NEW q \in Processes
               PROVE  Known(q)'
    BY DEF KnownInv
  <2>0. /\ pc' = [pc EXCEPT ![p] = "idle"] /\ op' = [op EXCEPT ![p] = None]
        /\ UNCHANGED <<databases, store, sibling, strayed>>
    BY DEF Kill, Finish, Ends, Goes
  <2>1. CASE q = p
    BY <1>0, <2>0, <2>1 DEF Known, ProcessInv
  <2>2. CASE q # p
    BY <1>0, <2>0, <2>2, SameKnown DEF KnownInv, ProcessInv
  <2> QED
    BY <2>1, <2>2
<1> QED
  BY <1>1, <1>2, <1>3, <1>4, <1>5 DEF WorkspaceInv

\* A command begins, whatever it is told.
LEMMA BeginKeeps ==
    ASSUME WorkspaceInv, NEW p \in Processes, NEW o \in Operations, Begin(p, o),
           o.number = started + 1, o.first = "read" => o.export # None
    PROVE  WorkspaceInv'
<1>0. FilesInv /\ ProcessInv /\ HolderInv /\ NumberInv /\ KnownInv
      /\ pc[p] = "idle" /\ started < MaxOperations
  BY DEF WorkspaceInv, Begin
<1>1. /\ pc' = [pc EXCEPT ![p] = "openlock"] /\ op' = [op EXCEPT ![p] = o]
      /\ started' = started + 1 /\ UNCHANGED <<files, crashes, removed, strayed>>
  BY DEF Begin, Goes
<1>2. FilesInv'
  BY <1>0, <1>1, WorkspaceConstants DEF FilesInv, files
<1>3. ProcessInv'
  BY <1>0, <1>1, FieldsOfOperations DEF ProcessInv, Writing, Steps
<1>4. HolderInv'
  BY <1>0, <1>1 DEF HolderInv, ProcessInv, Writing, files
<1>5. NumberInv'
  <2>1. /\ started \in Nat /\ store \in Numbers \cup {None} /\ sibling \in Numbers \cup {None}
        /\ \A q \in Processes : op[q] \in Operations => op[q].number \in Nat
    BY <1>0, FieldsOfOperations DEF FilesInv
  <2>2. ASSUME NEW q \in Processes, pc'[q] # "idle"
        PROVE  op'[q].number <= started' /\ (q # p => op[q].number <= started)
    BY <1>0, <1>1, <2>1, <2>2 DEF NumberInv, ProcessInv
  <2>3. ASSUME NEW q \in Processes, NEW r \in Processes, pc'[q] # "idle", pc'[r] # "idle", r # q
        PROVE  op'[r].number # op'[q].number
    BY <1>0, <1>1, <2>1, <2>2, <2>3 DEF NumberInv, ProcessInv
  <2>4. ASSUME NEW q \in Processes, pc'[q] \in {"openlock", "lock", "source"}
        PROVE  store' # op'[q].number /\ sibling' # op'[q].number
    <3>1. CASE q = p
      <4>1. op'[q].number = started + 1 /\ op'[q].number # None
        BY <1>0, <1>1, <3>1, FieldsOfOperations DEF ProcessInv
      <4>2. store # None => store \in Nat /\ store <= started
        BY <1>0, <2>1 DEF NumberInv, Numbers
      <4>3. sibling # None => sibling \in Nat /\ sibling <= started
        BY <1>0, <2>1 DEF NumberInv, Numbers
      <4>4. store # op'[q].number
        BY <2>1, <4>1, <4>2
      <4>5. sibling # op'[q].number
        BY <2>1, <4>1, <4>3
      <4> QED
        BY <1>1, <4>4, <4>5 DEF files
    <3>2. CASE q # p
      BY <1>0, <1>1, <2>4, <3>2 DEF NumberInv, ProcessInv, files
    <3> QED
      BY <3>1, <3>2
  <2>5. (store' # None => store' <= started') /\ (sibling' # None => sibling' <= started')
    BY <1>0, <1>1, <2>1 DEF NumberInv, Numbers, files
  <2> QED
    BY <2>2, <2>3, <2>4, <2>5 DEF NumberInv
<1>6. KnownInv'
  <2> SUFFICES ASSUME ~strayed', NEW q \in Processes
               PROVE  Known(q)'
    BY DEF KnownInv
  <2>1. CASE q = p
    BY <1>0, <1>1, <2>1 DEF Known, ProcessInv
  <2>2. CASE q # p
    BY <1>0, <1>1, <2>2, SameKnown DEF KnownInv, ProcessInv, files
  <2> QED
    BY <2>1, <2>2
<1> QED
  BY <1>2, <1>3, <1>4, <1>5, <1>6 DEF WorkspaceInv

LEMMA CommandsBegin ==
    ASSUME WorkspaceInv, NEW p \in Processes,
           BeginInit(p) \/ BeginRefresh(p) \/ BeginRebuild(p) \/ BeginDelete(p)
    PROVE  /\ WorkspaceInv'
           /\ UNCHANGED <<databases, store>>
<1>0. started \in 0..MaxOperations /\ store \in Numbers \cup {None}
      /\ databases \in [Numbers -> Database]
  BY DEF WorkspaceInv, FilesInv
<1>1. ASSUME started < MaxOperations, NEW kind \in {"init", "refresh", "rebuild", "delete"},
             NEW first \in {"create", "read", "source", "check"}, NEW keys \in SUBSET Keys,
             NEW e \in Exports \cup {None}, NEW b \in BOOLEAN, NEW c \in Coverage
      PROVE  [number |-> started + 1, kind |-> kind, first |-> first, lock |-> None,
              made |-> FALSE, file |-> None, keys |-> keys, export |-> e, replace |-> b,
              expect |-> c, next |-> Nothing] \in Operations
  BY <1>0, <1>1, EmptyContent, WorkspaceConstants DEF Operations
<1>2. CASE BeginInit(p)
  <2>1. Begin(p, Operation("init", "create"))
    BY <1>2 DEF BeginInit
  <2>2. Operation("init", "create") \in Operations
    BY <1>1, <2>1, EmptyContent DEF Begin, Operation
  <2>3. Operation("init", "create").number = started + 1
        /\ Operation("init", "create").first = "create"
    BY DEF Operation
  <2> QED
    BY <2>1, <2>2, <2>3, BeginKeeps DEF Begin, files
<1>3. CASE BeginRefresh(p)
  <2>1. PICK keys \in SUBSET Keys, e \in Exports, replace \in BOOLEAN :
          /\ replace => CanOpen
          /\ Begin(p, [Operation("refresh", "read") EXCEPT
                !.keys = keys, !.export = e, !.replace = replace,
                !.expect = IF replace THEN CurrentAt(store) ELSE Nothing])
    BY <1>3 DEF BeginRefresh
  <2> DEFINE base == Operation("refresh", "read")
             expect == IF replace THEN CurrentAt(store) ELSE Nothing
             o == [base EXCEPT !.keys = keys, !.export = e, !.replace = replace,
                               !.expect = expect]
  <2>2. expect \in Coverage
    BY <1>0, <2>1, EmptyContent DEF CanOpen, CurrentAt, Database
  <2>3. Begin(p, o)
    BY <2>1
  <2>4. base \in Operations /\ base.number = started + 1 /\ base.first = "read"
    BY <1>1, <2>3, EmptyContent DEF Begin, Operation
  <2> HIDE DEF expect, base
  <2>5. o \in Operations /\ o.number = base.number /\ o.export = e
    BY <2>2, <2>4 DEF Operations
  <2>6. e # None
    BY NoneIsNothing
  <2> HIDE DEF o
  <2> QED
    BY <2>3, <2>4, <2>5, <2>6, BeginKeeps DEF Begin, files
<1>4. CASE BeginRebuild(p)
  <2>1. Begin(p, Operation("rebuild", "source"))
    BY <1>4 DEF BeginRebuild
  <2>2. Operation("rebuild", "source") \in Operations
    BY <1>1, <2>1, EmptyContent DEF Begin, Operation
  <2>3. Operation("rebuild", "source").number = started + 1
        /\ Operation("rebuild", "source").first = "source"
    BY DEF Operation
  <2> QED
    BY <2>1, <2>2, <2>3, BeginKeeps DEF Begin, files
<1>5. CASE BeginDelete(p)
  <2> DEFINE base == Operation("delete", "check")
             o == [base EXCEPT !.expect = CurrentAt(store)]
  <2>1. Begin(p, o)
    BY <1>5 DEF BeginDelete
  <2>2. CurrentAt(store) \in Coverage
    BY <1>0, <1>5 DEF BeginDelete, CanOpen, CurrentAt, Database
  <2>3. base \in Operations /\ base.number = started + 1 /\ base.first = "check"
    BY <1>1, <2>1, EmptyContent DEF Begin, Operation
  <2> HIDE DEF base
  <2>4. o \in Operations /\ o.number = base.number /\ o.first = base.first
    BY <2>2, <2>3 DEF Operations
  <2> HIDE DEF o
  <2> QED
    BY <2>1, <2>3, <2>4, BeginKeeps DEF Begin, files
<1> QED
  BY <1>2, <1>3, <1>4, <1>5

LEMMA InitInv == Init => WorkspaceInv
<1> SUFFICES ASSUME Init
             PROVE  WorkspaceInv
  OBVIOUS
<1>0. 0 \in Numbers
  BY WorkspaceConstants DEF Numbers
<1>a. sibling = None /\ pc = [p \in Processes |-> "idle"] /\ started = 0 /\ crashes = 0
  BY Zenon DEF Init
<1>1. FilesInv
  <2>1. PICK covered \in SUBSET Keys, e \in Exports, exists \in BOOLEAN :
          LET current == [k \in Keys |-> IF k \in covered THEN e ELSE None]
          IN  /\ databases = [f \in Numbers |->
                   IF f = 0 THEN [Empty(TRUE) EXCEPT !.current = current,
                                                     !.states = {Nothing, current}]
                   ELSE Empty(FALSE)]
              /\ store = IF exists THEN 0 ELSE None
              /\ lockfile = store
    BY DEF Init
  <2> DEFINE current == [k \in Keys |-> IF k \in covered THEN e ELSE None]
  <2>2. current \in Coverage
    BY DEF Coverage
  <2> HIDE DEF current
  <2>3. [Empty(TRUE) EXCEPT !.current = current, !.states = {Nothing, current}] \in Database
    BY <2>2, EmptyContent DEF Database
  <2>4. databases = [f \in Numbers |->
           IF f = 0 THEN [Empty(TRUE) EXCEPT !.current = current, !.states = {Nothing, current}]
           ELSE Empty(FALSE)]
    BY <2>1 DEF current
  <2>5. databases \in [Numbers -> Database]
    BY <2>3, <2>4, EmptyContent
  <2>6. store \in Numbers \cup {None} /\ lockfile \in LockFiles \cup {None}
    BY <1>0, <2>1, Numbered
  <2> QED
    BY <1>0, <1>a, <2>5, <2>6, WorkspaceConstants DEF FilesInv
<1>2. ProcessInv
  BY DEF Init, ProcessInv, Writing, Steps
<1>3. HolderInv
  BY NoneIsNothing DEF Init, HolderInv, Writing
<1>4. NumberInv
  <2>1. store # None => store = 0
    BY Zenon DEF Init
  <2> QED
    BY <1>a, <2>1 DEF NumberInv
<1>5. KnownInv
  BY DEF Init, KnownInv, Known
<1> QED
  BY <1>1, <1>2, <1>3, <1>4, <1>5 DEF WorkspaceInv

LEMMA StepsKeep == WorkspaceInv /\ [Next]_vars => WorkspaceInv'
<1> SUFFICES ASSUME WorkspaceInv, [Next]_vars
             PROVE  WorkspaceInv'
  OBVIOUS
<1>1. CASE Next
  <2>1. PICK p \in Processes : \/ BeginInit(p) \/ BeginRefresh(p) \/ BeginRebuild(p)
                               \/ BeginDelete(p) \/ Step(p) \/ Kill(p)
    BY <1>1 DEF Next
  <2> QED
    BY <2>1, CommandsBegin, OpenLockKeeps, LockKeeps, CreateKeeps, CreateSchemaKeeps,
       VerifyKeeps, ReportKeeps, CleanupKeeps, RemoveStoreKeeps, RemoveLockKeeps, ReadKeeps, CommitKeeps,
       ReadSourceKeeps, BuildSiblingKeeps, ReplaceStoreKeeps, CheckKeeps, MoveStoreKeeps,
       MoveLockKeeps, KillKeeps DEF Step
<1>2. CASE UNCHANGED vars
  BY <1>2 DEF vars, files, WorkspaceInv, FilesInv, ProcessInv, HolderInv, NumberInv, KnownInv,
     Known, Refuses, Replaced, Refreshed
<1> QED
  BY <1>1, <1>2

\* The inductive invariant holds.
THEOREM Invariant == Spec => []WorkspaceInv
  BY InitInv, StepsKeep, PTL DEF Spec

-----------------------------------------------------------------------------
(* What follows from it *)

\* The variables have their types, and a lock is held only by a process that
\* is at work (_evidence_operations.py, _writer_lock).
THEOREM TypeCorrect == Spec => []TypeOK
<1>1. ASSUME WorkspaceInv PROVE TypeOK
  <2>1. ASSUME NEW f \in LockFiles, holder[f] # None
        PROVE  pc[holder[f]] # "idle"
    BY <1>1, <2>1 DEF WorkspaceInv, HolderInv, Writing
  <2> QED
    BY <1>1, <2>1 DEF WorkspaceInv, FilesInv, ProcessInv, HolderInv, TypeOK, Database
<1> QED
  BY <1>1, Invariant, PTL

\* As long as no process has locked a file that is not the lock file any more,
\* at most one process is in the part of a command that the lock protects.
OneWriter ==
    ~strayed => \A p, q \in Processes : pc[p] \in Writing /\ pc[q] \in Writing => p = q

THEOREM WritersTakeTurns == Spec => []OneWriter
<1>1. WorkspaceInv => OneWriter
  BY OthersWait DEF OneWriter
<1> QED
  BY <1>1, Invariant, PTL

\* Nothing changes in the store but by a commit, and a rebuilt store has what
\* the store had.
LEMMA StoreContent ==
    ASSUME WorkspaceInv, Next, ~strayed, HasStore, HasStore'
    PROVE  \/ Current' = Current /\ States' = States
           \/ \E p \in Processes :
                 /\ pc[p] = "commit"
                 /\ op[p].file = store /\ store' = store
                 /\ databases' = [databases EXCEPT ![store] = Registered(@, op[p].next)]
<1>0. FilesInv /\ ProcessInv /\ NumberInv /\ KnownInv
      /\ store \in Numbers /\ databases[store].schema
  BY DEF WorkspaceInv, HasStore, FilesInv
<1>1. PICK p \in Processes : \/ BeginInit(p) \/ BeginRefresh(p) \/ BeginRebuild(p)
                             \/ BeginDelete(p) \/ Step(p) \/ Kill(p)
  BY DEF Next
<1>2. store' = store /\ databases'[store] = databases[store] => Current' = Current /\ States' = States
  BY DEF Current, States, HasStore
<1>3. CASE UNCHANGED <<databases, store>>
  BY <1>2, <1>3
<1>4. CASE RemoveStore(p) \/ MoveStore(p)
  BY <1>4 DEF RemoveStore, MoveStore, HasStore
<1>5. CASE Create(p)
  BY <1>0, <1>3, <1>5, Numbered DEF Create
<1>6. CASE CreateSchema(p)
  BY <1>0, <1>3, <1>6 DEF CreateSchema, KnownInv, Known
<1>7. CASE Commit(p)
  <2>1. pc[p] = "commit" /\ op[p].file = store /\ store' = store
    BY <1>0, <1>7 DEF Commit, KnownInv, Known
  <2> QED
    BY <1>3, <1>7, <2>1 DEF Commit
<1>8. CASE ReadSource(p)
  <2>1. op[p].number # store /\ store' = store
    BY <1>0, <1>8 DEF ReadSource, NumberInv
  <2>2. databases'[store] = databases[store]
    BY <1>0, <1>8, <2>1 DEF ReadSource, FilesInv
  <2> QED
    BY <1>2, <2>1, <2>2
<1>9. CASE ReplaceStore(p)
  <2>1. CASE store' = sibling /\ databases' = databases
    <3>1. sibling = op[p].number /\ databases[op[p].number] = databases[store]
      BY <1>0, <1>9 DEF ReplaceStore, KnownInv, Known
    <3>2. databases'[store'] = databases[store]
      BY <2>1, <3>1
    <3> QED
      BY <3>2 DEF Current, States, HasStore
  <2> QED
    BY <1>3, <1>9, <2>1 DEF ReplaceStore
<1> QED
  BY <1>1, <1>3, <1>4, <1>5, <1>6, <1>7, <1>8, <1>9, CommandsBegin
     DEF Step, OpenLock, Lock, Verify, Report, Cleanup, RemoveLock, Read, BuildSibling, Check,
         MoveLock, Kill, files

\* Coverage that was registered stays registered while there is a store, with
\* every state that was current, and is read from another export only by a
\* command that named the state it replaced: whatever is killed, rebuilt,
\* deleted or refused meanwhile (refresh, refresh --rebuild).
THEOREM CoverageOnlyGrows == Spec => CoverageGrows
<1>1. ASSUME WorkspaceInv, [Next]_vars, ~strayed
      PROVE  Grows
  <2> SUFFICES ASSUME HasStore, HasStore'
               PROVE  /\ States \subseteq States'
                      /\ \A k \in Keys : Current[k] # None =>
                            \/ Current'[k] = Current[k]
                            \/ /\ Current'[k] # None
                               /\ \E p \in Processes : pc[p] = "commit" /\ op[p].replace
                                                       /\ op[p].expect = Current
    BY DEF Grows
  <2>1. CASE Current' = Current /\ States' = States
    BY <2>1
  <2>2. ASSUME NEW p \in Processes, pc[p] = "commit", op[p].file = store, store' = store,
               databases' = [databases EXCEPT ![store] = Registered(@, op[p].next)]
        PROVE  /\ States \subseteq States'
               /\ \A k \in Keys : Current[k] # None =>
                     \/ Current'[k] = Current[k]
                     \/ Current'[k] # None /\ op[p].replace /\ op[p].expect = Current
    <3>0. /\ FilesInv /\ ProcessInv /\ KnownInv
          /\ store \in Numbers /\ databases[store] \in Database /\ op[p] \in Operations
      BY <1>1, <2>2 DEF WorkspaceInv, HasStore, FilesInv, ProcessInv
    <3>1. /\ op[p].export # None
          /\ ~Refuses(p, Current)
          /\ op[p].next = Refreshed(p, Current)
      BY <1>1, <2>2, <3>0 DEF KnownInv, Known, Current
    <3>2. databases'[store] = Registered(databases[store], op[p].next)
      BY <2>2, <3>0 DEF FilesInv
    <3>3. Current' = op[p].next /\ States' = States \cup {op[p].next}
      BY <2>2, <3>0, <3>2, RegisteredContent, FieldsOfOperations DEF Current, States
    <3>4. ASSUME NEW k \in Keys, Current[k] # None
          PROVE  \/ Current'[k] = Current[k]
                 \/ Current'[k] # None /\ op[p].replace /\ op[p].expect = Current
      <4>1. CASE k \notin op[p].keys
        BY <3>1, <3>3, <4>1 DEF Refreshed
      <4>2. CASE k \in op[p].keys /\ Current[k] # op[p].export
        <5>1. k \in Replaced(p, Current)
          BY <3>4, <4>2 DEF Replaced
        <5>2. op[p].replace /\ op[p].expect = Current
          BY <3>0, <3>1, <5>1, FieldsOfOperations DEF Refuses
        <5> QED
          BY <3>1, <3>3, <4>2, <5>2 DEF Refreshed
      <4>3. CASE k \in op[p].keys /\ Current[k] = op[p].export
        BY <3>1, <3>3, <4>3 DEF Refreshed
      <4> QED
        BY <4>1, <4>2, <4>3
    <3> QED
      BY <3>3, <3>4
  <2>3. CASE UNCHANGED vars
    BY <2>1, <2>3 DEF vars, files, Current, States, HasStore
  <2>4. CASE Next
    BY <1>1, <2>1, <2>2, <2>4, StoreContent
  <2> QED
    BY <1>1, <2>3, <2>4
<1>2. WorkspaceInv /\ [Next]_vars => [~strayed => Grows]_vars
  BY <1>1
<1> QED
  BY <1>2, Invariant, PTL DEF Spec, CoverageGrows

\* A store with coverage goes away only when a delete moves it that was told
\* the state it has at that moment, or a failed init removes it.
THEOREM DeletedOnlyAsExpected == Spec => DeletedAsExpected
<1>1. ASSUME WorkspaceInv, [Next]_vars, ~strayed
      PROVE  Stays
  <2> SUFFICES ASSUME Current # Nothing, store' = None
               PROVE  \E p \in Processes : \/ pc[p] = "movestore" /\ op[p].expect = Current
                                           \/ pc[p] = "removestore"
    BY DEF Stays
  <2>0. HasStore /\ store # None /\ KnownInv /\ ProcessInv
    BY <1>1 DEF Current, HasStore, WorkspaceInv
  <2>1. Next
    BY <1>1, <2>0 DEF vars, files
  <2>2. PICK p \in Processes : \/ BeginInit(p) \/ BeginRefresh(p) \/ BeginRebuild(p)
                               \/ BeginDelete(p) \/ Step(p) \/ Kill(p)
    BY <2>1 DEF Next
  <2>3. RemoveStore(p) \/ MoveStore(p)
    <3>1. ~Create(p)
      BY <2>0, FieldsOfOperations DEF Create, ProcessInv
    <3> QED
      BY <1>1, <2>0, <2>2, <3>1, CommandsBegin
         DEF Step, OpenLock, Lock, CreateSchema, Verify, Report, Cleanup, RemoveLock, Read, Commit,
             ReadSource, BuildSibling, ReplaceStore, Check, MoveLock, Kill, files
  <2>4. CASE RemoveStore(p)
    BY <2>4 DEF RemoveStore
  <2>5. CASE MoveStore(p)
    BY <1>1, <2>0, <2>5 DEF MoveStore, KnownInv, Known, Current
  <2> QED
    BY <2>3, <2>4, <2>5
<1>2. WorkspaceInv /\ [Next]_vars => [~strayed => Stays]_vars
  BY <1>1
<1> QED
  BY <1>2, Invariant, PTL DEF Spec, DeletedAsExpected
=============================================================================
