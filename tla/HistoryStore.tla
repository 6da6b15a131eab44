---------------------------- MODULE HistoryStore ----------------------------
(***************************************************************************)
(* The history files of rust/src/midend.rs (HistoryStore), one write at a  *)
(* time.  events.jsonl is appended to and synced; branches.json maps each  *)
(* branch to its newest event and is replaced by a rename that is not       *)
(* synced.  A process can be killed between, or in the middle of, any two   *)
(* writes, and the machine can lose power.                                 *)
(***************************************************************************)
EXTENDS Naturals, FiniteSets, SequencesExt

CONSTANTS
    Branches,    \* names a branch can have
    Main,        \* the branch of a new history
    Bodies,      \* the content of an event: see Tasks
    Tasks,       \* the bodies that are task events: a fork starts before one
    None,        \* no event (the head of an empty branch), or no append
    Broken,      \* the error of following parents that do not resolve
    MaxLines,    \* bound: lines of events.jsonl
    MaxCrashes,  \* bound: kills and power losses
    PowerLoss    \* whether the machine may lose power

ASSUME StoreConstants ==
    /\ Main \in Branches
    /\ Tasks \subseteq Bodies
    /\ MaxLines \in Nat /\ MaxCrashes \in Nat
    /\ PowerLoss \in BOOLEAN

VARIABLES
    lines,       \* events.jsonl: the last event written to each line, and how it reads
    terminated,  \* the last line ends with its newline
    synced,      \* number of lines that are on the disk for sure
    heads,       \* branches.json as the next read sees it
    diskHeads,   \* branches.json as a power loss would leave it
    append,      \* the append in progress, or None
    crashes,     \* kills and power losses so far
    \* For the properties, and read by no action:
    kept,        \* the head each branch had when chain() last could follow it
    diskKept     \* the same for diskHeads

vars == <<lines, terminated, synced, heads, diskHeads, append, crashes, kept, diskKept>>

EventId == Branches \X (1..MaxLines)
Event == [id : EventId, parent : EventId \cup {None}, branch : Branches, body : Bodies]
\* A line is one whole event, or text that is no event: text that events() fails
\* on, or bytes that are no UTF-8 (a character was cut), which it skips.
Line == [event : Event, reads : {"event", "error", "skipped"}]
Heads == UNION {[created -> EventId \cup {None}] : created \in SUBSET Branches}
\* The local variables of append(); "branches" is the map it has read.
Appends == [stage : {"write", "newline", "sync", "head"}, event : Event, branches : Heads]

ASSUME SpecialValues == None \notin EventId /\ None \notin Appends /\ Broken \notin Seq(Event)

-----------------------------------------------------------------------------
(* Reading *)

\* events() fails as a whole on a line of text that is no event. A line that is
\* no UTF-8 is an error of the reader, and the filter drops it.
Readable == \A i \in 1..Len(lines) : lines[i].reads # "error"

\* What events() returns: the lines among the first n that hold one event each.
EventLines(file, n) == {i \in 1..n : file[i].reads = "event"}
Count(file) == Cardinality(EventLines(file, Len(file)))

\* The line that by_id finds for an event id: the last one, 0 if there is none.
LineOf(file, id) ==
    LET places == {i \in EventLines(file, Len(file)) : file[i].event.id = id}
    IN  IF places = {} THEN 0 ELSE Max(places)

\* The loop of chain(), as the lines it visits, oldest first: the last is the
\* one found for the id, each of the others the one found for the parent of the
\* line after it, and the first has no parent.
IsWay(file, way, id) ==
    /\ way = <<>> <=> id = None
    /\ \A k \in 1..Len(way) :
         way[k] = LineOf(file, IF k = Len(way) THEN id ELSE file[way[k + 1]].event.parent)
    /\ way # <<>> => file[way[1]].event.parent = None

\* chain(): the events on the way to an id. A way that visits every line once
\* is as long as the file; where there is none, the code has met an event that
\* is missing or one it had met before.
ChainOf(file, id) ==
    LET ways == {way \in BoundedSeq(1..Len(file), Len(file)) : IsWay(file, way, id)}
    IN  IF ways = {} THEN Broken
        ELSE LET way == CHOOSE way \in ways : TRUE
             IN  [k \in 1..Len(way) |-> file[way[k]].event]

-----------------------------------------------------------------------------
(* Appending one event *)

\* Mutant: ids are counted from zero.
BeginAppendAtZero(b, body) ==
    /\ append = None /\ Readable /\ Len(lines) < MaxLines
    /\ append' = [stage |-> "write", branches |-> heads,
                  event |-> [id |-> <<b, Count(lines)>>, parent |-> heads[b],
                             branch |-> b, body |-> body]]
    /\ UNCHANGED <<lines, terminated, synced, heads, diskHeads, crashes, kept, diskKept>>

\* Mutant: the id counts the events of the branch, not those of the file.
BeginAppendOfBranch(b, body) ==
    /\ append = None /\ Readable /\ Len(lines) < MaxLines
    /\ append' = [stage |-> "write", branches |-> heads,
                  event |-> [id |-> <<b, Len(ChainOf(lines, heads[b])) + 1>>, parent |-> heads[b],
                             branch |-> b, body |-> body]]
    /\ UNCHANGED <<lines, terminated, synced, heads, diskHeads, crashes, kept, diskKept>>

\* Mutant: the parent is the head of the main branch, whatever the branch.
BeginAppendToMain(b, body) ==
    /\ append = None /\ Readable /\ Len(lines) < MaxLines
    /\ append' = [stage |-> "write", branches |-> heads,
                  event |-> [id |-> <<b, Count(lines) + 1>>, parent |-> heads[Main],
                             branch |-> b, body |-> body]]
    /\ UNCHANGED <<lines, terminated, synced, heads, diskHeads, crashes, kept, diskKept>>

\* append(), up to the first write: the whole history is read, the id is the
\* number of events plus one and the parent is the head of the branch. Whether
\* the branch can still be followed is not looked at.
BeginAppend(b, body) ==
    /\ append = None
    /\ Readable
    /\ Len(lines) < MaxLines
    /\ append' = [stage |-> "write", branches |-> heads,
                  event |-> [id |-> <<b, Count(lines) + 1>>, parent |-> heads[b],
                             branch |-> b, body |-> body]]
    /\ UNCHANGED <<lines, terminated, synced, heads, diskHeads, crashes, kept, diskKept>>

\* The bytes of an event go to the end of the file: a line of their own, or
\* more text on a line whose newline was never written, and which is one event
\* no more.
AddText(event, reads) ==
    LET n == Len(lines)
        joined == IF "skipped" \in {reads, lines[n].reads} THEN "skipped" ELSE "error"
    IN  lines' = IF terminated
                 THEN Append(lines, [event |-> event, reads |-> reads])
                 ELSE [lines EXCEPT ![n] = [event |-> event, reads |-> joined]]

WriteEvent ==
    /\ append # None /\ append.stage = "write"
    /\ AddText(append.event, "event")
    /\ terminated' = FALSE
    /\ append' = [append EXCEPT !.stage = "newline"]
    /\ UNCHANGED <<synced, heads, diskHeads, crashes, kept, diskKept>>

\* Mutant: the head is written without waiting for the sync.
WriteNewlineUnsynced ==
    /\ append # None /\ append.stage = "newline"
    /\ terminated' = TRUE
    /\ append' = [append EXCEPT !.stage = "head"]
    /\ UNCHANGED <<lines, synced, heads, diskHeads, crashes, kept, diskKept>>

WriteNewline ==
    /\ append # None /\ append.stage = "newline"
    /\ terminated' = TRUE
    /\ append' = [append EXCEPT !.stage = "sync"]
    /\ UNCHANGED <<lines, synced, heads, diskHeads, crashes, kept, diskKept>>

SyncEvents ==
    /\ append # None /\ append.stage = "sync"
    /\ synced' = Len(lines)
    /\ append' = [append EXCEPT !.stage = "head"]
    /\ UNCHANGED <<lines, terminated, heads, diskHeads, crashes, kept, diskKept>>

\* A head that chain() can follow is the one to keep. An event that ran into a
\* line that is no UTF-8 is not in the file, and its head leads nowhere.
KeepHead(event) ==
    kept' = IF ChainOf(lines, event.id) = Broken THEN kept
            ELSE [kept EXCEPT ![event.branch] = event.id]

\* Mutant: the map that is written holds the branch of the event and no other.
WriteHeadAlone ==
    /\ append # None /\ append.stage = "head"
    /\ heads' = [b \in {append.event.branch} |-> append.event.id]
    /\ KeepHead(append.event)
    /\ append' = None
    /\ UNCHANGED <<lines, terminated, synced, diskHeads, crashes, diskKept>>

\* write_branches: the map read at the beginning, with the new head, replaces
\* the file. The rename is atomic for other processes; nothing syncs it.
WriteHead ==
    /\ append # None /\ append.stage = "head"
    /\ heads' = [append.branches EXCEPT ![append.event.branch] = append.event.id]
    /\ KeepHead(append.event)
    /\ append' = None
    /\ UNCHANGED <<lines, terminated, synced, diskHeads, crashes, diskKept>>

\* fork(): a new branch whose head is the parent of a task event of the source.
Fork(s, t) ==
    /\ append = None
    /\ Readable
    /\ s \in DOMAIN heads
    /\ t \in Branches \ DOMAIN heads
    /\ LET source == ChainOf(lines, heads[s])
       IN  /\ source # Broken
           /\ \E i \in 1..Len(source) :
                /\ source[i].body \in Tasks
                /\ \A j \in 1..(i - 1) : source[j].body # source[i].body
                /\ heads' = [b \in DOMAIN heads \cup {t} |->
                               IF b = t THEN source[i].parent ELSE heads[b]]
                /\ kept' = [b \in DOMAIN kept \cup {t} |->
                               IF b = t THEN source[i].parent ELSE kept[b]]
    /\ UNCHANGED <<lines, terminated, synced, diskHeads, append, crashes, diskKept>>

-----------------------------------------------------------------------------
(* The operating system, and failures *)

\* The operating system writes branches.json back when it likes.
WriteBackHeads ==
    /\ PowerLoss
    /\ diskHeads # heads
    /\ diskHeads' = heads /\ diskKept' = kept
    /\ UNCHANGED <<lines, terminated, synced, heads, append, crashes, kept>>

\* The process is killed in an append. In the middle of the write it leaves
\* half a line: the event is written in many small writes, and text that is no
\* ASCII is written as it is, so that a character can be cut.
KillProcess ==
    /\ append # None
    /\ crashes < MaxCrashes
    /\ \/ UNCHANGED <<lines, terminated>>
       \/ /\ append.stage = "write"
          /\ \E reads \in {"error", "skipped"} : AddText(append.event, reads)
          /\ terminated' = FALSE
    /\ append' = None
    /\ crashes' = crashes + 1
    /\ UNCHANGED <<synced, heads, diskHeads, kept, diskKept>>

\* The machine loses power: lines that were not synced may be gone or cut
\* short, and branches.json is the one that had reached the disk.
LosePower ==
    /\ PowerLoss
    /\ crashes < MaxCrashes
    /\ \E n \in synced..Len(lines) :
         \/ /\ lines' = SubSeq(lines, 1, n)
            /\ terminated' \in IF n = synced THEN {n < Len(lines) \/ terminated}
                               ELSE {terminated, FALSE}
         \/ /\ n > synced
            /\ \E reads \in {"error", "skipped"} :
                 lines' = [SubSeq(lines, 1, n) EXCEPT ![n].reads = reads]
            /\ terminated' = FALSE
    /\ synced' = IF terminated' THEN Len(lines') ELSE Len(lines') - 1
    /\ heads' = diskHeads /\ kept' = diskKept
    /\ append' = None
    /\ crashes' = crashes + 1
    /\ UNCHANGED <<diskHeads, diskKept>>

-----------------------------------------------------------------------------
\* open(): a new history has one empty branch.
Init ==
    /\ lines = <<>> /\ terminated = TRUE /\ synced = 0
    /\ heads = [b \in {Main} |-> None]
    /\ diskHeads = heads /\ kept = heads /\ diskKept = heads
    /\ append = None
    /\ crashes = 0

Next ==
    \/ \E b \in DOMAIN heads, body \in Bodies : BeginAppend(b, body)
    \/ WriteEvent \/ WriteNewline \/ SyncEvents \/ WriteHead
    \/ \E s, t \in Branches : Fork(s, t)
    \/ WriteBackHeads
    \/ KillProcess
    \/ LosePower

Spec == Init /\ [][Next]_vars

-----------------------------------------------------------------------------
(* Properties *)

\* Every variable has its type; an append in progress knows its event and the
\* branch map it read.
TypeOK ==
    /\ lines \in Seq(Line) /\ Len(lines) <= MaxLines
    /\ terminated \in BOOLEAN
    /\ synced \in 0..Len(lines)
    /\ heads \in Heads /\ diskHeads \in Heads
    /\ kept \in [DOMAIN heads -> EventId \cup {None}]
    /\ diskKept \in [DOMAIN diskHeads -> EventId \cup {None}]
    /\ append \in Appends \cup {None}
    /\ crashes \in 0..MaxCrashes

\* Whichever branches.json a kill or a power loss leaves, HistoryStore::chain can
\* follow its heads, over lines that are whole events and on the disk already
\* (append syncs the event before the head). The exception is a branch of which
\* an event ran into a line that a kill or a power loss had left unfinished: that
\* event is on no line of its own, and its branch is never followed again.
HeadsResolve ==
    \A hs \in {heads, diskHeads} : \A b \in DOMAIN hs :
        LET c == ChainOf(lines, hs[b])
        IN  IF c = Broken
            THEN \E i \in 1..synced : lines[i].reads # "event" /\ lines[i].event.branch = b
            ELSE \A i \in 1..Len(c) : LineOf(lines, c[i].id) \in 1..synced

\* No two lines that events() returns have the same event id, although the id is
\* only a count, interrupted appends, forks and lost heads leave lines no branch
\* leads to, and events are lost in the line they ran into.
EventIdsUnique ==
    \A i, j \in EventLines(lines, Len(lines)) :
        lines[i].event.id = lines[j].event.id => i = j

\* Without a power loss no head goes back, whatever is killed: a branch is
\* extended by one event at most, and stays. (The refinement below allows a
\* power loss in every step, this does not.)
HeadsKept ==
    [][ \/ PowerLoss /\ append' = None /\ heads' = diskHeads /\ crashes' > crashes
        \/ \A b \in DOMAIN heads :
             /\ b \in DOMAIN heads'
             /\ \/ heads'[b] = heads[b]
                \/ \E i \in 1..Len(lines) :
                     lines[i].event.id = heads'[b] /\ lines[i].event.parent = heads[b]
      ]_vars

\* What the files hold: the bodies of the events of every branch.
BodiesOf(events) == [i \in 1..Len(events) |-> events[i].body]
History(file, hs) ==
    [b \in Branches |-> IF b \in DOMAIN hs THEN BodiesOf(ChainOf(file, hs[b])) ELSE <<>>]

\* The files implement the ledger: every branch keeps its events through kills
\* and, as far as branches.json had reached the disk, through power losses. An
\* event that is lost in a line it ran into is not one of the ledger, which can no
\* longer be read as a whole then.
Ledger == INSTANCE DecisionLedger WITH
    Events <- Bodies,
    HeadsMayBeLost <- PowerLoss,
    created <- DOMAIN heads,
    chain <- History(lines, kept),
    readable <- Readable /\ heads = kept

ImplementsLedger == Ledger!Spec
=============================================================================
