--------------------------- MODULE DecisionLedger ---------------------------
(***************************************************************************)
(* What the decision history of the native compiler promises its users: a  *)
(* branch is a sequence of events that only ever gets longer, a new branch *)
(* starts as a prefix of an existing one, and an interruption costs at     *)
(* most the ability to read the whole history, never an event that was on  *)
(* a branch.  HistoryStore (the files) and DecisionRun (the runs that use  *)
(* them) are both shown to implement it, and so is PlanningRuntime, whose  *)
(* history is another program's with the same promises.                    *)
(***************************************************************************)
EXTENDS Naturals, SequencesExt

CONSTANTS
    Branches,       \* names a branch can have
    Main,           \* the branch a new history starts with
    Events,         \* what one line of the history can record
    HeadsMayBeLost  \* TRUE: a power loss can bring back an older branches.json

VARIABLES
    created,        \* branches that exist
    chain,          \* chain[b]: the events of b, oldest first
    readable        \* every line can be parsed, and every branch followed

vars == <<created, chain, readable>>

Init ==
    /\ created = {Main}
    /\ chain = [b \in Branches |-> <<>>]
    /\ readable = TRUE

\* One event is added to the end of one branch. If the previous line was left
\* without its newline the two lines run together and nothing can be read.
AppendTo(b) ==
    /\ b \in created
    /\ Len(chain'[b]) = Len(chain[b]) + 1
    /\ Last(chain'[b]) \in Events
    /\ chain' = [chain EXCEPT ![b] = Append(@, Last(chain'[b]))]
    /\ readable' \in {readable, FALSE}
    /\ UNCHANGED created

\* A branch is created from the first n events of another.
ForkFrom(s, t) ==
    /\ s \in created
    /\ t \in Branches \ created
    /\ created' = created \cup {t}
    /\ \E n \in 0..Len(chain[s]) :
         chain' = [chain EXCEPT ![t] = SubSeq(chain[s], 1, n)]
    /\ UNCHANGED readable

\* A process killed in the middle of a write leaves half a line, which nothing
\* can be read past; or one that is skipped and swallows the event after it, whose
\* branch can then be followed no more.
TearLine ==
    /\ readable' = FALSE
    /\ UNCHANGED <<created, chain>>

\* A power loss: every head goes back to one that had reached the disk, and
\* half a line that no branch leads to may be gone.
LoseHeads ==
    /\ HeadsMayBeLost
    /\ created' \subseteq created
    /\ Main \in created'
    /\ \A b \in Branches : IsPrefix(chain'[b], chain[b])
    /\ readable' \in BOOLEAN

Next ==
    \/ \E b \in Branches : AppendTo(b)
    \/ \E s, t \in Branches : ForkFrom(s, t)
    \/ TearLine
    \/ LoseHeads

Spec == Init /\ [][Next]_vars
=============================================================================
