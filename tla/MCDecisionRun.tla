---------------------------- MODULE MCDecisionRun ----------------------------
(***************************************************************************)
(* DecisionRun with two connections of one candidate each.  The candidate  *)
(* of either is a name the other does not admit; connection 2 shares an    *)
(* edge with candidate k1, so a decision for k1 is relevant to it and an   *)
(* unresolved one is not.                                                  *)
(***************************************************************************)
EXTENDS DecisionRun

CONSTANTS k1, k2, main, alternative, report, other

MCAdmitted == <<{k1}, {k2}>>
MCNeighbours == <<{1}, {2}>>
MCOverlaps == {<<2, k1>>}

\* A live run with both providers; the permission varies.
LiveRun(b, provisional) ==
    [branch |-> b, report |-> report, live |-> TRUE, provisional |-> provisional,
     classifier |-> TRUE, specialist |-> TRUE]

\* One branch: live runs with and without permission, a deterministic run, and
\* a run with another report.
MCOneBranch ==
    {LiveRun(main, TRUE), LiveRun(main, FALSE),
     [LiveRun(main, FALSE) EXCEPT !.live = FALSE],
     [LiveRun(main, TRUE) EXCEPT !.report = other]}

\* Two branches and two reports: live runs with permission and no specialist.
MCTwoBranches ==
    LET classifierOnly(b) == [LiveRun(b, TRUE) EXCEPT !.specialist = FALSE]
    IN  {classifierOnly(main), classifierOnly(alternative),
         [classifierOnly(main) EXCEPT !.report = other]}
=============================================================================
