---------------------------- MODULE MCRuralSequence ----------------------------
(***************************************************************************)
(* RuralSequence with five communities. 1 can only be joined to the spine; *)
(* 2 to it or, nearer, to 1; 3 to 2 or, further away, to 1; 4 only to 3; 5  *)
(* to 1 or to the spine, where the spine dominates.  What happens to 2     *)
(* decides what 3 is offered, and what happens to 3 whether 4 is a gap.    *)
(***************************************************************************)
EXTENDS RuralSequence

Link(c, t, length) == [from |-> c, to |-> t, length |-> length]

MCLinks == {Link(1, Spine, 1), Link(2, Spine, 5), Link(2, 1, 2), Link(3, 2, 1),
            Link(3, 1, 7), Link(4, 3, 1), Link(5, Spine, 9), Link(5, 1, 8)}

MCTownward == <<<<>>, <<Spine>>, <<1>>, <<3>>, <<Spine>>>>
MCDominates == {<<5, Spine, 1>>}
MCInexactEntry == {<<3, 1>>}
MCInexactLength == {<<3, 2>>}

\* Live runs with both providers, with and without permission, and a
\* deterministic run.
Live(provisional) ==
    [live |-> TRUE, provisional |-> provisional, classifier |-> TRUE, specialist |-> TRUE]
MCSettings == {Live(TRUE), Live(FALSE), [Live(FALSE) EXCEPT !.live = FALSE]}
=============================================================================
