----------------------- MODULE MCRetainedCompilation -------------------------
(***************************************************************************)
(* Two stages, of which the second is made from the first, and two inputs  *)
(* that differ in the first stage only.  The builder of the last stage can *)
(* make two outputs.                                                       *)
(***************************************************************************)
EXTENDS RetainedCompilation, TLC

CONSTANTS Route, Bundle, i1, i2, only, o1, o2

MCStages == <<Route, Bundle>>
MCDependencies == [s \in {Route, Bundle} |-> IF s = Route THEN {} ELSE {Route}]
MCVersion == [i \in {i1, i2} |-> [s \in {Route, Bundle} |-> IF s = Route THEN i ELSE s]]
MCOutputs == [s \in {Route, Bundle} |-> IF s = Route THEN {only} ELSE {o1, o2}]

\* Processes are alike, and so are inputs and outputs; every property of the run is a
\* state predicate.
Symmetry == Permutations(Processes) \cup Permutations(Inputs) \cup Permutations({o1, o2})
=============================================================================
