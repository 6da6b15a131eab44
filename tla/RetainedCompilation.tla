------------------------- MODULE RetainedCompilation -------------------------
(***************************************************************************)
(* Compilations over a shared artifact store, while other processes        *)
(* compile or collect garbage: IncrementalDAGResolver                      *)
(* (src/satn/incremental_dag.py), which resolves any stages in topological *)
(* order, and the compilation of src/satn/pipeline.py, which does the same *)
(* for a chain of stages, but first looks for what is pinned for its       *)
(* input, decodes what it finds, and pins what it makes.                   *)
(***************************************************************************)
EXTENDS RetainedArtifacts

VARIABLES
    late,      \* for the properties only: what was pinned when it was already
               \* listed by a collection, or gone
    contested  \* for the properties only: what two collections listed at once, or
               \* one listed that was undone while its collector was at work

allVars == <<vars, late, contested>>

Operation(next) ==
    [number |-> started + 1, next |-> next, left |-> {}, tx |-> 0, then |-> "raise",
     todo |-> {}, moved |-> {},
     plan |-> None, input |-> None, decodes |-> FALSE, forced |-> {}, results |-> <<>>,
     invalid |-> {}, built |-> {}, made |-> None, rejected |-> None]

\* The stages of S and those made from them, directly or not.
Behind(S) ==
    LET After[n \in 0..Len(Stages)] ==
            IF n = 0 THEN S
            ELSE After[n - 1] \cup {s \in Names : Dependencies[s] \cap After[n - 1] # {}}
    IN  After[Len(Stages)]
Descendants(s) == Behind({s}) \ {s}
ForcedBy(requested) == Behind(requested)

\* Mutant: the manifest does not name the artifacts it was made from.
SpecificationUnbound(input, stage, artifacts) ==
    [stage |-> stage, version |-> Version[input][stage], upstream |-> {}]

\* What a stage is made from: the artifacts of the stages before it.
Specification(input, stage, artifacts) ==
    [stage |-> stage, version |-> Version[input][stage],
     upstream |-> {a \in artifacts : a.stage \in Dependencies[stage]}]

NextStage(p) == Stages[Len(op[p].results) + 1]
Wanted(p) == Specification(op[p].input, NextStage(p), Range(op[p].results))

\* A compilation of the pipeline that is forced to make a stage again does not
\* look for what is pinned.
BeginCompile(p, input, requested, decodes) ==
    /\ pc[p] = "idle" /\ started < MaxOperations
    /\ LET first == IF decodes /\ requested = {} THEN "lineage" ELSE "lookup"
       IN  op' = [op EXCEPT ![p] = [Operation(first) EXCEPT
                     !.input = input, !.decodes = decodes, !.forced = ForcedBy(requested)]]
    /\ Goes(p, "open")
    /\ started' = started + 1
    /\ UNCHANGED <<disk, crashes>>

BeginCollect(p) ==
    /\ pc[p] = "idle" /\ started < MaxOperations
    /\ op' = [op EXCEPT ![p] = Operation("plan")]
    /\ Goes(p, "open")
    /\ started' = started + 1
    /\ UNCHANGED <<disk, crashes>>

Continues(p, results) ==
    Goes(p, IF Len(results) < Len(Stages) THEN "lookup"
            ELSE IF op[p].decodes THEN "pin" ELSE "publish")
Rejects(p, a, next) ==
    /\ op' = [op EXCEPT ![p].rejected = a, ![p].next = next]
    /\ Goes(p, "reject")
\* The decoder of the pipeline reads what a resolution or a put returned.
Fails(p, a) == op[p].decodes /\ a \in altered
\* What the next stage is, after a hit and after a build.
Hit(p, a) ==
    LET results == Append(op[p].results, a)
    IN  op' = [op EXCEPT ![p].results = results] /\ Continues(p, results)
Built(p, a) ==
    LET results == Append(op[p].results, a)
    IN  /\ op' = [op EXCEPT ![p].results = results, ![p].made = None,
                            ![p].built = @ \cup {a.stage},
                            ![p].invalid = @ \cup Descendants(a.stage)]
        /\ Continues(p, results)

\* Mutant: a stage is looked up also when it was to be made again.
LookupUnguarded(p) ==
    /\ pc[p] = "lookup"
    /\ Search(Wanted(p))
    /\ IF \E a \in stored : IsOnly(Wanted(p), a)
       THEN \E a \in Candidates(Wanted(p)) :
                IF Fails(p, a) THEN Rejects(p, a, "build") ELSE Hit(p, a)
       ELSE Goes(p, "build") /\ UNCHANGED op
    /\ UNCHANGED <<started, crashes>>

\* A stage that is not forced, nor behind one that was made anew, is looked up.
\* Of several artifacts of the specification none is taken.
Lookup(p) ==
    /\ pc[p] = "lookup"
    /\ IF NextStage(p) \in op[p].forced \cup op[p].invalid
       THEN Goes(p, "build") /\ UNCHANGED <<op, disk>>
       ELSE /\ Search(Wanted(p))
            /\ IF \E a \in stored : IsOnly(Wanted(p), a)
               THEN \E a \in Candidates(Wanted(p)) :
                        IF Fails(p, a) THEN Rejects(p, a, "build") ELSE Hit(p, a)
               ELSE Goes(p, "build") /\ UNCHANGED op
    /\ UNCHANGED <<started, crashes>>

\* The pipeline gives up if what it made was there before and cannot be decoded,
\* and looks the artifact of the last stage up before it decodes it.
Decoded(p, a) == IF Fails(p, a) THEN Rejects(p, a, "idle") ELSE Built(p, a)
Put(p, a, Returned) ==
    IF op[p].decodes /\ NextStage(p) = Last(Stages)
    THEN op' = [op EXCEPT ![p].made = a] /\ Goes(p, "confirm")
    ELSE Returned

\* The builder makes one of its outputs. A builder of the resolver can fail to
\* read an artifact it is made from, which may be gone.
Build(p) ==
    /\ pc[p] = "build"
    /\ \/ ~op[p].decodes /\ Wanted(p).upstream \ stored # {}
          /\ EndsNow(p) /\ UNCHANGED disk
       \/ \E output \in Outputs[NextStage(p)] :
             LET a == Artifact(Wanted(p), output)
             IN  PutExisting(p, a, Put(p, a, Decoded(p, a)))
    /\ UNCHANGED <<started, crashes>>

Rename(p) ==
    /\ pc[p] = "rename"
    /\ PutRename(p, op[p].made, Put(p, op[p].made, Built(p, op[p].made)))
    /\ UNCHANGED <<started, crashes>>

\* What the last stage of the pipeline made is only kept if a search finds it,
\* and nothing else.
Confirm(p) ==
    /\ pc[p] = "confirm"
    /\ Search(Wanted(p))
    /\ IF IsOnly(Wanted(p), op[p].made) THEN Decoded(p, op[p].made) ELSE EndsNow(p)
    /\ UNCHANGED <<started, crashes>>

-----------------------------------------------------------------------------
(* The pipeline alone: the pin of an input *)

\* The artifact that is pinned leads to one of every stage.
HasEveryStage(a) == {b.stage : b \in Closure(a)} = Names

\* The artifacts of a pinned compilation in the order of the stages.
InOrder(a) == [n \in DOMAIN Stages |-> CHOOSE b \in Closure(a) : b.stage = Stages[n]]
IsOf(a, input) == \A b \in Closure(a) : b.version = Version[input][b.stage]

\* It is decoded stage by stage. A stage other than the first is searched for
\* before, and must be the only one of its specification.
Settled(a, n) == n = 1 \/ IsOnly(SpecificationOf(InOrder(a)[n]), InOrder(a)[n])
\* The stages up to the first that cannot be taken.
Examined(a) ==
    {n \in DOMAIN Stages : \A m \in 1..(n - 1) : Settled(a, m) /\ InOrder(a)[m] \notin altered}

\* _prepare_active_semantic_reuse: what is pinned for the input is taken if it
\* resolves, was made from this input, is unambiguous and can be decoded.
Lineage(p) ==
    /\ pc[p] = "lineage"
    /\ LET a == pins[op[p].input]
           last == Max(Examined(a))
       IN  IF a = None THEN Goes(p, "lookup") /\ UNCHANGED <<op, disk>>
           ELSE IF ~(Resolves(a) /\ HasEveryStage(a) /\ IsOf(a, op[p].input))
           THEN Resolve(a) /\ Goes(p, "lookup") /\ UNCHANGED op
           ELSE /\ Quarantine(UNION {Searched(SpecificationOf(InOrder(a)[n])) :
                                        n \in Examined(a) \ {1}})
                /\ IF ~Settled(a, last) THEN Goes(p, "lookup") /\ UNCHANGED op
                   ELSE IF InOrder(a)[last] \in altered
                   THEN Rejects(p, InOrder(a)[last], "lookup")
                   ELSE op' = [op EXCEPT ![p].results = InOrder(a)] /\ Goes(p, "publish")
    /\ UNCHANGED <<started, crashes>>

\* pin: the artifact is resolved, then the record is written.
Pin(p) ==
    /\ pc[p] = "pin"
    /\ LET a == Last(op[p].results)
       IN  /\ Resolve(a)
           /\ IF Resolves(a) THEN Goes(p, "writepin") /\ UNCHANGED op ELSE EndsNow(p)
    /\ UNCHANGED <<started, crashes>>

Listed == UNION {staging[t].ids : t \in {u \in Transactions : staging[u] # None}}
WritePin(p) ==
    /\ pc[p] = "writepin"
    /\ LET a == Last(op[p].results)
       IN  /\ pins' = [pins EXCEPT ![op[p].input] = a]
           /\ late' = late \cup {b \in Closure(a) : b \in Listed \/ b \notin stored}
    /\ EndsNow(p)
    /\ UNCHANGED <<stored, damaged, illegible, altered, old, quarantine, staging, started, crashes, contested>>

Collector(t) == {p \in Processes : pc[p] # "idle" /\ op[p].tx = t /\ op[p].then # "recover"}

Contest(p) ==
    /\ \/ Collect(p) /\ contested' = contested \cup (IF pc'[p] = "idle" THEN {}
                                                     ELSE Listed \cap op[p].plan.candidates)
       \/ Recover(p) /\ contested' = contested \cup
              (IF pc'[p] = "restore" /\ Collector(op'[p].tx) # {}
               THEN staging[op'[p].tx].ids ELSE {})
    /\ UNCHANGED late

-----------------------------------------------------------------------------
\* A compilation that has what it needs without a pin of its own ends.
Publish(p) ==
    /\ pc[p] = "publish"
    /\ EndsNow(p)
    /\ UNCHANGED <<disk, started, crashes>>

\* What a compilation of an input makes when the store is empty, and its
\* builders make these outputs.
FromNothing(input, outputs) ==
    LET Made[n \in 0..Len(Stages)] ==
            IF n = 0 THEN <<>>
            ELSE Append(Made[n - 1],
                        Artifact(Specification(input, Stages[n], Range(Made[n - 1])),
                                 outputs[Stages[n]]))
    IN  Made[Len(Stages)]
Builders == {outputs \in [Names -> UNION {Outputs[s] : s \in Names}] :
               \A s \in Names : outputs[s] \in Outputs[s]}
Compilations == [i \in Inputs |-> {FromNothing(i, outputs) : outputs \in Builders}]

\* What the variables are made of.
Artifacts == UNION {UNION {Range(results) : results \in Compilations[i]} : i \in Inputs}
Directories == [state : {"none", "moving", "committed"},
                ids : SUBSET Artifacts, held : SUBSET Artifacts]
Plans == [reachable : SUBSET Artifacts, candidates : SUBSET Artifacts]
Operations ==
    [number : 1..MaxOperations, next : {"lineage", "lookup", "build", "plan", "idle"},
     left : SUBSET Transactions, tx : 0..MaxOperations, then : {"raise", "done", "recover"},
     todo : SUBSET (Artifacts \cup {TransactionFile}), moved : SUBSET Artifacts,
     plan : Plans \cup {None}, input : Inputs \cup {None}, decodes : BOOLEAN,
     forced : SUBSET Names, results : Seq(Artifacts), invalid : SUBSET Names,
     built : SUBSET Names, made : Artifacts \cup {None}, rejected : Artifacts \cup {None}]

ASSUME NoneIsNothing ==
    /\ None \notin Artifacts \cup Inputs
    /\ None \notin Directories /\ None \notin Plans /\ None \notin Operations

\* What compilations that ended, or were killed, have left longer ago than the
\* grace period, and what they have pinned. The files of one artifact may have
\* changed since, so that it is seen or not.
Init ==
    /\ stored \in {S \in SUBSET Artifacts :
                      Cardinality(S) <= MaxOld /\ \A a \in S : a.upstream \subseteq S}
    /\ pins \in {kept \in [Inputs -> stored \cup {None}] : \A i \in Inputs :
                    kept[i] # None => kept[i] \in {Last(results) : results \in Compilations[i]}}
    /\ \E changed \in {{}} \cup {{a} : a \in stored}, seen \in {"no", "files", "manifest"} :
         /\ damaged = IF seen = "no" THEN {} ELSE changed
         /\ illegible = IF seen = "manifest" THEN changed ELSE {}
         /\ altered = changed \ damaged
    /\ old = stored
    /\ quarantine = {}
    /\ staging = [t \in Transactions |-> None]
    /\ pc = [p \in Processes |-> "idle"]
    /\ op = [p \in Processes |-> None]
    /\ started = 0 /\ crashes = 0
    /\ late = {} /\ contested = {}

Compile(p) == Lineage(p) \/ Lookup(p) \/ Build(p) \/ Rename(p) \/ Confirm(p) \/ Pin(p) \/ Publish(p)
Begin(p) ==
    \/ \E i \in Inputs, requested \in {{}, Names} \cup {{s} : s \in Names}, decodes \in BOOLEAN :
           BeginCompile(p, i, requested, decodes)
    \/ BeginCollect(p)

Next == \E p \in Processes :
    \/ (Begin(p) \/ Store(p) \/ Compile(p) \/ Kill(p)) /\ UNCHANGED <<late, contested>>
    \/ Contest(p)
    \/ WritePin(p)

Spec == Init /\ [][Next]_allVars
-----------------------------------------------------------------------------
(* Properties *)

IsArtifact(a) ==
    /\ a.stage \in Names /\ a.output \in Outputs[a.stage]
    /\ {b.stage : b \in a.upstream} = Dependencies[a.stage]

\* The variables have the types their comments say: every artifact, wherever
\* it is, was made from artifacts of exactly the stages its own depends on.
TypeOK ==
    /\ \A a \in ClosureOf(stored \cup quarantine \cup late \cup Roots) : IsArtifact(a)
    /\ illegible \subseteq damaged /\ damaged \subseteq stored /\ old \subseteq stored
    /\ quarantine \cap stored = {}
    /\ \A t \in Transactions : staging[t] # None =>
          staging[t].held \subseteq staging[t].ids
    /\ \A p \in Processes : pc[p] = "idle" <=> op[p] = None
    /\ started \in 0..MaxOperations /\ crashes \in 0..MaxCrashes

\* What is pinned, and all it was made from, stays in place while processes
\* compile, collect, are killed and recover each other's collections. The
\* exceptions are what was found damaged, until it is made again, and what was
\* pinned too late.
PinnedStays ==
    \A a \in Reachable : a \in stored \cup quarantine \cup late

\* What a compilation has not made anew.
Reused(p) ==
    {op[p].results[n] : n \in {m \in DOMAIN op[p].results : Stages[m] \notin op[p].built}}

\* What a compilation reuses it was not told to make again, and all it was made
\* from is reused as well: one stage made anew, for whatever reason, and nothing
\* behind it is taken from the store, not even what was made from that artifact.
ReusedFromReused ==
    \A p \in Processes : pc[p] # "idle" /\ op[p].input # None =>
        \A a \in Reused(p) : a.stage \notin op[p].forced /\ Closure(a) \subseteq Reused(p)

\* However stages were found, made, forced or made again, what a compilation has,
\* and pins at the end, is what one compilation from nothing makes: never an
\* artifact that was made from others than those it has itself, although the
\* store may keep several for every stage. Nothing is reused behind what was
\* made anew, and the pipeline has nothing that was altered before it began.
CompiledAsFromNothing ==
    /\ \A p \in Processes : pc[p] # "idle" /\ op[p].input # None =>
          /\ \E results \in Compilations[op[p].input] : IsPrefix(op[p].results, results)
          /\ op[p].decodes => Range(op[p].results) \cap altered = {}
    /\ \A i \in Inputs : pins[i] # None =>
          pins[i] \in {Last(results) : results \in Compilations[i]}
    /\ ReusedFromReused

\* A collection that was not committed takes nothing away: when its collector
\* is gone, all it listed is in place or in its directory, also while it is
\* being undone, unless several processes collected or undid it at once.
InterruptedIsWhole ==
    \A t \in Transactions :
        staging[t] # None /\ staging[t].state = "moving" /\ Collector(t) = {} =>
            staging[t].ids \subseteq stored \cup staging[t].held \cup quarantine \cup contested

\* What is pinned is retained (ADR 0019): nothing but damage takes it away.
PinnedIsRetained == \A a \in Reachable : a \in stored \cup quarantine
=============================================================================
