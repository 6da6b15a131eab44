---------------------- MODULE RetainedCompilation_proofs ----------------------
(***************************************************************************)
(* Theorems about RetainedCompilation, for any stages, inputs, processes,  *)
(* operations and processes that are killed.                               *)
(***************************************************************************)
EXTENDS RetainedCompilation, SequenceTheorems, WellFoundedInduction, TLAPS

-----------------------------------------------------------------------------
(* The inductive invariant *)

Opening == {"open", "recover", "restore", "list", "remove", "rollback"}
Compiling == {"lineage", "lookup", "build", "rename", "confirm", "pin", "writepin", "publish"}
Collecting == {"plan", "collect", "transaction", "move"}
Steps == {"idle", "reject"} \cup Opening \cup Compiling \cup Collecting

\* The files are what their comments say.
FileTypes ==
    /\ stored \subseteq Artifacts /\ quarantine \subseteq Artifacts
    /\ altered \subseteq Artifacts
    /\ illegible \subseteq damaged /\ damaged \subseteq stored /\ old \subseteq stored
    /\ quarantine \cap stored = {}
    /\ staging \in [Transactions -> Directories \cup {None}]
    /\ \A t \in Transactions : staging[t] # None => staging[t].held \subseteq staging[t].ids
    /\ pins \in [Inputs -> Artifacts \cup {None}]
    /\ late \subseteq Artifacts /\ contested \subseteq Artifacts
    /\ started \in 0..MaxOperations /\ crashes \in 0..MaxCrashes

ProcessTypes ==
    /\ pc \in [Processes -> Steps]
    /\ op \in [Processes -> Operations \cup {None}]
    /\ \A p \in Processes : pc[p] = "idle" <=> op[p] = None

TypeInv == FileTypes /\ ProcessTypes

\* The beginning of a compilation of an input: each artifact was made from those
\* before it.
MadeAt(i, s, n) ==
    \E output \in Outputs[Stages[n]] :
        s[n] = Artifact(Specification(i, Stages[n], {s[m] : m \in 1..(n - 1)}), output)
IsBegun(i, s) ==
    /\ \E S : s \in Seq(S)
    /\ Len(s) <= Len(Stages)
    /\ \A n \in 1..Len(s) : MadeAt(i, s, n)

\* What the operation o makes next.
Wants(o) == Specification(o.input, Stages[Len(o.results) + 1], Range(o.results))

\* What o made anew it has. Nothing behind that may be reused. What it reused was
\* not forced, and no stage it depends on was made anew.
Reuses(o) ==
    /\ o.built \subseteq {Stages[m] : m \in 1..Len(o.results)}
    /\ \A n \in 1..Len(o.results) :
          IF Stages[n] \in o.built THEN Descendants(Stages[n]) \subseteq o.invalid
          ELSE /\ Stages[n] \notin o.forced
               /\ \A m \in 1..(n - 1) :
                     Stages[m] \in Dependencies[Stages[n]] => Stages[m] \notin o.built

\* A compilation has the first artifacts of its input, none of them altered if
\* it decodes them, and at each step as many as the step needs.
Compiles(p) ==
    /\ pc[p] \in Opening => op[p].next \in {"lineage", "lookup", "plan"}
    /\ pc[p] \in Collecting => op[p].next = "plan"
    /\ pc[p] \in Opening /\ op[p].next # "plan" => op[p].input \in Inputs /\ op[p].results = <<>>
    /\ pc[p] \in Compiling \cup {"reject"} => op[p].input \in Inputs
    /\ pc[p] = "lineage" => op[p].results = <<>>
    /\ pc[p] = "lineage" \/ (pc[p] \in Opening /\ op[p].next = "lineage") =>
          op[p].forced = {} /\ op[p].built = {}
    /\ pc[p] \in {"lookup", "build", "rename", "confirm"} => Len(op[p].results) < Len(Stages)
    /\ pc[p] \in {"rename", "confirm"} =>
          op[p].made \in Artifacts /\ SpecificationOf(op[p].made) = Wants(op[p])
    /\ pc[p] \in {"pin", "writepin"} => Len(op[p].results) = Len(Stages)
    /\ pc[p] = "reject" =>
          /\ op[p].rejected \in Artifacts /\ op[p].next \in {"lookup", "build", "idle"}
          /\ op[p].next # "idle" => Len(op[p].results) < Len(Stages)
    /\ op[p].input # None =>
          /\ IsBegun(op[p].input, op[p].results)
          /\ Reuses(op[p])
          /\ op[p].decodes => Range(op[p].results) \cap altered = {}

CompileInv ==
    /\ \A p \in Processes : pc[p] # "idle" => Compiles(p)
    /\ \A i \in Inputs : pins[i] # None =>
          pins[i] \in {Last(results) : results \in Compilations[i]}

\* A collection works on the directory of its own number, a recovery on that of another
\* one.
Collects(p) ==
    /\ op[p].number <= started /\ op[p].tx <= started
    /\ pc[p] = "collect" => op[p].plan # None
    /\ pc[p] \in {"open", "reject", "plan", "collect"} \cup Compiling =>
          op[p].tx = 0 /\ op[p].then = "raise"
    /\ pc[p] = "recover" => op[p].tx = 0 /\ op[p].then # "done"
    /\ pc[p] = "restore" => op[p].then = "recover" /\ op[p].tx # 0
    /\ pc[p] \in {"restore", "transaction", "move"} => op[p].todo \subseteq Artifacts
    /\ pc[p] \in {"transaction", "move", "rollback"} =>
          op[p].then = "done" /\ op[p].tx = op[p].number
    /\ pc[p] \in {"list", "remove"} =>
          op[p].tx # 0 /\ (op[p].then = "recover" \/ op[p].tx = op[p].number)
    /\ pc[p] \in {"restore", "list", "remove"} /\ op[p].then = "recover" =>
          op[p].tx # op[p].number

\* Operations have different numbers, and before a collection has made its
\* directory nobody works on it.
NumberInv ==
    /\ \A t \in Transactions : staging[t] # None => t <= started
    /\ \A p \in Processes : pc[p] # "idle" =>
          /\ Collects(p)
          /\ \A q \in Processes : pc[q] # "idle" /\ q # p => op[q].number # op[p].number
          /\ op[p].tx # op[p].number =>
                /\ staging[op[p].number] = None
                /\ \A q \in Processes : pc[q] # "idle" => op[q].tx # op[p].number

\* What a collection has listed is what it moved and what it has yet to move.
Moves(p) ==
    /\ pc[p] = "transaction" =>
          /\ staging[op[p].tx] # None /\ staging[op[p].tx].state = "none"
          /\ op[p].moved = {}
          /\ \A q \in Processes : pc[q] # "idle" /\ q # p => op[q].tx # op[p].tx
    /\ pc[p] \in {"transaction", "move"} =>
          /\ op[p].todo \cap damaged = {}
          /\ staging[op[p].tx] # None =>
                staging[op[p].tx].ids = op[p].todo \cup op[p].moved
    /\ pc[p] \in {"list", "remove", "rollback"} /\ op[p].then = "done"
       /\ staging[op[p].tx] # None =>
          op[p].moved \subseteq staging[op[p].tx].ids
MoveInv == \A p \in Processes : pc[p] # "idle" => Moves(p)

\* What is pinned is in place, and a collection only lists it if it was pinned late.
PinInv ==
    /\ PinnedStays
    /\ Reachable \cap Listed \subseteq late

\* Not lost, wherever the directories are.
Safe == stored \cup quarantine \cup contested

\* What of a collection that was not committed may only be in its directory.
Unsettled(p) ==
    IF pc[p] \in {"move", "rollback"} THEN op[p].moved
    ELSE IF pc[p] = "restore" THEN op[p].todo
    ELSE {}

Settles(p) ==
    staging[op[p].tx] # None =>
        /\ pc[p] = "transaction" => staging[op[p].tx].ids \subseteq Safe
        /\ staging[op[p].tx].state = "moving" =>
              /\ ~(pc[p] \in {"list", "remove"} /\ op[p].then = "done")
              /\ staging[op[p].tx].ids \subseteq Safe \cup Unsettled(p)

WholeInv ==
    /\ \A t, u \in Transactions : staging[t] # None /\ staging[u] # None /\ t # u =>
          staging[t].ids \cap staging[u].ids \subseteq contested
    /\ \A t \in Transactions : staging[t] # None /\ staging[t].state = "moving" =>
          staging[t].ids \subseteq Safe \cup staging[t].held
    /\ \A p \in Processes : pc[p] # "idle" /\ op[p].tx # 0 =>
          /\ Settles(p)
          /\ \A q \in Processes : /\ pc[q] # "idle" /\ q # p /\ op[q].tx = op[p].tx
                                  /\ op[p].then # "recover" /\ staging[op[p].tx] # None
                 => staging[op[p].tx].ids \subseteq contested

RetainedInv == TypeInv /\ CompileInv /\ NumberInv /\ MoveInv /\ PinInv /\ WholeInv

-----------------------------------------------------------------------------
(* The recursive functions, without induction: the first place at which a  *)
(* statement about one fails would follow a place at which it holds.       *)

\* Every nonempty set of naturals has a least element.
LEMMA LeastNatural ==
    ASSUME NEW T, T \subseteq Nat, T # {}
    PROVE  \E x \in T : \A y \in T : x <= y
<1> DEFINE Less == OpToRel(<, Nat)
<1>1. IsWellFoundedOn(Less, Nat)
  BY NatLessThanWellFounded
<1>2. Less = {pair \in Nat \X Nat : pair[1] < pair[2]}
  BY DEF OpToRel
<1> HIDE DEF Less
<1>3. PICK x \in T : \A y \in T : <<y, x>> \notin Less
  BY <1>1, WFMin
<1>4. \A y \in T : x <= y
  <2> SUFFICES ASSUME NEW y \in T PROVE x <= y
    OBVIOUS
  <2>1. x \in Nat /\ y \in Nat
    OBVIOUS
  <2>2. ~(y < x)
    BY <1>2, <1>3, <2>1
  <2> QED
    BY <2>1, <2>2
<1> QED
  BY <1>4

\* A set of numbers that has 0 and the next of each it has, up to n, has them all.
LEMMA UpTo ==
    ASSUME NEW n \in Nat, NEW T, 0 \in T, \A k \in 1..n : k - 1 \in T => k \in T
    PROVE  0..n \subseteq T
<1> SUFFICES ASSUME ~(0..n \subseteq T) PROVE FALSE
  OBVIOUS
<1> DEFINE Missing == {k \in 0..n : k \notin T}
<1>1. PICK m \in Missing : \A k \in Missing : m <= k
  <2>1. Missing \subseteq Nat /\ Missing # {}
    OBVIOUS
  <2> HIDE DEF Missing
  <2> QED
    BY <2>1, LeastNatural
<1>2. m \in 1..n /\ m - 1 \in 0..n /\ m - 1 < m
  OBVIOUS
<1>3. m - 1 \in T
  BY <1>1, <1>2
<1> QED
  BY <1>1, <1>2, <1>3

\* What ClosureOf computes in n rounds.
IsAbove(f, S, n) ==
    f = [k \in 0..n |-> IF k = 0 THEN S ELSE f[k - 1] \cup UNION {a.upstream : a \in f[k - 1]}]

LEMMA AboveExists ==
    ASSUME NEW S, NEW n \in Nat
    PROVE  \E f : IsAbove(f, S, n)
<1> DEFINE T == {k \in Nat : \E f : IsAbove(f, S, k)}
<1>1. 0 \in T
  <2> DEFINE f == [k \in 0..0 |-> S]
  <2>1. IsAbove(f, S, 0)
    BY DEF IsAbove
  <2> QED
    BY <2>1
<1>2. ASSUME NEW k \in 1..n, k - 1 \in T PROVE k \in T
  <2>1. PICK f : IsAbove(f, S, k - 1)
    BY <1>2
  <2> DEFINE above == f[k - 1] \cup UNION {a.upstream : a \in f[k - 1]}
             g == [m \in 0..k |-> IF m = k THEN above ELSE f[m]]
  <2>2. IsAbove(g, S, k)
    <3>1. \A m \in 0..(k - 1) : f[m] =
             IF m = 0 THEN S ELSE f[m - 1] \cup UNION {a.upstream : a \in f[m - 1]}
      BY <2>1 DEF IsAbove
    <3>2. \A m \in 0..k : m # 0 => g[m - 1] = f[m - 1]
      OBVIOUS
    <3>3. \A m \in 0..k : g[m] =
             IF m = 0 THEN S ELSE g[m - 1] \cup UNION {a.upstream : a \in g[m - 1]}
      <4> SUFFICES ASSUME NEW m \in 0..k
                   PROVE  g[m] = IF m = 0 THEN S
                                 ELSE g[m - 1] \cup UNION {a.upstream : a \in g[m - 1]}
        OBVIOUS
      <4>1. CASE m = k
        <5>1. g[m] = f[k - 1] \cup UNION {a.upstream : a \in f[k - 1]} /\ m # 0
          BY <4>1
        <5>2. g[m - 1] = f[k - 1]
          BY <3>2, <4>1, <5>1
        <5> HIDE DEF g
        <5> QED
          BY <5>1, <5>2
      <4>2. CASE m # k
        <5>1. m \in 0..(k - 1) /\ g[m] = f[m] /\ (m # 0 => g[m - 1] = f[m - 1])
          BY <3>2, <4>2
        <5> HIDE DEF g
        <5> QED
          BY <3>1, <5>1
      <4> QED
        BY <4>1, <4>2
    <3> QED
      BY <3>3 DEF IsAbove
  <2> QED
    BY <2>2
<1>3. 0..n \subseteq T
  <2> HIDE DEF T
  <2> QED
    BY <1>1, <1>2, UpTo
<1> QED
  BY <1>3

LEMMA ClosureIs ==
    ASSUME NEW S
    PROVE  \E f : /\ f[0] = S /\ ClosureOf(S) = f[Len(Stages)]
                  /\ \A k \in 1..Len(Stages) :
                        f[k] = f[k - 1] \cup UNION {a.upstream : a \in f[k - 1]}
<1> DEFINE f == CHOOSE g : IsAbove(g, S, Len(Stages))
<1>1. IsAbove(f, S, Len(Stages))
  BY AboveExists, StoreConstants
<1>2. ClosureOf(S) = f[Len(Stages)]
  BY DEF ClosureOf, IsAbove
<1> HIDE DEF f
<1>3. f[0] = S /\ \A k \in 1..Len(Stages) :
                     f[k] = f[k - 1] \cup UNION {a.upstream : a \in f[k - 1]}
  <2>1. \A k \in 0..Len(Stages) :
           f[k] = IF k = 0 THEN S ELSE f[k - 1] \cup UNION {a.upstream : a \in f[k - 1]}
    BY <1>1 DEF IsAbove
  <2>2. 0 \in 0..Len(Stages) /\ \A k \in 1..Len(Stages) : k \in 0..Len(Stages) /\ k # 0
    BY StoreConstants
  <2> QED
    BY <2>1, <2>2
<1> QED
  BY <1>2, <1>3

\* The closure of a set is in every set that has it and all that its members were made from.
LEMMA ClosureWithin ==
    ASSUME NEW S, NEW X, S \subseteq X, \A a \in X : a.upstream \subseteq X
    PROVE  ClosureOf(S) \subseteq X
<1>1. PICK f : /\ f[0] = S /\ ClosureOf(S) = f[Len(Stages)]
               /\ \A k \in 1..Len(Stages) :
                     f[k] = f[k - 1] \cup UNION {a.upstream : a \in f[k - 1]}
  BY ClosureIs
<1> DEFINE T == {k \in 0..Len(Stages) : f[k] \subseteq X}
<1>2. 0 \in T
  BY <1>1, StoreConstants
<1>3. \A k \in 1..Len(Stages) : k - 1 \in T => k \in T
  BY <1>1, StoreConstants
<1>4. 0..Len(Stages) \subseteq T
  <2> HIDE DEF T
  <2> QED
    BY <1>2, <1>3, UpTo, StoreConstants
<1> QED
  BY <1>1, <1>4, StoreConstants

\* What is made from members of two sets is made from one or the other.
LEMMA ClosureSplits ==
    ASSUME NEW S, NEW T, NEW U, U \subseteq S \cup T
    PROVE  ClosureOf(U) \subseteq ClosureOf(S) \cup ClosureOf(T)
<1>1. PICK f : /\ f[0] = S /\ ClosureOf(S) = f[Len(Stages)]
               /\ \A k \in 1..Len(Stages) :
                     f[k] = f[k - 1] \cup UNION {a.upstream : a \in f[k - 1]}
  BY ClosureIs
<1>2. PICK g : /\ g[0] = T /\ ClosureOf(T) = g[Len(Stages)]
               /\ \A k \in 1..Len(Stages) :
                     g[k] = g[k - 1] \cup UNION {a.upstream : a \in g[k - 1]}
  BY ClosureIs
<1>3. PICK h : /\ h[0] = U /\ ClosureOf(U) = h[Len(Stages)]
               /\ \A k \in 1..Len(Stages) :
                     h[k] = h[k - 1] \cup UNION {a.upstream : a \in h[k - 1]}
  BY ClosureIs
<1> DEFINE Good == {k \in 0..Len(Stages) : h[k] \subseteq f[k] \cup g[k]}
<1>4. 0 \in Good
  BY <1>1, <1>2, <1>3, StoreConstants
<1>5. ASSUME NEW k \in 1..Len(Stages), k - 1 \in Good PROVE k \in Good
  <2>1. k \in 0..Len(Stages) /\ h[k - 1] \subseteq f[k - 1] \cup g[k - 1]
    BY <1>5, StoreConstants
  <2> QED
    BY <1>1, <1>2, <1>3, <2>1
<1>6. 0..Len(Stages) \subseteq Good
  <2> HIDE DEF Good
  <2> QED
    BY <1>4, <1>5, UpTo, StoreConstants
<1> QED
  BY <1>1, <1>2, <1>3, <1>6, StoreConstants

\* The stages that are made from one of X.
Dependents(X) == {s \in Names : Dependencies[s] \cap X # {}}

\* What Behind computes in n rounds.
IsAfter(f, S, n) ==
    f = [k \in 0..n |-> IF k = 0 THEN S
                        ELSE f[k - 1] \cup Dependents(f[k - 1])]

LEMMA AfterExists ==
    ASSUME NEW S, NEW n \in Nat
    PROVE  \E f : IsAfter(f, S, n)
<1> DEFINE T == {k \in Nat : \E f : IsAfter(f, S, k)}
<1>1. 0 \in T
  <2> DEFINE f == [k \in 0..0 |-> S]
  <2>1. IsAfter(f, S, 0)
    BY DEF IsAfter
  <2> QED
    BY <2>1
<1>2. ASSUME NEW k \in 1..n, k - 1 \in T PROVE k \in T
  <2>1. PICK f : IsAfter(f, S, k - 1)
    BY <1>2
  <2> DEFINE With(X) == X \cup Dependents(X)
             g == [m \in 0..k |-> IF m = k THEN With(f[k - 1]) ELSE f[m]]
  <2>2. \A m \in 0..(k - 1) : f[m] = IF m = 0 THEN S ELSE With(f[m - 1])
    BY <2>1 DEF IsAfter
  <2>3. \A m \in 0..k : m # 0 => g[m - 1] = f[m - 1]
    OBVIOUS
  <2> HIDE DEF With
  <2>4. ASSUME NEW m \in 0..k PROVE g[m] = IF m = 0 THEN S ELSE With(g[m - 1])
    <3>1. CASE m = k
      <4>1. g[m] = With(f[k - 1]) /\ m # 0
        BY <3>1
      <4>2. g[m - 1] = f[k - 1]
        BY <2>3, <3>1, <4>1
      <4> HIDE DEF g
      <4> QED
        BY <4>1, <4>2
    <3>2. CASE m # k
      <4>1. m \in 0..(k - 1) /\ g[m] = f[m] /\ (m # 0 => g[m - 1] = f[m - 1])
        BY <2>3, <3>2
      <4> HIDE DEF g
      <4> QED
        BY <2>2, <4>1
    <3> QED
      BY <3>1, <3>2
  <2>5. g = [m \in 0..k |-> IF m = 0 THEN S ELSE With(g[m - 1])]
    BY <2>4
  <2> HIDE DEF g
  <2>6. IsAfter(g, S, k)
    BY <2>5 DEF IsAfter, With
  <2> QED
    BY <2>6
<1>3. 0..n \subseteq T
  <2> HIDE DEF T
  <2> QED
    BY <1>1, <1>2, UpTo
<1> QED
  BY <1>3

LEMMA BehindIs ==
    ASSUME NEW S
    PROVE  \E f : /\ f[0] = S /\ Behind(S) = f[Len(Stages)]
                  /\ \A k \in 1..Len(Stages) :
                        f[k] = f[k - 1] \cup Dependents(f[k - 1])
<1> DEFINE f == CHOOSE g : IsAfter(g, S, Len(Stages))
<1>1. IsAfter(f, S, Len(Stages))
  BY AfterExists, StoreConstants
<1>2. Behind(S) = f[Len(Stages)]
  BY DEF Behind, IsAfter, Dependents
<1> HIDE DEF f
<1>3. f[0] = S /\ \A k \in 1..Len(Stages) :
                     f[k] = f[k - 1] \cup Dependents(f[k - 1])
  <2>1. \A k \in 0..Len(Stages) :
           f[k] = IF k = 0 THEN S
                  ELSE f[k - 1] \cup Dependents(f[k - 1])
    BY <1>1 DEF IsAfter
  <2>2. 0 \in 0..Len(Stages) /\ \A k \in 1..Len(Stages) : k \in 0..Len(Stages) /\ k # 0
    BY StoreConstants
  <2> QED
    BY <2>1, <2>2
<1> QED
  BY <1>2, <1>3

\* What is behind stages of X, where X has all stages that depend on one of it.
LEMMA BehindWithin ==
    ASSUME NEW S, NEW X, S \subseteq X, \A s \in Names : Dependencies[s] \cap X # {} => s \in X
    PROVE  Behind(S) \subseteq X
<1>1. PICK f : /\ f[0] = S /\ Behind(S) = f[Len(Stages)]
               /\ \A k \in 1..Len(Stages) :
                     f[k] = f[k - 1] \cup Dependents(f[k - 1])
  BY BehindIs
<1> DEFINE T == {k \in 0..Len(Stages) : f[k] \subseteq X}
<1>2. 0 \in T
  BY <1>1, StoreConstants
<1>3. ASSUME NEW k \in 1..Len(Stages), k - 1 \in T PROVE k \in T
  <2>1. f[k - 1] \subseteq X /\ k \in 0..Len(Stages)
    BY <1>3, StoreConstants
  <2>2. Dependents(f[k - 1]) \subseteq X
    BY <2>1 DEF Dependents
  <2> QED
    BY <1>1, <2>1, <2>2
<1>4. 0..Len(Stages) \subseteq T
  <2> HIDE DEF T
  <2> QED
    BY <1>2, <1>3, UpTo, StoreConstants
<1> QED
  BY <1>1, <1>4, StoreConstants

LEMMA BehindNames ==
    ASSUME NEW S, S \subseteq Names
    PROVE  Behind(S) \subseteq Names
BY BehindWithin

LEMMA BehindNothing == Behind({}) = {}
BY BehindWithin

\* A stage that depends on another is behind it.
LEMMA DependentIsBehind ==
    ASSUME NEW d, NEW s \in Names, d \in Dependencies[s], s # d
    PROVE  s \in Descendants(d)
<1>1. PICK f : /\ f[0] = {d} /\ Behind({d}) = f[Len(Stages)]
               /\ \A k \in 1..Len(Stages) :
                     f[k] = f[k - 1] \cup Dependents(f[k - 1])
  BY BehindIs
<1> DEFINE T == {k \in 0..Len(Stages) : d \in f[k] /\ (k # 0 => s \in f[k])}
<1>2. 0 \in T
  BY <1>1, StoreConstants
<1>3. ASSUME NEW k \in 1..Len(Stages), k - 1 \in T PROVE k \in T
  <2>1. d \in f[k - 1] /\ k \in 0..Len(Stages)
    BY <1>3, StoreConstants
  <2>2. s \in Dependents(f[k - 1])
    BY <2>1 DEF Dependents
  <2> QED
    BY <1>1, <2>1, <2>2
<1>4. 0..Len(Stages) \subseteq T
  <2> HIDE DEF T
  <2> QED
    BY <1>2, <1>3, UpTo, StoreConstants
<1>5. Len(Stages) \in T /\ Len(Stages) # 0
  BY <1>4, StoreConstants
<1> QED
  BY <1>1, <1>5 DEF Descendants

\* What a compilation from nothing makes in n stages.
Made(i, c, n, before) == Artifact(Specification(i, Stages[n], before), c[Stages[n]])
IsMade(f, i, c, n) ==
    f = [k \in 0..n |-> IF k = 0 THEN <<>>
                        ELSE Append(f[k - 1], Made(i, c, k, Range(f[k - 1])))]

LEMMA MadeExists ==
    ASSUME NEW i, NEW c, NEW n \in Nat
    PROVE  \E f : IsMade(f, i, c, n)
<1> DEFINE T == {k \in Nat : \E f : IsMade(f, i, c, k)}
<1>1. 0 \in T
  <2> DEFINE f == [k \in 0..0 |-> <<>>]
  <2>1. IsMade(f, i, c, 0)
    BY DEF IsMade
  <2> QED
    BY <2>1
<1>2. ASSUME NEW k \in 1..n, k - 1 \in T PROVE k \in T
  <2>1. PICK f : IsMade(f, i, c, k - 1)
    BY <1>2
  <2> DEFINE Next1(s, m) == Append(s, Made(i, c, m, Range(s)))
             g == [m \in 0..k |-> IF m = k THEN Next1(f[k - 1], k) ELSE f[m]]
  <2>2. IsMade(g, i, c, k)
    <3>1. \A m \in 0..(k - 1) : f[m] = IF m = 0 THEN <<>> ELSE Next1(f[m - 1], m)
      BY <2>1 DEF IsMade
    <3>2. \A m \in 0..k : m # 0 => g[m - 1] = f[m - 1]
      OBVIOUS
    <3>3. \A m \in 0..k : g[m] = IF m = 0 THEN <<>> ELSE Next1(g[m - 1], m)
      <4> SUFFICES ASSUME NEW m \in 0..k
                   PROVE  g[m] = IF m = 0 THEN <<>> ELSE Next1(g[m - 1], m)
        OBVIOUS
      <4> HIDE DEF Next1
      <4>1. CASE m = k
        <5>1. g[m] = Next1(f[k - 1], k) /\ m # 0
          BY <4>1
        <5>2. g[m - 1] = f[k - 1]
          BY <3>2, <4>1, <5>1
        <5> HIDE DEF g
        <5> QED
          BY <4>1, <5>1, <5>2
      <4>2. CASE m # k
        <5>1. m \in 0..(k - 1) /\ g[m] = f[m] /\ (m # 0 => g[m - 1] = f[m - 1])
          BY <3>2, <4>2
        <5> HIDE DEF g
        <5> QED
          BY <3>1, <5>1
      <4> QED
        BY <4>1, <4>2
    <3>4. g = [m \in 0..k |-> IF m = 0 THEN <<>> ELSE Next1(g[m - 1], m)]
      <4> HIDE DEF Next1
      <4> QED
        BY <3>3
    <3> HIDE DEF g
    <3> QED
      BY <3>4 DEF IsMade
  <2> QED
    BY <2>2
<1>3. 0..n \subseteq T
  <2> HIDE DEF T
  <2> QED
    BY <1>1, <1>2, UpTo
<1> QED
  BY <1>3

\* A compilation from nothing makes one artifact of each stage, from those before it.
LEMMA MadeIs ==
    ASSUME NEW i, NEW c
    PROVE  /\ \E S : FromNothing(i, c) \in Seq(S)
           /\ Len(FromNothing(i, c)) = Len(Stages) /\ DOMAIN FromNothing(i, c) = 1..Len(Stages)
           /\ \A n \in 1..Len(Stages) :
                 FromNothing(i, c)[n] =
                     Made(i, c, n, {FromNothing(i, c)[m] : m \in 1..(n - 1)})
<1> DEFINE N == Len(Stages)
           f == CHOOSE g : IsMade(g, i, c, Len(Stages))
           e(k) == Made(i, c, k, Range(f[k - 1]))
           S == {e(k) : k \in 1..N}
<1>0. N \in Nat \ {0}
  BY StoreConstants
<1>1. IsMade(f, i, c, N)
  BY MadeExists, StoreConstants
<1>2. FromNothing(i, c) = f[N]
  BY DEF FromNothing, IsMade, Made
<1> HIDE DEF f, N
<1>3. f[0] = <<>> /\ \A k \in 1..N : f[k] = Append(f[k - 1], e(k))
  <2>1. \A k \in 0..N : f[k] = IF k = 0 THEN <<>> ELSE Append(f[k - 1], e(k))
    BY <1>1 DEF IsMade
  <2>2. 0 \in 0..N /\ \A k \in 1..N : k \in 0..N /\ k # 0
    BY <1>0
  <2> HIDE DEF e
  <2> QED
    BY <2>1, <2>2
<1> DEFINE Good(k) == f[k] \in Seq(S) /\ Len(f[k]) = k
                      /\ \A m \in 1..k : f[k][m] = e(m)
           T == {k \in 0..N : Good(k)}
<1> HIDE DEF e
<1>4. \A k \in 1..N : e(k) \in S
  OBVIOUS
<1> HIDE DEF S
<1>5. 0 \in T
  <2>1. <<>> \in Seq(S) /\ Len(<<>>) = 0
    BY EmptySeq
  <2>2. Good(0)
    BY <1>3, <2>1
  <2> QED
    BY <1>0, <2>2
<1>6. ASSUME NEW k \in 1..N, k - 1 \in T PROVE k \in T
  <2>1. f[k - 1] \in Seq(S) /\ Len(f[k - 1]) = k - 1 /\ k \in 0..N
        /\ \A m \in 1..(k - 1) : f[k - 1][m] = e(m)
    BY <1>0, <1>6
  <2>2. f[k] = Append(f[k - 1], e(k)) /\ e(k) \in S
    BY <1>3, <1>4
  <2> DEFINE s == f[k - 1]
             x == e(k)
  <2>3. s \in Seq(S) /\ x \in S
    BY <2>1, <2>2
  <2> HIDE DEF s, x
  <2>4. Append(s, x) \in Seq(S) /\ Len(Append(s, x)) = Len(s) + 1
        /\ (\A m \in 1..Len(s) : Append(s, x)[m] = s[m]) /\ Append(s, x)[Len(s) + 1] = x
    BY <2>3, AppendProperties
  <2>5. Len(s) + 1 = k /\ Len(s) = k - 1
    BY <2>1 DEF s
  <2>6. f[k] = Append(s, x)
    BY <2>2 DEF s, x
  <2>7. \A m \in 1..k : f[k][m] = e(m)
    <3> SUFFICES ASSUME NEW m \in 1..k PROVE f[k][m] = e(m)
      OBVIOUS
    <3>1. CASE m = k
      BY <2>4, <2>5, <2>6, <3>1 DEF x
    <3>2. CASE m # k
      <4>1. m \in 1..(k - 1)
        BY <3>2
      <4> QED
        BY <2>1, <2>4, <2>5, <2>6, <4>1 DEF s
    <3> QED
      BY <3>1, <3>2
  <2>8. Good(k)
    BY <2>4, <2>5, <2>6, <2>7
  <2> QED
    BY <2>1, <2>8
<1>7. \A k \in 0..N : Good(k)
  <2>1. 0..N \subseteq T
    <3> HIDE DEF T
    <3> QED
      BY <1>0, <1>5, <1>6, UpTo
  <2> QED
    BY <2>1
<1>8. Good(N)
  BY <1>0, <1>7
<1>9. ASSUME NEW n \in 1..N
      PROVE  FromNothing(i, c)[n] = Made(i, c, n, {FromNothing(i, c)[m] : m \in 1..(n - 1)})
  <2>1. n - 1 \in 0..N /\ \A m \in 1..(n - 1) : m \in 1..N
    BY <1>0
  <2>2. Good(n - 1)
    BY <1>7, <2>1
  <2>3. DOMAIN f[n - 1] = 1..(n - 1)
    BY <2>1, <2>2, LenProperties
  <2>4. \A m \in 1..(n - 1) : f[n - 1][m] = FromNothing(i, c)[m]
    BY <1>2, <1>8, <2>1, <2>2
  <2>5. Range(f[n - 1]) = {FromNothing(i, c)[m] : m \in 1..(n - 1)}
    BY <2>3, <2>4 DEF Range
  <2>6. FromNothing(i, c)[n] = e(n)
    BY <1>2, <1>8
  <2> QED
    BY <2>5, <2>6 DEF e
<1>10. DOMAIN FromNothing(i, c) = 1..N /\ FromNothing(i, c) \in Seq(S) /\ Len(FromNothing(i, c)) = N
  BY <1>2, <1>8, LenProperties
<1> QED
  BY <1>9, <1>10 DEF N

-----------------------------------------------------------------------------
(* Artifacts *)

\* The sequence s is a beginning of t.
LEMMA PrefixIs ==
    ASSUME NEW S, NEW T, NEW s \in Seq(S), NEW t \in Seq(T)
    PROVE  IsPrefix(s, t) <=> Len(s) <= Len(t) /\ \A m \in 1..Len(s) : s[m] = t[m]
<1>1. Len(s) \in Nat /\ Len(t) \in Nat
  BY LenProperties
<1>2. SubSeq(s, 1, Len(s)) = [m \in 1..Len(s) |-> s[m]]
  BY <1>1
<1>3. Len(s) <= Len(t) => SubSeq(t, 1, Len(s)) = [m \in 1..Len(s) |-> t[m]]
  BY <1>1
<1> QED
  BY <1>2, <1>3 DEF IsPrefix

\* The beginnings of an input are the beginnings of what compilations from
\* nothing make of it: for the outputs it has there are builders that make them.
LEMMA BegunIsMade ==
    ASSUME NEW i, NEW s, IsBegun(i, s)
    PROVE  \E c \in Builders : \A n \in 1..Len(s) : s[n] = FromNothing(i, c)[n]
<1> DEFINE At(x) == CHOOSE n \in 1..Len(s) : Stages[n] = x
           Has(x) == \E n \in 1..Len(s) : Stages[n] = x
           c == [x \in Names |-> IF Has(x) THEN s[At(x)].output ELSE CHOOSE o \in Outputs[x] : TRUE]
           Before(n) == {s[m] : m \in 1..(n - 1)}
           Spec1(n) == Specification(i, Stages[n], Before(n))
<1>0. PICK S : s \in Seq(S)
  BY DEF IsBegun
<1>1. Len(s) \in Nat /\ Len(Stages) \in Nat /\ Len(s) <= Len(Stages)
  BY <1>0, LenProperties, StoreConstants DEF IsBegun
<1>2. ASSUME NEW n \in 1..Len(s)
      PROVE  s[n].output \in Outputs[Stages[n]] /\ s[n] = Artifact(Spec1(n), s[n].output)
  <2>1. PICK o \in Outputs[Stages[n]] : s[n] = Artifact(Spec1(n), o)
    BY DEF IsBegun, MadeAt
  <2> HIDE DEF Spec1
  <2>2. s[n].output = o
    BY <2>1 DEF Artifact
  <2> QED
    BY <2>1, <2>2
<1>3. ASSUME NEW n \in 1..Len(s) PROVE Stages[n] \in Names /\ At(Stages[n]) = n /\ Has(Stages[n])
  <2>1. \A m \in 1..Len(s) : m \in DOMAIN Stages
    BY <1>1, StoreConstants
  <2>2. \A m \in 1..Len(s) : Stages[m] = Stages[n] => m = n
    BY <2>1, StoreConstants
  <2> QED
    BY <2>1, <2>2 DEF Names, Range
<1> HIDE DEF At, Has
<1>4. \A n \in 1..Len(s) : c[Stages[n]] = s[n].output
  BY <1>3
<1>5. c \in Builders
  <2>1. ASSUME NEW x \in Names PROVE c[x] \in Outputs[x]
    <3>1. CASE Has(x)
      <4>1. PICK n \in 1..Len(s) : Stages[n] = x
        BY <3>1 DEF Has
      <4> QED
        BY <1>2, <1>4, <4>1
    <3>2. CASE ~Has(x)
      BY <3>2, StoreConstants
    <3> QED
      BY <3>1, <3>2
  <2> HIDE DEF c
  <2>2. \A x \in Names : c[x] \in UNION {Outputs[y] : y \in Names}
    BY <2>1
  <2>3. c \in [Names -> UNION {Outputs[y] : y \in Names}]
    BY <2>2 DEF c
  <2> QED
    BY <2>1, <2>3 DEF Builders
<1> HIDE DEF c
<1> DEFINE F(n) == FromNothing(i, c)[n]
           T == {k \in 0..Len(s) : \A m \in 1..k : s[m] = F(m)}
<1>6. ASSUME NEW k \in 1..Len(s), \A m \in 1..(k - 1) : s[m] = F(m) PROVE s[k] = F(k)
  <2>1. F(k) = Made(i, c, k, {F(m) : m \in 1..(k - 1)})
    BY <1>1, MadeIs
  <2>2. {F(m) : m \in 1..(k - 1)} = Before(k)
    <3> HIDE DEF F
    <3> QED
      BY <1>6
  <2>3. s[k] = Artifact(Spec1(k), c[Stages[k]])
    BY <1>2, <1>4
  <2> HIDE DEF F, Before
  <2> QED
    BY <2>1, <2>2, <2>3 DEF Made
<1> HIDE DEF F
<1>7. 0 \in T
  BY <1>1
<1>8. ASSUME NEW k \in 1..Len(s), k - 1 \in T PROVE k \in T
  <2>1. \A m \in 1..(k - 1) : s[m] = F(m)
    BY <1>8
  <2>2. s[k] = F(k)
    BY <1>6, <2>1
  <2>3. \A m \in 1..k : m = k \/ m \in 1..(k - 1)
    OBVIOUS
  <2> QED
    BY <1>1, <2>1, <2>2, <2>3
<1>9. 0..Len(s) \subseteq T
  <2> HIDE DEF T
  <2> QED
    BY <1>1, <1>7, <1>8, UpTo
<1>10. \A n \in 1..Len(s) : s[n] = F(n)
  BY <1>1, <1>9
<1> QED
  BY <1>5, <1>10 DEF F

\* So they are prefixes of them, and the complete ones are compilations.
LEMMA BegunIsPrefix ==
    ASSUME NEW i \in Inputs, NEW s, IsBegun(i, s)
    PROVE  /\ \E results \in Compilations[i] : IsPrefix(s, results)
           /\ Len(s) = Len(Stages) => s \in Compilations[i]
<1>1. PICK S : s \in Seq(S)
  BY DEF IsBegun
<1>2. PICK c \in Builders : \A n \in 1..Len(s) : s[n] = FromNothing(i, c)[n]
  BY BegunIsMade
<1> DEFINE r == FromNothing(i, c)
<1>3. PICK T : r \in Seq(T)
  BY MadeIs
<1>4. Len(r) = Len(Stages) /\ Len(s) <= Len(Stages)
  BY MadeIs DEF IsBegun
<1>5. r \in Compilations[i]
  BY DEF Compilations
<1>6. \A n \in 1..Len(s) : s[n] = r[n]
  BY <1>2
<1> HIDE DEF r
<1>7. IsPrefix(s, r)
  BY <1>1, <1>3, <1>4, <1>6, PrefixIs
<1>8. Len(s) = Len(Stages) => s = r
  <2>1. s \in Seq(S \cup T) /\ r \in Seq(S \cup T)
    BY <1>1, <1>3, SeqMonotonic
  <2> QED
    BY <1>4, <1>6, <2>1, SeqEqual
<1> QED
  BY <1>5, <1>7, <1>8

\* And compilations are complete beginnings.
LEMMA MadeIsBegun ==
    ASSUME NEW i \in Inputs, NEW results \in Compilations[i]
    PROVE  IsBegun(i, results) /\ Len(results) = Len(Stages)
<1>1. PICK c \in Builders : results = FromNothing(i, c)
  BY DEF Compilations
<1>2. \E S : results \in Seq(S)
  BY <1>1, MadeIs
<1>3. Len(results) = Len(Stages) /\ Len(Stages) \in Nat
  BY <1>1, MadeIs, StoreConstants
<1>4. ASSUME NEW n \in 1..Len(Stages) PROVE MadeAt(i, results, n)
  <2>1. results[n] = Made(i, c, n, {results[m] : m \in 1..(n - 1)})
    BY <1>1, MadeIs
  <2>2. Stages[n] \in Names
    BY StoreConstants DEF Names, Range
  <2>3. c[Stages[n]] \in Outputs[Stages[n]]
    BY <2>2 DEF Builders
  <2> QED
    BY <2>1, <2>3 DEF Made, MadeAt
<1> QED
  BY <1>2, <1>3, <1>4 DEF IsBegun

LEMMA ArtifactIs ==
    ASSUME NEW i \in Inputs, NEW s, IsBegun(i, s), NEW n \in 1..Len(s)
    PROVE  /\ s[n] \in Artifacts
           /\ s[n].stage = Stages[n] /\ n \in 1..Len(Stages)
           /\ s[n].version = Version[i][Stages[n]]
           /\ s[n].upstream = {b \in {s[m] : m \in 1..(n - 1)} : b.stage \in Dependencies[Stages[n]]}
           /\ s[n].output \in Outputs[Stages[n]]
<1>1. PICK c \in Builders : \A m \in 1..Len(s) : s[m] = FromNothing(i, c)[m]
  BY BegunIsMade
<1>2. PICK S : s \in Seq(S)
  BY DEF IsBegun
<1>3. n \in 1..Len(Stages)
  BY <1>2, LenProperties, StoreConstants DEF IsBegun
<1>4. s[n] \in Range(FromNothing(i, c)) /\ FromNothing(i, c) \in Compilations[i]
  BY <1>1, <1>3, MadeIs DEF Range, Compilations
<1>5. s[n] \in Artifacts
  BY <1>4 DEF Artifacts
<1> DEFINE before == {s[m] : m \in 1..(n - 1)}
           a == s[n]
<1>6. PICK output \in Outputs[Stages[n]] : a = Artifact(Specification(i, Stages[n], before), output)
  BY DEF IsBegun, MadeAt
<1> HIDE DEF before, a
<1>7. /\ a.stage = Stages[n] /\ a.version = Version[i][Stages[n]]
      /\ a.upstream = {b \in before : b.stage \in Dependencies[Stages[n]]}
      /\ a.output = output
  BY <1>6 DEF Specification, Artifact
<1> QED
  BY <1>3, <1>5, <1>7 DEF a, before

LEMMA IsAnArtifact ==
    ASSUME NEW a \in Artifacts
    PROVE  \E i \in Inputs : \E s \in Compilations[i] : \E n \in 1..Len(s) : a = s[n]
<1>1. PICK i \in Inputs : \E s \in Compilations[i] : a \in Range(s)
  BY DEF Artifacts
<1>2. PICK s \in Compilations[i] : a \in Range(s)
  BY <1>1
<1>3. PICK S : s \in Seq(S)
  BY MadeIsBegun DEF IsBegun
<1>4. DOMAIN s = 1..Len(s)
  BY <1>3, LenProperties
<1> QED
  BY <1>2, <1>4 DEF Range

LEMMA ArtifactsAre ==
    ASSUME NEW a \in Artifacts
    PROVE  /\ IsArtifact(a) /\ a.upstream \subseteq Artifacts /\ a # None
           /\ a = Artifact(SpecificationOf(a), a.output)
<1>1. PICK i \in Inputs : \E s \in Compilations[i] : \E n \in 1..Len(s) : a = s[n]
  BY IsAnArtifact
<1>2. PICK s \in Compilations[i] : \E n \in 1..Len(s) : a = s[n]
  BY <1>1
<1>3. PICK n \in 1..Len(s) : a = s[n]
  BY <1>2
<1>4. IsBegun(i, s) /\ Len(s) = Len(Stages)
  BY MadeIsBegun
<1> DEFINE M(m) == s[m]
<1>5. \A m \in 1..(n - 1) : m \in 1..Len(s)
  BY <1>4, StoreConstants
<1>6. \A m \in 1..(n - 1) : M(m) \in Artifacts /\ M(m).stage = Stages[m]
  BY <1>4, <1>5, ArtifactIs
<1>7. /\ a.stage = Stages[n] /\ n \in 1..Len(Stages) /\ a.output \in Outputs[Stages[n]]
      /\ a.upstream = {b \in {M(m) : m \in 1..(n - 1)} : b.stage \in Dependencies[Stages[n]]}
  BY <1>3, <1>4, ArtifactIs
<1>8. a = Artifact(SpecificationOf(a), a.output)
  <2>1. PICK output : a = Artifact(Specification(i, Stages[n], {s[m] : m \in 1..(n - 1)}), output)
    BY <1>3, <1>4 DEF IsBegun, MadeAt
  <2> QED
    BY <2>1 DEF Artifact, SpecificationOf, Specification
<1> HIDE DEF M
<1>9. Dependencies[Stages[n]] \subseteq {Stages[m] : m \in 1..(n - 1)} /\ Stages[n] \in Names
  BY <1>7, StoreConstants DEF Names, Range
<1>10. {b.stage : b \in a.upstream} = Dependencies[a.stage]
  <2>1. \A b \in a.upstream : b.stage \in Dependencies[a.stage]
    BY <1>7
  <2>2. ASSUME NEW x \in Dependencies[a.stage] PROVE \E b \in a.upstream : b.stage = x
    <3>1. PICK m \in 1..(n - 1) : x = Stages[m]
      BY <1>7, <1>9
    <3>2. M(m) \in a.upstream
      BY <1>6, <1>7, <3>1
    <3> QED
      BY <1>6, <3>1, <3>2
  <2> QED
    BY <2>1, <2>2
<1>11. a.upstream \subseteq Artifacts
  BY <1>6, <1>7
<1> QED
  BY <1>7, <1>8, <1>9, <1>10, <1>11, NoneIsNothing DEF IsArtifact

LEMMA ClosureOfArtifacts ==
    ASSUME NEW S, S \subseteq Artifacts
    PROVE  ClosureOf(S) \subseteq Artifacts
BY ClosureWithin, ArtifactsAre

\* What an artifact was made from was made before it, in the same compilation.
LEMMA ClosureOfMade ==
    ASSUME NEW i \in Inputs, NEW s, IsBegun(i, s), NEW n \in 1..Len(s)
    PROVE  Closure(s[n]) \subseteq {s[m] : m \in 1..n}
<1> DEFINE M(m) == s[m]
           X == {M(m) : m \in 1..n}
<1>1. PICK S : s \in Seq(S)
  BY DEF IsBegun
<1>2. n \in 1..n /\ \A k \in 1..n : k \in 1..Len(s) /\ \A m \in 1..(k - 1) : m \in 1..n
  BY <1>1, LenProperties
<1>3. \A k \in 1..n : M(k).upstream \subseteq {M(m) : m \in 1..(k - 1)}
  BY <1>2, ArtifactIs
<1> HIDE DEF M
<1>4. {M(n)} \subseteq X /\ \A a \in X : a.upstream \subseteq X
  BY <1>2, <1>3
<1> HIDE DEF X
<1>5. ClosureOf({M(n)}) \subseteq X
  BY <1>4, ClosureWithin
<1> QED
  BY <1>5 DEF Closure, X, M

\* From what is pinned for an input the whole compilation is found again, in
\* the order of the stages.
LEMMA PinsAreWhole ==
    ASSUME NEW i \in Inputs, NEW s \in Compilations[i], HasEveryStage(Last(s))
    PROVE  InOrder(Last(s)) = s
<1> DEFINE N == Len(Stages)
           M(m) == s[m]
           C == Closure(M(N))
           S == {b.stage : b \in C}
<1>0. N \in Nat \ {0} /\ N \in 1..N /\ DOMAIN Stages = 1..N
  BY StoreConstants
<1>1. IsBegun(i, s) /\ Len(s) = N
  BY MadeIsBegun
<1>2. Last(s) = M(N)
  BY <1>1 DEF Last
<1>3. C \subseteq {M(m) : m \in 1..N}
  BY <1>0, <1>1, ClosureOfMade
<1>4. \A m \in 1..N : M(m).stage = Stages[m]
  BY <1>1, ArtifactIs
<1>5. S = Names
  BY <1>2 DEF HasEveryStage
<1>6. s = [n \in 1..N |-> M(n)]
  <2>1. PICK X : s \in Seq(X)
    BY <1>1 DEF IsBegun
  <2>2. s \in [1..N -> X]
    BY <1>1, <2>1, LenProperties
  <2> QED
    BY <2>2
<1>7. InOrder(M(N)) = [n \in 1..N |-> CHOOSE b \in C : b.stage = Stages[n]]
  BY <1>0 DEF InOrder
<1> HIDE DEF C, M, N
<1>8. ASSUME NEW n \in 1..N
       PROVE  (CHOOSE b \in C : b.stage = Stages[n]) = M(n)
  <2>1. Stages[n] \in S
    BY <1>0, <1>5 DEF Names, Range
  <2>2. PICK b \in C : b.stage = Stages[n]
    BY <2>1
  <2>3. \A c \in C : c.stage = Stages[n] => c = M(n)
    <3> SUFFICES ASSUME NEW c \in C, c.stage = Stages[n] PROVE c = M(n)
      OBVIOUS
    <3>1. PICK m \in 1..N : c = M(m)
      BY <1>3
    <3>2. m = n
      BY <1>0, <1>4, <3>1, StoreConstants
    <3> QED
      BY <3>1, <3>2
  <2> QED
    BY <2>2, <2>3
<1>9. InOrder(M(N)) = [n \in 1..N |-> M(n)]
  BY <1>7, <1>8
<1> QED
  BY <1>2, <1>6, <1>9

\* One more artifact, of the next stage, made from those there are.
LEMMA AppendBegun ==
    ASSUME NEW i \in Inputs, NEW r, IsBegun(i, r), Len(r) < Len(Stages),
           NEW output \in Outputs[Stages[Len(r) + 1]], NEW a,
           a = Artifact(Specification(i, Stages[Len(r) + 1], Range(r)), output)
    PROVE  /\ a \in Artifacts
           /\ IsBegun(i, Append(r, a))
           /\ Len(Append(r, a)) = Len(r) + 1 /\ Len(r) + 1 \in 1..Len(Stages)
           /\ \A m \in 1..Len(r) : Append(r, a)[m] = r[m]
           /\ Append(r, a)[Len(r) + 1] = a
           /\ Range(Append(r, a)) = Range(r) \cup {a}
<1> DEFINE n == Len(r) + 1
           s == Append(r, a)
<1>1. PICK S : r \in Seq(S)
  BY DEF IsBegun
<1>2. r \in Seq(S \cup {a}) /\ a \in S \cup {a}
  BY <1>1, SeqMonotonic
<1>3. Len(r) \in Nat /\ DOMAIN r = 1..Len(r) /\ Len(Stages) \in Nat
  BY <1>1, LenProperties, StoreConstants
<1>4. s \in Seq(S \cup {a}) /\ Len(s) = n /\ (\A m \in 1..Len(r) : s[m] = r[m]) /\ s[n] = a
  BY <1>2, AppendProperties
<1>5. DOMAIN s = 1..n
  BY <1>4, LenProperties
<1> HIDE DEF s
<1>6. n \in 1..Len(Stages) /\ 1..n = 1..Len(r) \cup {n} /\ 1..(n - 1) = 1..Len(r)
  BY <1>3
<1>7. {s[m] : m \in 1..(n - 1)} = Range(r)
  BY <1>3, <1>4, <1>6 DEF Range
<1>8. ASSUME NEW m \in 1..n PROVE MadeAt(i, s, m)
  <2>1. CASE m = n
    <3>1. s[n] = Artifact(Specification(i, Stages[n], {s[k] : k \in 1..(n - 1)}), output)
      BY <1>4, <1>7
    <3> QED
      BY <2>1, <3>1 DEF MadeAt
  <2>2. CASE m # n
    <3>1. m \in 1..Len(r) /\ \A k \in 1..(m - 1) : k \in 1..Len(r)
      BY <1>3, <1>6, <2>2
    <3>2. {s[k] : k \in 1..(m - 1)} = {r[k] : k \in 1..(m - 1)} /\ s[m] = r[m]
      BY <1>4, <3>1
    <3>3. MadeAt(i, r, m)
      BY <3>1 DEF IsBegun
    <3> QED
      BY <3>2, <3>3 DEF MadeAt
  <2> QED
    BY <2>1, <2>2
<1>9. IsBegun(i, s)
  BY <1>4, <1>6, <1>8 DEF IsBegun
<1>10. a \in Artifacts
  <2>1. n \in 1..Len(s)
    BY <1>3, <1>4
  <2> QED
    BY <1>4, <1>9, <2>1, ArtifactIs
<1>11. Range(s) = Range(r) \cup {a}
  <2>1. Range(s) = {s[m] : m \in 1..Len(r)} \cup {s[n]}
    <3> HIDE DEF n
    <3> QED
      BY <1>5, <1>6 DEF Range
  <2>2. {s[m] : m \in 1..Len(r)} = Range(r)
    BY <1>3, <1>4 DEF Range
  <2> QED
    BY <1>4, <2>1, <2>2
<1> QED
  BY <1>4, <1>6, <1>9, <1>10, <1>11 DEF s

\* Nothing is a beginning of every input.
LEMMA EmptyIs ==
    ASSUME NEW i
    PROVE  IsBegun(i, <<>>) /\ Len(<<>>) = 0 /\ Range(<<>>) = {} /\ \A S : <<>> \in Seq(S)
<1>1. Len(<<>>) = 0 /\ \A S : <<>> \in Seq(S)
  BY EmptySeq
<1>2. Range(<<>>) = {}
  BY DEF Range
<1> QED
  BY <1>1, <1>2, StoreConstants DEF IsBegun
-----------------------------------------------------------------------------
(* Steps that lose nothing *)

OthersWait(p) == \A q \in Processes \ {p} : pc'[q] = pc[q] /\ op'[q] = op[q]

\* An artifact that leaves its place is in the quarantine.
KeepsFiles ==
    /\ stored \cup quarantine \subseteq stored' \cup quarantine'
    /\ damaged' \subseteq damaged /\ altered' \subseteq altered
    /\ UNCHANGED <<started, contested>>
KeepsStore == KeepsFiles /\ UNCHANGED <<pins, late>>

\* Of the directories only the one the process works on changes: it may lose
\* what is safe elsewhere, its record, or itself.
KeepsDirectories(p) ==
    \A t \in Transactions :
        /\ t # op[p].tx => staging'[t] = staging[t]
        /\ staging'[t] # None =>
              /\ staging[t] # None /\ staging'[t].ids = staging[t].ids
              /\ staging'[t].state = "moving" =>
                    /\ staging[t].state = "moving"
                    /\ staging[t].held \ staging'[t].held \subseteq Safe'

\* The process ends, or goes on with the same operation.
GoesOn(p) ==
    pc'[p] # "idle" =>
        /\ op'[p].number = op[p].number
        /\ op'[p].tx \in {op[p].tx, 0}
        /\ op[p].tx = op[p].number => op'[p].tx = op[p].tx
        /\ op'[p].tx # 0 /\ op'[p].then # "recover" => op[p].then # "recover"
        /\ Compiles(p)' /\ Collects(p)' /\ Moves(p)'
        /\ op'[p].tx # 0 => Settles(p)'

\* Two operations that know the same of a compilation.
SameWork(o, q) ==
    /\ o.input = q.input /\ o.decodes = q.decodes /\ o.results = q.results
    /\ o.forced = q.forced /\ o.invalid = q.invalid /\ o.built = q.built

LEMMA OperationTypes ==
    ASSUME TypeInv, NEW p \in Processes, pc[p] # "idle"
    PROVE  /\ op[p] \in Operations /\ op[p] # None
           /\ op[p].number \in 1..MaxOperations /\ op[p].number \in Transactions
           /\ op[p].tx \in 0..MaxOperations /\ (op[p].tx # 0 => op[p].tx \in Transactions)
           /\ op[p].then \in {"raise", "done", "recover"}
           /\ op[p].next \in {"lineage", "lookup", "build", "plan", "idle"}
           /\ op[p].left \subseteq Transactions
           /\ op[p].todo \subseteq Artifacts \cup {TransactionFile} /\ op[p].moved \subseteq Artifacts
           /\ op[p].plan \in Plans \cup {None} /\ op[p].input \in Inputs \cup {None}
           /\ op[p].decodes \in BOOLEAN /\ op[p].results \in Seq(Artifacts)
           /\ op[p].forced \subseteq Names /\ op[p].invalid \subseteq Names /\ op[p].built \subseteq Names
           /\ op[p].made \in Artifacts \cup {None} /\ op[p].rejected \in Artifacts \cup {None}
<1>1. op[p] \in Operations /\ op[p] # None
  BY DEF TypeInv, ProcessTypes
<1>2. MaxOperations \in Nat
  BY StoreConstants
<1> QED
  BY <1>1, <1>2 DEF Operations, Transactions

LEMMA CompilesStay ==
    ASSUME CompileInv, NEW p \in Processes, OthersWait(p), KeepsStore, GoesOn(p)
    PROVE  CompileInv'
<1>1. ASSUME NEW q \in Processes, pc'[q] # "idle", q # p
      PROVE  Compiles(q)'
  <2>1. pc'[q] = pc[q] /\ op'[q] = op[q] /\ Compiles(q) /\ altered' \subseteq altered
    BY <1>1 DEF OthersWait, CompileInv, KeepsStore, KeepsFiles
  <2> QED
    BY <2>1 DEF Compiles
<1>2. pc'[p] # "idle" => Compiles(p)'
  BY DEF GoesOn
<1>3. pins' = pins
  BY DEF KeepsStore, KeepsFiles
<1> QED
  BY <1>1, <1>2, <1>3 DEF CompileInv

LEMMA NumbersStay ==
    ASSUME TypeInv, NumberInv, NEW p \in Processes, pc[p] # "idle",
           OthersWait(p), KeepsFiles, KeepsDirectories(p), GoesOn(p)
    PROVE  NumberInv'
<1>1. started' = started
  BY DEF KeepsFiles
<1>2. \A t \in Transactions : staging'[t] # None => staging[t] # None
  BY DEF KeepsDirectories
<1>3. \A q \in Processes : pc'[q] # "idle" =>
          /\ pc[q] # "idle" /\ op'[q].number = op[q].number
          /\ op'[q].tx \in {op[q].tx, 0} /\ (op[q].tx = op[q].number => op'[q].tx = op[q].tx)
          /\ op[q].number \in Transactions /\ op[q].number # 0
          /\ Collects(q)'
  <2> SUFFICES ASSUME NEW q \in Processes, pc'[q] # "idle"
               PROVE  /\ pc[q] # "idle" /\ op'[q].number = op[q].number
                      /\ op'[q].tx \in {op[q].tx, 0} /\ (op[q].tx = op[q].number => op'[q].tx = op[q].tx)
                      /\ op[q].number \in Transactions /\ op[q].number # 0
                      /\ Collects(q)'
    OBVIOUS
  <2>1. CASE q = p
    BY <2>1, OperationTypes DEF GoesOn
  <2>2. CASE q # p
    <3>1. pc'[q] = pc[q] /\ op'[q] = op[q]
      BY <2>2 DEF OthersWait
    <3>2. Collects(q)
      BY <3>1 DEF NumberInv
    <3>3. Collects(q)'
      BY <1>1, <3>1, <3>2 DEF Collects
    <3> QED
      BY <3>1, <3>3, OperationTypes
  <2> QED
    BY <2>1, <2>2
<1>4. \A t \in Transactions : staging'[t] # None => t <= started'
  BY <1>1, <1>2 DEF NumberInv
<1>5. ASSUME NEW q \in Processes, pc'[q] # "idle"
      PROVE  /\ \A r \in Processes : pc'[r] # "idle" /\ r # q => op'[r].number # op'[q].number
             /\ op'[q].tx # op'[q].number =>
                   /\ staging'[op'[q].number] = None
                   /\ \A r \in Processes : pc'[r] # "idle" => op'[r].tx # op'[q].number
  <2>1. pc[q] # "idle" /\ op'[q].number = op[q].number /\ op[q].number \in Transactions
        /\ op[q].number # 0
        /\ (op'[q].tx # op'[q].number => op[q].tx # op[q].number)
    BY <1>3, <1>5
  <2>2. \A r \in Processes : pc'[r] # "idle" /\ r # q => op'[r].number # op'[q].number
    BY <1>3, <2>1 DEF NumberInv
  <2>3. ASSUME op'[q].tx # op'[q].number
        PROVE  /\ staging'[op'[q].number] = None
               /\ \A r \in Processes : pc'[r] # "idle" => op'[r].tx # op'[q].number
    <3>1. staging[op[q].number] = None
          /\ \A r \in Processes : pc[r] # "idle" => op[r].tx # op[q].number
      BY <2>1, <2>3 DEF NumberInv
    <3> QED
      BY <1>2, <1>3, <2>1, <3>1
  <2> QED
    BY <2>2, <2>3
<1> QED
  BY <1>3, <1>4, <1>5 DEF NumberInv

LEMMA MovesStay ==
    ASSUME TypeInv, NumberInv, MoveInv, NEW p \in Processes, pc[p] # "idle",
           OthersWait(p), KeepsFiles, KeepsDirectories(p), GoesOn(p)
    PROVE  MoveInv'
<1>1. ASSUME NEW q \in Processes, pc'[q] # "idle", q # p
      PROVE  Moves(q)'
  <2>1. pc'[q] = pc[q] /\ op'[q] = op[q] /\ pc[q] # "idle"
    BY <1>1 DEF OthersWait
  <2>2. Moves(q) /\ Collects(q) /\ op[q].number \in Transactions /\ op[q].number # 0
    BY <2>1, OperationTypes DEF MoveInv, NumberInv
  <2>3. pc[q] \in {"transaction", "move", "list", "remove", "rollback"} =>
            op[q].tx \in Transactions /\ op[q].tx # 0
    BY <2>1, <2>2, OperationTypes DEF Collects
  <2>4. pc[q] \in {"transaction", "move", "list", "remove", "rollback"} /\ staging'[op[q].tx] # None =>
            staging[op[q].tx] # None /\ staging'[op[q].tx].ids = staging[op[q].tx].ids
    BY <2>3 DEF KeepsDirectories
  <2>5. damaged' \subseteq damaged
    BY DEF KeepsFiles
  <2>6. ASSUME pc[q] = "transaction"
        PROVE  /\ staging'[op[q].tx] = staging[op[q].tx]
               /\ \A r \in Processes : pc'[r] # "idle" /\ r # q => op'[r].tx # op[q].tx
    <3>1. \A r \in Processes : pc[r] # "idle" /\ r # q => op[r].tx # op[q].tx
      BY <2>2, <2>6 DEF Moves
    <3>2. op[p].tx # op[q].tx
      BY <1>1, <3>1
    <3>3. staging'[op[q].tx] = staging[op[q].tx]
      BY <2>3, <2>6, <3>2 DEF KeepsDirectories
    <3>4. \A r \in Processes : pc'[r] # "idle" /\ r # q => op'[r].tx # op[q].tx
      <4> SUFFICES ASSUME NEW r \in Processes, pc'[r] # "idle", r # q
                   PROVE  op'[r].tx # op[q].tx
        OBVIOUS
      <4>1. CASE r = p
        BY <2>3, <2>6, <3>2, <4>1 DEF GoesOn
      <4>2. CASE r # p
        BY <3>1, <4>2 DEF OthersWait
      <4> QED
        BY <4>1, <4>2
    <3> QED
      BY <3>3, <3>4
  <2> QED
    BY <2>1, <2>2, <2>4, <2>5, <2>6 DEF Moves
<1>2. pc'[p] # "idle" => Moves(p)'
  BY DEF GoesOn
<1> QED
  BY <1>1, <1>2 DEF MoveInv

LEMMA PinsStay ==
    ASSUME PinInv, NEW p \in Processes, KeepsStore, KeepsDirectories(p)
    PROVE  PinInv'
<1>1. Reachable' = Reachable
  <2>1. Roots' = Roots
    BY DEF Roots, KeepsStore, KeepsFiles
  <2> QED
    BY <2>1 DEF Reachable
<1>2. Listed' \subseteq Listed
  BY DEF Listed, KeepsDirectories
<1>3. late' = late /\ stored \cup quarantine \subseteq stored' \cup quarantine'
  BY DEF KeepsStore, KeepsFiles
<1>4. PinnedStays'
  BY <1>1, <1>3 DEF PinInv, PinnedStays
<1> QED
  BY <1>1, <1>2, <1>3, <1>4 DEF PinInv

LEMMA WholeStays ==
    ASSUME TypeInv, WholeInv, NEW p \in Processes, pc[p] # "idle",
           OthersWait(p), KeepsFiles, KeepsDirectories(p), GoesOn(p)
    PROVE  WholeInv'
<1>1. Safe \subseteq Safe' /\ contested' = contested
  BY DEF Safe, KeepsFiles
<1>2. \A t \in Transactions : staging'[t] # None =>
          /\ staging[t] # None /\ staging'[t].ids = staging[t].ids
          /\ staging'[t].state = "moving" =>
                /\ staging[t].state = "moving"
                /\ staging[t].held \ staging'[t].held \subseteq Safe'
  BY DEF KeepsDirectories
<1>3. \A t, u \in Transactions : staging'[t] # None /\ staging'[u] # None /\ t # u =>
          staging'[t].ids \cap staging'[u].ids \subseteq contested'
  BY <1>1, <1>2 DEF WholeInv
<1>4. \A t \in Transactions : staging'[t] # None /\ staging'[t].state = "moving" =>
          staging'[t].ids \subseteq Safe' \cup staging'[t].held
  <2> SUFFICES ASSUME NEW t \in Transactions, staging'[t] # None, staging'[t].state = "moving"
               PROVE  staging'[t].ids \subseteq Safe' \cup staging'[t].held
    OBVIOUS
  <2>1. staging[t].ids \subseteq Safe \cup staging[t].held
    BY <1>2 DEF WholeInv
  <2> QED
    BY <1>1, <1>2, <2>1
<1>5. ASSUME NEW q \in Processes, pc'[q] # "idle", op'[q].tx # 0
      PROVE  /\ pc[q] # "idle" /\ op'[q].tx = op[q].tx /\ op[q].tx \in Transactions
             /\ op'[q].then # "recover" => op[q].then # "recover"
             /\ Settles(q)'
  <2>1. CASE q = p
    BY <1>5, <2>1, OperationTypes DEF GoesOn
  <2>2. CASE q # p
    <3>1. pc'[q] = pc[q] /\ op'[q] = op[q] /\ op[q].tx \in Transactions
      BY <1>5, <2>2, OperationTypes DEF OthersWait
    <3>2. Settles(q)
      BY <1>5, <3>1 DEF WholeInv
    <3>3. Unsettled(q)' = Unsettled(q)
      BY <3>1 DEF Unsettled
    <3>4. Settles(q)'
      BY <1>1, <1>2, <3>1, <3>2, <3>3 DEF Settles
    <3> QED
      BY <1>5, <3>1, <3>4
  <2> QED
    BY <2>1, <2>2
<1>6. ASSUME NEW q \in Processes, NEW r \in Processes, pc'[q] # "idle", op'[q].tx # 0,
             pc'[r] # "idle", r # q, op'[r].tx = op'[q].tx, op'[q].then # "recover",
             staging'[op'[q].tx] # None
      PROVE  staging'[op'[q].tx].ids \subseteq contested'
  <2>1. /\ pc[q] # "idle" /\ op'[q].tx = op[q].tx /\ op[q].tx \in Transactions
        /\ op[q].then # "recover" /\ pc[r] # "idle" /\ op'[r].tx = op[r].tx
    BY <1>5, <1>6
  <2>2. staging[op[q].tx] # None /\ staging'[op[q].tx].ids = staging[op[q].tx].ids
    BY <1>2, <1>6, <2>1
  <2>3. staging[op[q].tx].ids \subseteq contested
    BY <1>6, <2>1, <2>2 DEF WholeInv
  <2> QED
    BY <1>1, <2>1, <2>2, <2>3
<1> QED
  BY <1>3, <1>4, <1>5, <1>6 DEF WholeInv

LEMMA FrameKeeps ==
    ASSUME RetainedInv, NEW p \in Processes, pc[p] # "idle", TypeInv',
           OthersWait(p), KeepsStore, KeepsDirectories(p), GoesOn(p)
    PROVE  RetainedInv'
BY CompilesStay, NumbersStay, MovesStay, PinsStay, WholeStays DEF RetainedInv, KeepsStore

\* The process goes on.
LEMMA GoKeeps ==
    ASSUME RetainedInv, NEW p \in Processes, pc[p] # "idle",
           NEW step \in Steps \ {"idle"}, NEW o \in Operations,
           Goes(p, step), op' = [op EXCEPT ![p] = o],
           FileTypes', KeepsStore, KeepsDirectories(p),
           pc'[p] = step /\ op'[p] = o => GoesOn(p)
    PROVE  RetainedInv'
<1>1. TypeInv /\ o # None
  BY NoneIsNothing DEF RetainedInv
<1>2. pc' = [pc EXCEPT ![p] = step] /\ pc'[p] = step /\ op'[p] = o
  BY <1>1 DEF TypeInv, ProcessTypes, Goes
<1>3. OthersWait(p)
  BY <1>1, <1>2 DEF TypeInv, ProcessTypes, OthersWait
<1>4. ProcessTypes'
  BY <1>1, <1>2 DEF TypeInv, ProcessTypes
<1> QED
  BY <1>2, <1>3, <1>4, FrameKeeps DEF TypeInv

\* The process ends, on its own or killed.
LEMMA EndKeeps ==
    ASSUME RetainedInv, NEW p \in Processes, pc[p] # "idle", EndsNow(p),
           FileTypes', KeepsStore, KeepsDirectories(p)
    PROVE  RetainedInv'
<1>1. TypeInv
  BY DEF RetainedInv
<1>2. pc' = [pc EXCEPT ![p] = "idle"] /\ op' = [op EXCEPT ![p] = None]
  BY DEF EndsNow, Goes
<1>3. OthersWait(p) /\ pc'[p] = "idle"
  BY <1>1, <1>2 DEF TypeInv, ProcessTypes, OthersWait
<1>4. ProcessTypes'
  BY <1>1, <1>2 DEF TypeInv, ProcessTypes, Steps
<1>5. GoesOn(p)
  BY <1>3 DEF GoesOn
<1> QED
  BY <1>3, <1>4, <1>5, FrameKeeps DEF TypeInv

LEMMA SameDirectories ==
    ASSUME NEW p, staging' = staging
    PROVE  KeepsDirectories(p)
BY DEF KeepsDirectories

LEMMA SameStore ==
    ASSUME TypeInv, UNCHANGED disk, UNCHANGED <<started, late, contested>>,
           crashes' \in 0..MaxCrashes
    PROVE  KeepsStore /\ FileTypes' /\ staging' = staging
BY DEF KeepsStore, KeepsFiles, FileTypes, TypeInv, disk

LEMMA QuarantineKeeps ==
    ASSUME TypeInv, NEW found, found \subseteq stored, Quarantine(found),
           UNCHANGED <<started, crashes, late, contested>>
    PROVE  KeepsStore /\ FileTypes' /\ staging' = staging
BY DEF Quarantine, KeepsStore, KeepsFiles, FileTypes, TypeInv

LEMMA ResolveKeeps ==
    ASSUME TypeInv, NEW a, Resolve(a), UNCHANGED <<started, crashes, late, contested>>
    PROVE  KeepsStore /\ FileTypes' /\ staging' = staging
<1>1. damaged \cap Visited(a) \subseteq stored
  BY DEF TypeInv, FileTypes
<1> QED
  BY <1>1, QuarantineKeeps DEF Resolve

-----------------------------------------------------------------------------
(* The steps of a compilation *)

\* It goes from one step to another, without a directory.
LEMMA CompilationKeeps ==
    ASSUME RetainedInv, NEW p \in Processes, pc[p] \in Compiling \cup {"reject"},
           NEW step \in Compiling \cup {"reject"}, NEW o \in Operations,
           Goes(p, step), op' = [op EXCEPT ![p] = o],
           o.number = op[p].number, o.tx = op[p].tx, o.then = op[p].then,
           FileTypes', KeepsStore, staging' = staging,
           pc'[p] = step /\ op'[p] = o => Compiles(p)'
    PROVE  RetainedInv'
<1>1. pc[p] # "idle" /\ step \in Steps \ {"idle"} /\ KeepsDirectories(p)
  BY SameDirectories DEF Compiling, Steps
<1>2. Collects(p)
  BY <1>1 DEF RetainedInv, NumberInv
<1>3. o.tx = 0 /\ o.then = "raise" /\ op[p].tx = 0 /\ started' = started
      /\ op[p].number <= started /\ op[p].tx <= started
  BY <1>2 DEF Collects, KeepsStore, KeepsFiles
<1>4. ASSUME pc'[p] = step, op'[p] = o PROVE GoesOn(p)
  <2>1. Collects(p)'
    BY <1>3, <1>4 DEF Collects, Compiling
  <2>2. Moves(p)'
    BY <1>4 DEF Moves, Compiling
  <2>3. Compiles(p)'
    BY <1>4
  <2> QED
    BY <1>3, <1>4, <2>1, <2>2, <2>3 DEF GoesOn
<1> QED
  BY <1>1, <1>4, GoKeeps

\* What the search of a specification moves away was damaged.
LEMMA SearchKeeps ==
    ASSUME TypeInv, NEW specification, Search(specification),
           UNCHANGED <<started, crashes, late, contested>>
    PROVE  KeepsStore /\ FileTypes' /\ staging' = staging
<1>1. Searched(specification) \subseteq stored
  BY DEF TypeInv, FileTypes, Searched
<1> QED
  BY <1>1, QuarantineKeeps DEF Search

\* An artifact of what is wanted next continues what was begun.
LEMMA AppendIs ==
    ASSUME RetainedInv, NEW p \in Processes, pc[p] \in {"lookup", "build", "rename", "confirm"},
           NEW a \in Artifacts, SpecificationOf(a) = Wants(op[p])
    PROVE  /\ Append(op[p].results, a) \in Seq(Artifacts)
           /\ IsBegun(op[p].input, Append(op[p].results, a))
           /\ Len(Append(op[p].results, a)) = Len(op[p].results) + 1
           /\ Len(op[p].results) + 1 \in 1..Len(Stages) /\ Len(op[p].results) \in Nat
           /\ Range(Append(op[p].results, a)) = Range(op[p].results) \cup {a}
           /\ a.stage = Stages[Len(op[p].results) + 1]
<1> DEFINE r == op[p].results
           i == op[p].input
<1>1. pc[p] # "idle" /\ Compiles(p)
  BY DEF RetainedInv, CompileInv
<1>2. i \in Inputs /\ Len(r) < Len(Stages) /\ IsBegun(i, r) /\ r \in Seq(Artifacts)
  BY <1>1, NoneIsNothing, OperationTypes DEF Compiles, Compiling, RetainedInv
<1>3. IsArtifact(a) /\ a = Artifact(SpecificationOf(a), a.output)
  BY ArtifactsAre
<1>4. a.stage = Stages[Len(r) + 1]
  BY DEF SpecificationOf, Wants, Specification
<1>5. a.output \in Outputs[Stages[Len(r) + 1]]
  BY <1>3, <1>4 DEF IsArtifact
<1>6. a = Artifact(Specification(i, Stages[Len(r) + 1], Range(r)), a.output)
  BY <1>3 DEF Wants
<1> DEFINE output == a.output
<1> HIDE DEF r, i, output
<1>7. /\ IsBegun(i, Append(r, a)) /\ Range(Append(r, a)) = Range(r) \cup {a}
      /\ Len(Append(r, a)) = Len(r) + 1 /\ Len(r) + 1 \in 1..Len(Stages)
  <2>1. /\ output \in Outputs[Stages[Len(r) + 1]]
        /\ a = Artifact(Specification(i, Stages[Len(r) + 1], Range(r)), output)
    BY <1>5, <1>6 DEF output
  <2>2. i \in Inputs /\ IsBegun(i, r) /\ Len(r) < Len(Stages)
    BY <1>2
  <2> QED
    BY <2>1, <2>2, AppendBegun
<1>8. Append(r, a) \in Seq(Artifacts) /\ Len(r) \in Nat
  BY <1>2, AppendProperties, LenProperties
<1> QED
  BY <1>4, <1>7, <1>8 DEF r, i

\* And so does one that a builder makes.
LEMMA MadeIsWanted ==
    ASSUME RetainedInv, NEW p \in Processes, pc[p] = "build", NEW output \in Outputs[NextStage(p)]
    PROVE  /\ Artifact(Wanted(p), output) \in Artifacts
           /\ SpecificationOf(Artifact(Wanted(p), output)) = Wants(op[p])
<1> DEFINE r == op[p].results
           i == op[p].input
           a == Artifact(Wanted(p), output)
<1>1. pc[p] # "idle" /\ Compiles(p)
  BY DEF RetainedInv, CompileInv
<1>2. i \in Inputs /\ Len(r) < Len(Stages) /\ IsBegun(i, r)
  BY <1>1, NoneIsNothing DEF Compiles, Compiling
<1>3. a = Artifact(Specification(i, Stages[Len(r) + 1], Range(r)), output)
      /\ output \in Outputs[Stages[Len(r) + 1]]
  BY DEF Wanted, NextStage
<1>4. SpecificationOf(a) = Wants(op[p])
  BY DEF SpecificationOf, Artifact, Wanted, NextStage, Wants, Specification
<1> HIDE DEF r, i, a
<1>5. a \in Artifacts
  BY <1>2, <1>3, AppendBegun
<1> QED
  BY <1>4, <1>5 DEF a

\* A stage that is reused was not forced, and is behind none that was made anew.
LEMMA HitReuses ==
    ASSUME NEW o, Reuses(o), Len(o.results) \in Nat, Len(o.results) + 1 \in 1..Len(Stages),
           Stages[Len(o.results) + 1] \notin o.forced \cup o.invalid,
           NEW q, Len(q.results) = Len(o.results) + 1,
           q.forced = o.forced, q.invalid = o.invalid, q.built = o.built
    PROVE  Reuses(q)
<1> DEFINE k == Len(o.results) + 1
<1>0. k \in 1..Len(Stages) /\ 1..Len(q.results) = 1..Len(o.results) \cup {k}
      /\ k - 1 = Len(o.results) /\ \A m \in 1..(k - 1) : m \in 1..Len(Stages) /\ m # k
  BY StoreConstants
<1>1. \A m \in 1..Len(Stages) : m \in DOMAIN Stages /\ Stages[m] \in Names
  BY StoreConstants DEF Names, Range
<1>2. \A m \in 1..(k - 1) : Stages[m] # Stages[k]
  BY <1>0, <1>1, StoreConstants
<1>3. Stages[k] \notin o.built
  BY <1>0, <1>2 DEF Reuses
<1>4. ASSUME NEW m \in 1..(k - 1), Stages[m] \in Dependencies[Stages[k]] PROVE Stages[m] \notin o.built
  <2>1. Stages[k] \in Descendants(Stages[m])
    BY <1>0, <1>1, <1>2, <1>4, DependentIsBehind
  <2>2. Stages[m] \in o.built => Descendants(Stages[m]) \subseteq o.invalid
    BY <1>0 DEF Reuses
  <2> QED
    BY <2>1, <2>2
<1> HIDE DEF k
<1>5. \A n \in 1..Len(q.results) :
          IF Stages[n] \in q.built THEN Descendants(Stages[n]) \subseteq q.invalid
          ELSE /\ Stages[n] \notin q.forced
               /\ \A m \in 1..(n - 1) : Stages[m] \in Dependencies[Stages[n]] => Stages[m] \notin q.built
  <2> SUFFICES ASSUME NEW n \in 1..Len(q.results)
               PROVE  IF Stages[n] \in q.built THEN Descendants(Stages[n]) \subseteq q.invalid
                      ELSE /\ Stages[n] \notin q.forced
                           /\ \A m \in 1..(n - 1) :
                                 Stages[m] \in Dependencies[Stages[n]] => Stages[m] \notin q.built
    OBVIOUS
  <2>1. CASE n = k
    BY <1>3, <1>4, <2>1 DEF k
  <2>2. CASE n # k
    BY <1>0, <2>2 DEF Reuses
  <2> QED
    BY <2>1, <2>2
<1>6. q.built \subseteq {Stages[m] : m \in 1..Len(q.results)}
  BY <1>0 DEF Reuses
<1> QED
  BY <1>5, <1>6 DEF Reuses

\* What is behind a stage that is made anew is not reused after that.
LEMMA BuiltReuses ==
    ASSUME NEW o, Reuses(o), Len(o.results) \in Nat, Len(o.results) + 1 \in 1..Len(Stages),
           NEW q, Len(q.results) = Len(o.results) + 1, q.forced = o.forced,
           q.invalid = o.invalid \cup Descendants(Stages[Len(o.results) + 1]),
           q.built = o.built \cup {Stages[Len(o.results) + 1]}
    PROVE  Reuses(q)
<1> DEFINE k == Len(o.results) + 1
<1>0. k \in 1..Len(Stages) /\ 1..Len(q.results) = 1..Len(o.results) \cup {k}
      /\ k - 1 = Len(o.results) /\ \A m \in 1..(k - 1) : m \in 1..Len(Stages) /\ m # k
  BY StoreConstants
<1>1. \A m \in 1..(k - 1) : Stages[m] # Stages[k]
  BY <1>0, StoreConstants
<1>2. q.built = o.built \cup {Stages[k]} /\ q.invalid = o.invalid \cup Descendants(Stages[k])
  OBVIOUS
<1> HIDE DEF k
<1>3. \A n \in 1..Len(q.results) :
          IF Stages[n] \in q.built THEN Descendants(Stages[n]) \subseteq q.invalid
          ELSE /\ Stages[n] \notin q.forced
               /\ \A m \in 1..(n - 1) : Stages[m] \in Dependencies[Stages[n]] => Stages[m] \notin q.built
  <2> SUFFICES ASSUME NEW n \in 1..Len(q.results)
               PROVE  IF Stages[n] \in q.built THEN Descendants(Stages[n]) \subseteq q.invalid
                      ELSE /\ Stages[n] \notin q.forced
                           /\ \A m \in 1..(n - 1) :
                                 Stages[m] \in Dependencies[Stages[n]] => Stages[m] \notin q.built
    OBVIOUS
  <2>1. CASE n = k
    BY <1>2, <2>1
  <2>2. CASE n # k
    <3>1. n \in 1..(k - 1) /\ n \in 1..Len(o.results) /\ \A m \in 1..(n - 1) : m \in 1..(k - 1)
      BY <1>0, <2>2
    <3>2. Stages[n] \in q.built <=> Stages[n] \in o.built
      BY <1>1, <1>2, <3>1
    <3>3. \A m \in 1..(n - 1) : Stages[m] \in q.built <=> Stages[m] \in o.built
      BY <1>1, <1>2, <3>1
    <3> QED
      BY <1>2, <3>1, <3>2, <3>3 DEF Reuses
  <2> QED
    BY <2>1, <2>2
<1>4. q.built \subseteq {Stages[m] : m \in 1..Len(q.results)}
  BY <1>0, <1>2 DEF Reuses
<1> QED
  BY <1>3, <1>4 DEF Reuses

\* The artifact of a stage was found or made: the results have one more.
LEMMA StageKeeps ==
    ASSUME RetainedInv, NEW p \in Processes, pc[p] \in {"lookup", "build", "rename", "confirm"},
           NEW a \in Artifacts, SpecificationOf(a) = Wants(op[p]),
           \/ Hit(p, a) /\ NextStage(p) \notin op[p].forced \cup op[p].invalid
           \/ Built(p, a),
           FileTypes', KeepsStore, staging' = staging,
           op[p].decodes => a \notin altered'
    PROVE  RetainedInv'
<1> DEFINE s == Append(op[p].results, a)
           step == IF Len(s) < Len(Stages) THEN "lookup"
                   ELSE IF op[p].decodes THEN "pin" ELSE "publish"
           i == op[p].input
<1>1. pc[p] # "idle" /\ Compiles(p) /\ TypeInv
  BY DEF RetainedInv, CompileInv
<1>2. /\ s \in Seq(Artifacts) /\ Len(s) \in 1..Len(Stages) /\ IsBegun(i, s)
      /\ Len(s) = Len(op[p].results) + 1 /\ Len(op[p].results) \in Nat
      /\ Range(s) = Range(op[p].results) \cup {a} /\ a.stage = Stages[Len(op[p].results) + 1]
  BY AppendIs
<1>3. i \in Inputs /\ i # None /\ Reuses(op[p])
  BY <1>1, NoneIsNothing DEF Compiles, Compiling
<1>4. op[p].decodes => Range(s) \cap altered' = {}
  <2>1. op[p].decodes => Range(op[p].results) \cap altered = {}
    BY <1>1, <1>3 DEF Compiles
  <2>2. altered' \subseteq altered
    BY DEF KeepsStore, KeepsFiles
  <2> QED
    BY <1>2, <2>1, <2>2
<1>5. Goes(p, step)
  BY DEF Hit, Built, Continues
<1>6. step \in Compiling /\ step \in {"lookup", "pin", "publish"}
      /\ (step = "lookup" => Len(s) < Len(Stages)) /\ (step = "pin" => Len(s) = Len(Stages))
  <2>1. Len(s) <= Len(Stages) /\ Len(s) \in Nat /\ Len(Stages) \in Nat
    BY <1>2, StoreConstants
  <2> HIDE DEF s
  <2> QED
    BY <2>1 DEF Compiling
<1>7. op[p] \in Operations
  BY <1>1, OperationTypes
<1>8. PICK o \in Operations :
         /\ op' = [op EXCEPT ![p] = o]
         /\ o.number = op[p].number /\ o.tx = op[p].tx /\ o.then = op[p].then
         /\ o.results = s /\ o.input = i /\ o.decodes = op[p].decodes /\ Reuses(o)
  <2> HIDE DEF s
  <2>1. CASE Hit(p, a) /\ NextStage(p) \notin op[p].forced \cup op[p].invalid
    <3> DEFINE o == [op[p] EXCEPT !.results = s]
    <3>1. /\ o \in Operations
          /\ o.number = op[p].number /\ o.tx = op[p].tx /\ o.then = op[p].then
          /\ o.results = s /\ o.input = i /\ o.decodes = op[p].decodes
          /\ o.forced = op[p].forced /\ o.invalid = op[p].invalid /\ o.built = op[p].built
      BY <1>2, <1>7 DEF Operations
    <3>2. op' = [op EXCEPT ![p].results = s]
      BY <2>1 DEF Hit, s
    <3>3. op' = [op EXCEPT ![p] = o]
      BY <3>2
    <3> HIDE DEF o
    <3>4. Stages[Len(op[p].results) + 1] \notin op[p].forced \cup op[p].invalid
      BY <2>1 DEF NextStage
    <3>5. Reuses(o)
      BY <1>2, <1>3, <3>1, <3>4, HitReuses
    <3> QED
      BY <3>1, <3>3, <3>5
  <2>2. CASE Built(p, a)
    <3> DEFINE stale == op[p].invalid \cup Descendants(a.stage)
               built == op[p].built \cup {a.stage}
               o == [op[p] EXCEPT !.results = s, !.made = None, !.built = built, !.invalid = stale]
    <3>0. stale \subseteq Names /\ built \subseteq Names
      <4>1. a.stage \in Names
        BY ArtifactsAre DEF IsArtifact
      <4> QED
        BY <1>7, <4>1, BehindNames DEF Operations, Descendants
    <3>1. /\ o \in Operations
          /\ o.number = op[p].number /\ o.tx = op[p].tx /\ o.then = op[p].then
          /\ o.results = s /\ o.input = i /\ o.decodes = op[p].decodes
          /\ o.forced = op[p].forced /\ o.invalid = stale /\ o.built = built
      <4> HIDE DEF stale, built
      <4> QED
        BY <1>2, <1>7, <3>0 DEF Operations
    <3>2. op' = [op EXCEPT ![p].results = s, ![p].made = None, ![p].built = @ \cup {a.stage},
                           ![p].invalid = @ \cup Descendants(a.stage)]
      BY <2>2 DEF Built, s
    <3>3. op' = [op EXCEPT ![p] = o]
      BY <1>1, <3>2 DEF TypeInv, ProcessTypes
    <3> HIDE DEF o
    <3>4. /\ o.invalid = op[p].invalid \cup Descendants(Stages[Len(op[p].results) + 1])
          /\ o.built = op[p].built \cup {Stages[Len(op[p].results) + 1]}
      BY <1>2, <3>1
    <3>5. Reuses(o)
      BY <1>2, <1>3, <3>1, <3>4, BuiltReuses
    <3> QED
      BY <3>1, <3>3, <3>5
  <2> QED
    BY <2>1, <2>2
<1>9. ASSUME pc'[p] = step, op'[p] = o PROVE Compiles(p)'
  <2> HIDE DEF step, s
  <2> QED
    BY <1>2, <1>3, <1>4, <1>6, <1>8, <1>9 DEF Compiles, Collecting, Opening
<1> HIDE DEF step, s
<1>10. pc[p] \in Compiling \cup {"reject"} /\ step \in Compiling \cup {"reject"}
  BY <1>6 DEF Compiling
<1> QED
  BY <1>5, <1>8, <1>9, <1>10, CompilationKeeps

\* What cannot be decoded is to be moved away.
LEMMA RejectsKeeps ==
    ASSUME RetainedInv, NEW p \in Processes, pc[p] \in {"lineage", "lookup", "build", "confirm"},
           NEW a \in Artifacts, NEW next \in {"lookup", "build", "idle"}, Rejects(p, a, next),
           FileTypes', KeepsStore, staging' = staging
    PROVE  RetainedInv'
<1>1. pc[p] # "idle" /\ Compiles(p) /\ op[p] \in Operations /\ TypeInv
  BY OperationTypes DEF RetainedInv, CompileInv
<1> DEFINE o == [op[p] EXCEPT !.rejected = a, !.next = next]
<1>2. /\ o \in Operations
      /\ o.number = op[p].number /\ o.tx = op[p].tx /\ o.then = op[p].then
      /\ o.results = op[p].results /\ o.input = op[p].input /\ o.decodes = op[p].decodes
      /\ o.forced = op[p].forced /\ o.invalid = op[p].invalid /\ o.built = op[p].built
      /\ o.rejected = a /\ o.next = next
  BY <1>1 DEF Operations
<1>3. op' = [op EXCEPT ![p] = o] /\ Goes(p, "reject")
  BY <1>1 DEF Rejects, TypeInv, ProcessTypes
<1>4. Len(op[p].results) < Len(Stages)
  <2>1. Len(<<>>) = 0
    BY EmptySeq
  <2> QED
    BY <1>1, <2>1, StoreConstants DEF Compiles
<1>5. altered' \subseteq altered
  BY DEF KeepsStore, KeepsFiles
<1> HIDE DEF o
<1>6. ASSUME pc'[p] = "reject", op'[p] = o PROVE Compiles(p)'
  <2>1. Reuses(o) <=> Reuses(op[p])
    BY <1>2 DEF Reuses
  <2> QED
    BY <1>1, <1>2, <1>4, <1>5, <1>6, <2>1 DEF Compiles, Collecting, Opening, Compiling
<1>7. pc[p] \in Compiling \cup {"reject"} /\ "reject" \in Compiling \cup {"reject"}
  BY DEF Compiling
<1> QED
  BY <1>2, <1>3, <1>6, <1>7, CompilationKeeps

\* The compilation goes to another step, and knows nothing new.
LEMMA OnKeeps ==
    ASSUME RetainedInv, NEW p \in Processes, pc[p] \in Compiling,
           NEW step \in Compiling, Goes(p, step), op' = op,
           FileTypes', KeepsStore, staging' = staging,
           step \in {"lookup", "build"} => Len(op[p].results) < Len(Stages),
           step \in {"pin", "writepin"} => Len(op[p].results) = Len(Stages),
           step \notin {"lineage", "rename", "confirm"}
    PROVE  RetainedInv'
<1>1. pc[p] # "idle" /\ Compiles(p) /\ op[p] \in Operations /\ TypeInv
  BY OperationTypes DEF RetainedInv, CompileInv, Compiling
<1>2. op' = [op EXCEPT ![p] = op[p]]
  BY <1>1 DEF TypeInv, ProcessTypes
<1>3. altered' \subseteq altered
  BY DEF KeepsStore, KeepsFiles
<1>4. ASSUME pc'[p] = step, op'[p] = op[p] PROVE Compiles(p)'
  BY <1>1, <1>3, <1>4 DEF Compiles, Collecting, Opening, Compiling
<1> QED
  BY <1>1, <1>2, <1>4, CompilationKeeps

\* It has made an artifact, which is to be put in place or to be found there.
LEMMA MadeKeeps ==
    ASSUME RetainedInv, NEW p \in Processes, pc[p] \in {"build", "rename"},
           NEW a \in Artifacts, SpecificationOf(a) = Wants(op[p]),
           NEW step \in {"rename", "confirm"}, Goes(p, step), op' = [op EXCEPT ![p].made = a],
           FileTypes', KeepsStore, staging' = staging
    PROVE  RetainedInv'
<1>1. pc[p] # "idle" /\ Compiles(p) /\ op[p] \in Operations /\ TypeInv
      /\ Len(op[p].results) < Len(Stages) /\ op[p].input \in Inputs
  BY OperationTypes DEF RetainedInv, CompileInv, Compiles, Compiling
<1> DEFINE o == [op[p] EXCEPT !.made = a]
<1>2. /\ o \in Operations
      /\ o.number = op[p].number /\ o.tx = op[p].tx /\ o.then = op[p].then
      /\ o.results = op[p].results /\ o.input = op[p].input /\ o.decodes = op[p].decodes
      /\ o.forced = op[p].forced /\ o.invalid = op[p].invalid /\ o.built = op[p].built
      /\ o.made = a
  BY <1>1 DEF Operations
<1>3. op' = [op EXCEPT ![p] = o]
  BY <1>1 DEF TypeInv, ProcessTypes
<1>4. altered' \subseteq altered
  BY DEF KeepsStore, KeepsFiles
<1> HIDE DEF o
<1>5. ASSUME pc'[p] = step, op'[p] = o PROVE Compiles(p)'
  <2>1. (Reuses(o) <=> Reuses(op[p])) /\ Wants(o) = Wants(op[p])
    BY <1>2 DEF Reuses, Wants
  <2> QED
    BY <1>1, <1>2, <1>4, <1>5, <2>1 DEF Compiles, Collecting, Opening, Compiling
<1>6. pc[p] \in Compiling \cup {"reject"} /\ step \in Compiling \cup {"reject"}
  BY DEF Compiling
<1> QED
  BY <1>2, <1>3, <1>5, <1>6, CompilationKeeps

LEMMA RejectKeeps ==
    ASSUME RetainedInv, NEW p \in Processes, Reject(p), UNCHANGED <<late, contested>>
    PROVE  RetainedInv'
<1>1. pc[p] = "reject" /\ pc[p] # "idle" /\ Compiles(p) /\ op[p] \in Operations /\ TypeInv
  BY OperationTypes DEF RetainedInv, CompileInv, Reject
<1>2. KeepsStore /\ FileTypes' /\ staging' = staging
  BY <1>1, QuarantineKeeps DEF Reject
<1>3. CASE op[p].next = "idle"
  BY <1>1, <1>2, <1>3, EndKeeps, SameDirectories DEF Reject
<1>4. CASE op[p].next # "idle"
  <2> DEFINE o == [op[p] EXCEPT !.rejected = None]
             step == op[p].next
  <2>1. /\ o \in Operations
        /\ o.number = op[p].number /\ o.tx = op[p].tx /\ o.then = op[p].then
        /\ o.results = op[p].results /\ o.input = op[p].input /\ o.decodes = op[p].decodes
        /\ o.forced = op[p].forced /\ o.invalid = op[p].invalid /\ o.built = op[p].built
    BY <1>1 DEF Operations
  <2>2. op' = [op EXCEPT ![p] = o] /\ Goes(p, step)
    BY <1>1, <1>4 DEF Reject, TypeInv, ProcessTypes
  <2>3. step \in {"lookup", "build"} /\ Len(op[p].results) < Len(Stages)
        /\ step \in Compiling \cup {"reject"} /\ pc[p] \in Compiling \cup {"reject"}
    BY <1>1, <1>4 DEF Compiles, Compiling
  <2>4. altered' \subseteq altered
    BY <1>2 DEF KeepsStore, KeepsFiles
  <2> HIDE DEF o
  <2>5. ASSUME pc'[p] = step, op'[p] = o PROVE Compiles(p)'
    <3>1. Reuses(o) <=> Reuses(op[p])
      BY <2>1 DEF Reuses
    <3> QED
      BY <1>1, <2>1, <2>3, <2>4, <2>5, <3>1 DEF Compiles, Collecting, Opening, Compiling
  <2> HIDE DEF step
  <2> QED
    BY <1>2, <2>1, <2>2, <2>3, <2>5, CompilationKeeps
<1> QED
  BY <1>3, <1>4

LEMMA LookupKeeps ==
    ASSUME RetainedInv, NEW p \in Processes, Lookup(p), UNCHANGED <<late, contested>>
    PROVE  RetainedInv'
<1>1. pc[p] = "lookup" /\ pc[p] \in Compiling /\ Compiles(p) /\ TypeInv
      /\ Len(op[p].results) < Len(Stages)
  BY DEF RetainedInv, CompileInv, Lookup, Compiling, Compiles
<1>2. KeepsStore /\ FileTypes' /\ staging' = staging
  <2>1. crashes' \in 0..MaxCrashes
    BY <1>1 DEF Lookup, TypeInv, FileTypes
  <2>2. UNCHANGED disk \/ Search(Wanted(p))
    BY DEF Lookup
  <2> QED
    BY <1>1, <2>1, <2>2, SameStore, SearchKeeps DEF Lookup
<1>3. CASE Goes(p, "build") /\ op' = op
  <2>1. "build" \in Compiling
    BY DEF Compiling
  <2> QED
    BY <1>1, <1>2, <1>3, <2>1, OnKeeps
<1>4. ASSUME NEW a \in Candidates(Wanted(p)), NextStage(p) \notin op[p].forced \cup op[p].invalid,
             IF Fails(p, a) THEN Rejects(p, a, "build") ELSE Hit(p, a)
      PROVE  RetainedInv'
  <2>1. a \in Artifacts /\ SpecificationOf(a) = Wants(op[p])
    BY <1>1 DEF Candidates, TypeInv, FileTypes, Wanted, NextStage, Wants
  <2>2. CASE Rejects(p, a, "build")
    BY <1>1, <1>2, <2>1, <2>2, RejectsKeeps
  <2>3. CASE ~Fails(p, a) /\ Hit(p, a)
    <3>1. op[p].decodes => a \notin altered'
      BY <1>2, <2>3 DEF Fails, KeepsStore, KeepsFiles
    <3> QED
      BY <1>1, <1>2, <1>4, <2>1, <2>3, <3>1, StageKeeps
  <2> QED
    BY <1>4, <2>2, <2>3
<1> QED
  BY <1>3, <1>4 DEF Lookup

\* What was made, or was there, is decoded, or is to be found by a search.
LEMMA DecodedKeeps ==
    ASSUME RetainedInv, NEW p \in Processes, pc[p] \in {"build", "confirm"},
           NEW a \in Artifacts, SpecificationOf(a) = Wants(op[p]), Decoded(p, a),
           FileTypes', KeepsStore, staging' = staging
    PROVE  RetainedInv'
<1>1. CASE Rejects(p, a, "idle")
  BY <1>1, RejectsKeeps
<1>2. CASE ~Fails(p, a) /\ Built(p, a)
  <2>1. op[p].decodes => a \notin altered'
    BY <1>2 DEF Fails, KeepsStore, KeepsFiles
  <2> QED
    BY <1>2, <2>1, StageKeeps
<1> QED
  BY <1>1, <1>2 DEF Decoded

LEMMA BuildKeeps ==
    ASSUME RetainedInv, NEW p \in Processes, Build(p), UNCHANGED <<late, contested>>
    PROVE  RetainedInv'
<1>1. pc[p] = "build" /\ pc[p] # "idle" /\ TypeInv /\ UNCHANGED <<started, crashes>>
  BY DEF RetainedInv, Build
<1>2. crashes' \in 0..MaxCrashes
  BY <1>1 DEF TypeInv, FileTypes
<1>3. CASE EndsNow(p) /\ UNCHANGED disk
  BY <1>1, <1>2, <1>3, EndKeeps, SameStore, SameDirectories
<1>4. ASSUME NEW output \in Outputs[NextStage(p)], NEW a, a = Artifact(Wanted(p), output),
             PutExisting(p, a, Put(p, a, Decoded(p, a)))
      PROVE  RetainedInv'
  <2>1. a \in Artifacts /\ SpecificationOf(a) = Wants(op[p])
    BY <1>1, <1>4, MadeIsWanted
  <2>2. UNCHANGED disk \/ Resolve(a)
    BY <1>4 DEF PutExisting
  <2>3. KeepsStore /\ FileTypes' /\ staging' = staging
    BY <1>1, <1>2, <2>2, SameStore, ResolveKeeps
  <2>4. \/ Writes(p, a) \/ EndsNow(p)
        \/ op' = [op EXCEPT ![p].made = a] /\ Goes(p, "confirm")
        \/ Decoded(p, a)
    BY <1>4 DEF PutExisting, Put
  <2>5. CASE Writes(p, a)
    BY <1>1, <2>1, <2>3, <2>5, MadeKeeps DEF Writes
  <2>6. CASE EndsNow(p)
    BY <1>1, <2>3, <2>6, EndKeeps, SameDirectories
  <2>7. CASE op' = [op EXCEPT ![p].made = a] /\ Goes(p, "confirm")
    BY <1>1, <2>1, <2>3, <2>7, MadeKeeps
  <2>8. CASE Decoded(p, a)
    BY <1>1, <2>1, <2>3, <2>8, DecodedKeeps
  <2> QED
    BY <2>4, <2>5, <2>6, <2>7, <2>8
<1> QED
  BY <1>3, <1>4 DEF Build

LEMMA RenameKeeps ==
    ASSUME RetainedInv, NEW p \in Processes, Rename(p), UNCHANGED <<late, contested>>
    PROVE  RetainedInv'
<1> DEFINE a == op[p].made
<1>1. pc[p] = "rename" /\ pc[p] # "idle" /\ TypeInv /\ UNCHANGED <<started, crashes>>
      /\ a \in Artifacts /\ SpecificationOf(a) = Wants(op[p])
  BY DEF RetainedInv, CompileInv, Rename, Compiles
<1> HIDE DEF a
<1>2. CASE EndsNow(p) /\ UNCHANGED disk
  <2>1. KeepsStore /\ FileTypes' /\ staging' = staging
    BY <1>1, <1>2, SameStore DEF TypeInv, FileTypes
  <2> QED
    BY <1>1, <1>2, <2>1, EndKeeps, SameDirectories
<1>3. CASE /\ stored' = stored \cup {a} /\ altered' = altered \ {a}
           /\ quarantine' = quarantine \ {a}
           /\ UNCHANGED <<damaged, illegible, old, staging, pins>>
           /\ Put(p, a, Built(p, a))
  <2>1. KeepsStore /\ FileTypes' /\ staging' = staging
    BY <1>1, <1>3 DEF TypeInv, FileTypes, KeepsStore, KeepsFiles
  <2>2. a \notin altered'
    BY <1>3
  <2>3. CASE Built(p, a)
    BY <1>1, <2>1, <2>2, <2>3, StageKeeps
  <2>4. CASE op' = [op EXCEPT ![p].made = a] /\ Goes(p, "confirm")
    BY <1>1, <2>1, <2>4, MadeKeeps
  <2> QED
    BY <1>3, <2>3, <2>4 DEF Put
<1> QED
  BY <1>2, <1>3 DEF Rename, PutRename, a

LEMMA ConfirmKeeps ==
    ASSUME RetainedInv, NEW p \in Processes, Confirm(p), UNCHANGED <<late, contested>>
    PROVE  RetainedInv'
<1>1. pc[p] = "confirm" /\ pc[p] # "idle" /\ TypeInv
      /\ op[p].made \in Artifacts /\ SpecificationOf(op[p].made) = Wants(op[p])
  BY DEF RetainedInv, CompileInv, Confirm, Compiles
<1>2. KeepsStore /\ FileTypes' /\ staging' = staging
  BY <1>1, SearchKeeps DEF Confirm
<1>3. CASE EndsNow(p)
  BY <1>1, <1>2, <1>3, EndKeeps, SameDirectories
<1>4. CASE Decoded(p, op[p].made)
  BY <1>1, <1>2, <1>4, DecodedKeeps
<1> QED
  BY <1>3, <1>4 DEF Confirm

\* Every nonempty set of naturals that none exceeds has a greatest element.
LEMMA GreatestNatural ==
    ASSUME NEW n \in Nat, NEW T, T \subseteq 0..n, T # {}
    PROVE  Max(T) \in T /\ \A y \in T : y <= Max(T)
<1> DEFINE Rest == {n - x : x \in T}
<1>1. Rest \subseteq Nat /\ Rest # {}
  OBVIOUS
<1>2. PICK r \in Rest : \A y \in Rest : r <= y
  <2> HIDE DEF Rest
  <2> QED
    BY <1>1, LeastNatural
<1>3. PICK x \in T : r = n - x
  OBVIOUS
<1>4. \A y \in T : x >= y
  <2> SUFFICES ASSUME NEW y \in T PROVE x >= y
    OBVIOUS
  <2>1. n - x <= n - y
    BY <1>2, <1>3
  <2>2. x \in Int /\ y \in Int
    OBVIOUS
  <2> QED
    BY <2>1, <2>2
<1>5. Max(T) \in T /\ \A y \in T : Max(T) >= y
  BY <1>4 DEF Max
<1>6. \A y \in T : y \in Int
  OBVIOUS
<1> QED
  BY <1>5, <1>6

LEMMA LineageKeeps ==
    ASSUME RetainedInv, NEW p \in Processes, Lineage(p), UNCHANGED <<late, contested>>
    PROVE  RetainedInv'
<1> DEFINE i == op[p].input
           a == pins[i]
           made == InOrder(a)
           examined == Examined(a)
           last == Max(examined)
           found == UNION {Searched(SpecificationOf(made[n])) : n \in examined \ {1}}
<1>1. pc[p] = "lineage" /\ pc[p] \in Compiling /\ pc[p] # "idle" /\ Compiles(p) /\ TypeInv
      /\ op[p].results = <<>> /\ i \in Inputs /\ i # None /\ op[p] \in Operations
      /\ UNCHANGED <<started, crashes>> /\ op[p].forced = {} /\ op[p].built = {}
  <2>1. pc[p] = "lineage" /\ pc[p] \in Compiling /\ pc[p] # "idle" /\ UNCHANGED <<started, crashes>>
    BY DEF Lineage, Compiling
  <2>2. Compiles(p) /\ TypeInv /\ op[p] \in Operations
    BY <2>1, OperationTypes DEF RetainedInv, CompileInv
  <2>3. op[p].results = <<>> /\ i \in Inputs
    BY <2>1, <2>2 DEF Compiles
  <2>4. op[p].forced = {} /\ op[p].built = {}
    BY <2>1, <2>2 DEF Compiles
  <2> QED
    BY <2>1, <2>2, <2>3, <2>4, NoneIsNothing
<1>2. Len(op[p].results) < Len(Stages)
  BY <1>1, EmptySeq, StoreConstants
<1>3. KeepsStore /\ FileTypes' /\ staging' = staging
  <2>1. crashes' \in 0..MaxCrashes
    BY <1>1 DEF TypeInv, FileTypes
  <2>2. found \subseteq stored
    BY <1>1 DEF Searched, TypeInv, FileTypes
  <2>3. UNCHANGED disk \/ Resolve(a) \/ Quarantine(found)
    BY DEF Lineage
  <2> QED
    BY <1>1, <2>1, <2>2, <2>3, SameStore, ResolveKeeps, QuarantineKeeps
<1> HIDE DEF found
<1>4. \/ Goes(p, "lookup") /\ op' = op
      \/ made[last] \in altered /\ Rejects(p, made[last], "lookup")
      \/ /\ a # None /\ HasEveryStage(a) /\ Settled(a, last) /\ made[last] \notin altered
         /\ op' = [op EXCEPT ![p].results = made] /\ Goes(p, "publish")
  BY DEF Lineage
<1> HIDE DEF made
<1>5. CASE Goes(p, "lookup") /\ op' = op
  <2>1. "lookup" \in Compiling
    BY DEF Compiling
  <2> QED
    BY <1>1, <1>2, <1>3, <1>5, <2>1, OnKeeps
<1>6. CASE made[last] \in altered /\ Rejects(p, made[last], "lookup")
  <2>1. made[last] \in Artifacts
    BY <1>1, <1>6 DEF TypeInv, FileTypes
  <2> QED
    BY <1>1, <1>3, <1>6, <2>1, RejectsKeeps
<1>7. CASE /\ a # None /\ HasEveryStage(a) /\ Settled(a, last) /\ made[last] \notin altered
           /\ op' = [op EXCEPT ![p].results = made] /\ Goes(p, "publish")
  <2> DEFINE N == Len(Stages)
             o == [op[p] EXCEPT !.results = made]
  <2>0. N \in Nat \ {0} /\ DOMAIN Stages = 1..N
    BY StoreConstants
  <2>1. PICK s \in Compilations[i] : a = Last(s)
    BY <1>1, <1>7 DEF RetainedInv, CompileInv
  <2>2. made = s /\ IsBegun(i, made) /\ Len(made) = N
    BY <1>1, <1>7, <2>1, PinsAreWhole, MadeIsBegun DEF made
  <2>3. made \in Seq(Artifacts) /\ DOMAIN made = 1..N
    <3>1. PICK S : made \in Seq(S)
      BY <2>2 DEF IsBegun
    <3>2. \A n \in 1..Len(made) : made[n] \in Artifacts
      BY <1>1, <2>2, ArtifactIs
    <3> QED
      BY <2>2, <3>1, <3>2, SeqDef, LenProperties
  \* None that comes after the last examined one is there.
  <2>4. \A n \in 1..N : made[n] \notin altered
    <3>1. examined = {n \in 1..N : \A m \in 1..(n - 1) : Settled(a, m) /\ made[m] \notin altered}
      BY <2>0 DEF Examined, made
    <3>2. 1 \in examined /\ examined \subseteq 0..N
      BY <2>0, <3>1
    <3> HIDE DEF examined, N
    <3>3. last \in examined /\ \A n \in examined : n <= last
      BY <2>0, <3>2, GreatestNatural
    <3> HIDE DEF last
    <3>4. last \in 1..N /\ \A m \in 1..(last - 1) : Settled(a, m) /\ made[m] \notin altered
      BY <3>1, <3>3
    <3>5. \A m \in 1..last : Settled(a, m) /\ made[m] \notin altered
      <4>1. \A m \in 1..last : m = last \/ m \in 1..(last - 1)
        BY <3>4
      <4> QED
        BY <1>7, <3>4, <4>1
    <3>6. last = N
      <4> SUFFICES ASSUME last # N PROVE FALSE
        OBVIOUS
      <4>1. last + 1 \in 1..N /\ (last + 1) - 1 = last
        BY <2>0, <3>4
      <4>2. last + 1 \in examined
        BY <3>1, <3>5, <4>1
      <4> QED
        BY <3>3, <3>4, <4>2
    <3> QED
      BY <3>5, <3>6
  <2>5. Range(made) \cap altered' = {}
    BY <1>3, <2>3, <2>4 DEF Range, KeepsStore, KeepsFiles
  <2> HIDE DEF N
  <2>6. /\ o \in Operations
        /\ o.number = op[p].number /\ o.tx = op[p].tx /\ o.then = op[p].then
        /\ o.results = made /\ o.input = i /\ o.decodes = op[p].decodes
        /\ o.forced = {} /\ o.built = {}
    BY <1>1, <2>3 DEF Operations
  <2>7. op' = [op EXCEPT ![p] = o]
    BY <1>7
  <2> HIDE DEF o
  <2>8. Reuses(o)
    BY <2>6 DEF Reuses
  <2>9. ASSUME pc'[p] = "publish", op'[p] = o PROVE Compiles(p)'
    BY <1>1, <2>2, <2>5, <2>6, <2>8, <2>9 DEF Compiles, Collecting, Opening, Compiling
  <2>10. "publish" \in Compiling \cup {"reject"} /\ pc[p] \in Compiling \cup {"reject"}
    BY <1>1 DEF Compiling
  <2> QED
    BY <1>3, <1>7, <2>6, <2>7, <2>9, <2>10, CompilationKeeps
<1> QED
  BY <1>4, <1>5, <1>6, <1>7

LEMMA PinKeeps ==
    ASSUME RetainedInv, NEW p \in Processes, Pin(p), UNCHANGED <<late, contested>>
    PROVE  RetainedInv'
<1>1. pc[p] = "pin" /\ pc[p] \in Compiling /\ pc[p] # "idle" /\ Compiles(p) /\ TypeInv
      /\ Len(op[p].results) = Len(Stages) /\ "writepin" \in Compiling
  BY DEF RetainedInv, CompileInv, Pin, Compiling, Compiles
<1>2. KeepsStore /\ FileTypes' /\ staging' = staging
  BY <1>1, ResolveKeeps DEF Pin
<1>3. CASE EndsNow(p)
  BY <1>1, <1>2, <1>3, EndKeeps, SameDirectories
<1>4. CASE Goes(p, "writepin") /\ op' = op
  BY <1>1, <1>2, <1>4, OnKeeps
<1> QED
  BY <1>3, <1>4 DEF Pin

LEMMA PublishKeeps ==
    ASSUME RetainedInv, NEW p \in Processes, Publish(p), UNCHANGED <<late, contested>>
    PROVE  RetainedInv'
<1>1. pc[p] # "idle" /\ EndsNow(p) /\ TypeInv
  BY DEF RetainedInv, Publish
<1>2. KeepsStore /\ FileTypes' /\ staging' = staging
  BY <1>1, SameStore DEF Publish, TypeInv, FileTypes
<1> QED
  BY <1>1, <1>2, EndKeeps, SameDirectories

\* A process is killed at any step.
LEMMA KillKeeps ==
    ASSUME RetainedInv, NEW p \in Processes, Kill(p), UNCHANGED <<late, contested>>
    PROVE  RetainedInv'
<1>1. pc[p] # "idle" /\ EndsNow(p) /\ TypeInv
  BY DEF RetainedInv, Kill
<1>2. crashes' \in 0..MaxCrashes
  BY <1>1, StoreConstants DEF Kill, TypeInv, FileTypes
<1>3. KeepsStore /\ FileTypes' /\ staging' = staging
  BY <1>1, <1>2, SameStore DEF Kill
<1> QED
  BY <1>1, <1>3, EndKeeps, SameDirectories

-----------------------------------------------------------------------------
(* The steps of collections and recoveries *)

\* It goes from one step to another, and knows of the compilation that may
\* follow what it knew.
LEMMA CollectionKeeps ==
    ASSUME RetainedInv, NEW p \in Processes, pc[p] \in Opening \cup Collecting,
           NEW step \in Opening \cup Collecting \cup {op[p].next}, NEW o \in Operations,
           step \in Collecting => op[p].next = "plan",
           step \notin Opening \cup Collecting => pc[p] \in Opening,
           Goes(p, step), op' = [op EXCEPT ![p] = o],
           o.number = op[p].number, o.next = op[p].next, o = op[p] \/ SameWork(o, op[p]),
           o.tx \in {op[p].tx, 0}, op[p].tx = op[p].number => o.tx = op[p].tx,
           o.tx # 0 /\ o.then # "recover" => op[p].then # "recover",
           FileTypes', KeepsStore, KeepsDirectories(p),
           pc'[p] = step /\ op'[p] = o =>
               Collects(p)' /\ Moves(p)' /\ (o.tx # 0 => Settles(p)')
    PROVE  RetainedInv'
<1>1. pc[p] # "idle" /\ Compiles(p)
  BY DEF RetainedInv, CompileInv, Opening, Collecting
<1>2. op[p].next \in {"lineage", "lookup", "plan"}
      /\ (pc[p] \in Opening /\ op[p].next # "plan" => op[p].input \in Inputs /\ op[p].results = <<>>)
  BY <1>1 DEF Compiles
<1>3. step \in Steps \ {"idle"}
  BY <1>2 DEF Steps, Opening, Collecting, Compiling
<1>4. altered' \subseteq altered
  BY DEF KeepsStore, KeepsFiles
<1>5. ASSUME pc'[p] = step, op'[p] = o PROVE Compiles(p)'
  <2>1. step \in Opening /\ op[p].next # "plan" => op[p].input \in Inputs /\ op[p].results = <<>>
    BY <1>1, <1>2 DEF Compiles, Opening, Collecting
  <2>2. o.input = op[p].input /\ o.results = op[p].results
        /\ o.forced = op[p].forced /\ o.built = op[p].built
    BY DEF SameWork
  <2>3. o.input # None =>
          /\ IsBegun(o.input, o.results) /\ Reuses(o)
          /\ o.decodes => Range(o.results) \cap altered' = {}
    <3>1. Reuses(o) <=> Reuses(op[p])
      BY DEF SameWork, Reuses
    <3>2. o.decodes = op[p].decodes
      BY DEF SameWork
    <3> QED
      BY <1>1, <1>4, <2>2, <3>1, <3>2 DEF Compiles
  <2>4. o.next = "lineage" /\ step \in Opening \cup {"lineage"} => o.forced = {} /\ o.built = {}
    BY <1>1, <2>2 DEF Compiles, Opening, Collecting
  <2>5. CASE step \in Opening \cup Collecting
    BY <1>2, <1>5, <2>1, <2>2, <2>3, <2>4, <2>5 DEF Compiles, Opening, Collecting, Compiling
  <2>6. CASE step \notin Opening \cup Collecting
    <3>1. step = op[p].next /\ pc[p] \in Opening /\ step \in {"lineage", "lookup"}
      BY <1>2, <2>6 DEF Opening, Collecting
    <3>2. op[p].input \in Inputs /\ op[p].results = <<>> /\ Len(op[p].results) < Len(Stages)
      BY <1>2, <3>1, EmptySeq, StoreConstants
    <3> QED
      BY <1>5, <2>2, <2>3, <2>4, <3>1, <3>2 DEF Compiles, Opening, Collecting, Compiling
  <2> QED
    BY <2>5, <2>6
<1>6. pc'[p] = step /\ op'[p] = o => GoesOn(p)
  BY <1>5 DEF GoesOn
<1> QED
  BY <1>1, <1>3, <1>6, GoKeeps

\* The facts about an operation that the steps below use.
LEMMA OperationInv ==
    ASSUME RetainedInv, NEW p \in Processes, pc[p] # "idle"
    PROVE  /\ TypeInv /\ op[p] \in Operations /\ Compiles(p) /\ Collects(p) /\ Moves(p)
           /\ op[p].tx # 0 => Settles(p)
           /\ op' = op => op' = [op EXCEPT ![p] = op[p]]
           /\ op[p].number \in Transactions /\ op[p].number # 0
           /\ op[p].tx # 0 => op[p].tx \in Transactions
<1>1. TypeInv
  BY DEF RetainedInv
<1>2. op[p] \in Operations /\ op = [q \in Processes |-> op[q]]
  BY <1>1, OperationTypes DEF TypeInv, ProcessTypes
<1> QED
  BY <1>1, <1>2, OperationTypes DEF RetainedInv, CompileInv, NumberInv, MoveInv, WholeInv

LEMMA OpenKeeps ==
    ASSUME RetainedInv, NEW p \in Processes, Open(p), UNCHANGED <<late, contested>>
    PROVE  RetainedInv'
<1>1. pc[p] = "open" /\ pc[p] # "idle" /\ pc[p] \in Opening
  BY DEF Open, Opening
<1>2. TypeInv /\ op[p] \in Operations /\ Compiles(p) /\ Collects(p) /\ op[p].number # 0
  BY <1>1, OperationInv
<1> DEFINE found == {t \in Transactions : staging[t] # None}
           o == [op[p] EXCEPT !.left = found]
           step == IF found = {} THEN op[p].next ELSE "recover"
<1>3. /\ o \in Operations
      /\ o.number = op[p].number /\ o.next = op[p].next /\ SameWork(o, op[p])
      /\ o.tx = op[p].tx /\ o.then = op[p].then
  <2>1. found \in SUBSET Transactions
    OBVIOUS
  <2> HIDE DEF found
  <2> QED
    BY <1>2, <2>1 DEF Operations, SameWork
<1>4. op' = [op EXCEPT ![p] = o] /\ Goes(p, step)
  BY DEF Open
<1>5. KeepsStore /\ FileTypes' /\ KeepsDirectories(p)
  BY <1>2, SameStore, SameDirectories DEF Open, TypeInv, FileTypes
<1>6. step \in {"recover", op[p].next} /\ "recover" \in Opening
      /\ op[p].next \in {"lineage", "lookup", "plan"}
      /\ op[p].tx = 0 /\ op[p].then = "raise"
      /\ op[p].number <= started /\ started' = started /\ op[p].tx <= started
  BY <1>1, <1>2 DEF Opening, Compiles, Collects, Open
<1> HIDE DEF step, o
<1>7. ASSUME pc'[p] = step, op'[p] = o PROVE Collects(p)' /\ Moves(p)'
  BY <1>3, <1>6, <1>7 DEF Collects, Moves, Compiling
<1>8. /\ step \in Opening \cup Collecting \cup {op[p].next}
      /\ step \in Collecting => op[p].next = "plan"
  BY <1>6 DEF Opening, Collecting
<1> QED
  BY <1>1, <1>3, <1>4, <1>5, <1>6, <1>7, <1>8, CollectionKeeps

LEMMA PlanKeeps ==
    ASSUME RetainedInv, NEW p \in Processes, Plan(p), UNCHANGED <<late, contested>>
    PROVE  RetainedInv'
<1>1. pc[p] = "plan" /\ pc[p] # "idle" /\ pc[p] \in Collecting /\ "collect" \in Collecting
  BY DEF Plan, Collecting
<1>2. TypeInv /\ op[p] \in Operations /\ Compiles(p) /\ Collects(p) /\ op[p].number # 0
  BY <1>1, OperationInv
<1>3. KeepsStore /\ FileTypes' /\ KeepsDirectories(p)
  BY <1>2, SameStore, SameDirectories DEF Plan, TypeInv, FileTypes
<1>4. CASE EndsNow(p)
  BY <1>1, <1>3, <1>4, EndKeeps
<1>5. CASE op' = [op EXCEPT ![p].plan = CurrentPlan] /\ Goes(p, "collect")
  <2> DEFINE plan == CurrentPlan
             o == [op[p] EXCEPT !.plan = plan]
  <2>1. plan \in Plans
    <3>1. Roots \subseteq Artifacts
      BY <1>2 DEF Roots, TypeInv, FileTypes
    <3>2. Reachable \subseteq Artifacts
      BY <3>1, ClosureOfArtifacts DEF Reachable
    <3>3. Disposable \subseteq Artifacts
      BY <1>2 DEF Disposable, TypeInv, FileTypes
    <3> QED
      BY <3>2, <3>3 DEF CurrentPlan, Plans
  <2> HIDE DEF plan
  <2>2. plan # None
    BY <2>1, NoneIsNothing
  <2>3. /\ o \in Operations
        /\ o.number = op[p].number /\ o.next = op[p].next /\ SameWork(o, op[p])
        /\ o.tx = op[p].tx /\ o.then = op[p].then /\ o.plan = plan
    BY <1>2, <2>1 DEF Operations, SameWork
  <2>4. op' = [op EXCEPT ![p] = o]
    BY <1>5 DEF plan
  <2>5. op[p].next = "plan" /\ op[p].tx = 0 /\ op[p].then = "raise"
        /\ op[p].number <= started /\ started' = started /\ op[p].tx <= started
    BY <1>1, <1>2 DEF Collecting, Compiles, Collects, Plan
  <2> HIDE DEF o
  <2>6. ASSUME pc'[p] = "collect", op'[p] = o PROVE Collects(p)' /\ Moves(p)'
    BY <2>2, <2>3, <2>5, <2>6 DEF Collects, Moves, Compiling
  <2> QED
    BY <1>1, <1>3, <1>5, <2>3, <2>4, <2>5, <2>6, CollectionKeeps
<1> QED
  BY <1>4, <1>5 DEF Plan

\* An error of a collector that has moved something: it moves it back. Nothing
\* else knows of it.
LEMMA RaiseKeeps ==
    ASSUME RetainedInv, NEW p \in Processes, pc[p] \in {"list", "remove", "move"}, Raise(p),
           UNCHANGED disk, UNCHANGED <<started, crashes, late, contested>>
    PROVE  RetainedInv'
<1>1. pc[p] # "idle" /\ pc[p] \in Opening \cup Collecting /\ "rollback" \in Opening
  BY DEF Opening, Collecting
<1>2. TypeInv /\ op[p] \in Operations /\ Compiles(p) /\ Collects(p) /\ Moves(p)
      /\ (op[p].tx # 0 => Settles(p)) /\ op[p].number # 0
      /\ (op' = op => op' = [op EXCEPT ![p] = op[p]])
  BY <1>1, OperationInv
<1>3. KeepsStore /\ FileTypes' /\ KeepsDirectories(p)
  BY <1>2, SameStore, SameDirectories DEF TypeInv, FileTypes
<1>4. CASE EndsNow(p)
  BY <1>1, <1>3, <1>4, EndKeeps
<1>5. CASE op[p].then = "done" /\ Goes(p, "rollback") /\ UNCHANGED op
  <2>1. op[p].tx = op[p].number /\ op[p].number <= started
    BY <1>2, <1>5 DEF Collects
  <2>2. staging' = staging /\ Safe' = Safe
    BY DEF disk, Safe
  <2>3. staging[op[p].tx] # None => op[p].moved \subseteq staging[op[p].tx].ids
    BY <1>2, <1>5 DEF Moves
  <2>4. staging[op[p].tx] # None /\ staging[op[p].tx].state = "moving" =>
            staging[op[p].tx].ids \subseteq Safe \cup op[p].moved
    BY <1>2, <1>5, <2>1 DEF Settles, Unsettled
  <2>5. ASSUME pc'[p] = "rollback", op'[p] = op[p] PROVE Collects(p)' /\ Moves(p)' /\ Settles(p)'
    BY <1>5, <2>1, <2>2, <2>3, <2>4, <2>5 DEF Collects, Moves, Settles, Unsettled, Compiling
  <2> QED
    BY <1>1, <1>2, <1>3, <1>5, <2>5, CollectionKeeps DEF Opening, Collecting
<1> QED
  BY <1>4, <1>5 DEF Raise

LEMMA ListEntriesKeeps ==
    ASSUME RetainedInv, NEW p \in Processes, ListEntries(p), UNCHANGED <<late, contested>>
    PROVE  RetainedInv'
<1>1. pc[p] = "list" /\ pc[p] # "idle" /\ pc[p] \in Opening /\ "remove" \in Opening
  BY DEF ListEntries, Opening
<1>2. TypeInv /\ op[p] \in Operations /\ Collects(p) /\ Moves(p) /\ op[p].tx # 0 /\ Settles(p)
      /\ op[p].tx \in Transactions /\ op[p].number # 0
  BY <1>1, OperationInv DEF Collects
<1>3. CASE Raise(p)
  BY <1>1, <1>3, RaiseKeeps DEF ListEntries
<1>4. CASE staging[op[p].tx] # None /\ op' = [op EXCEPT ![p].todo = Remaining(p)] /\ Goes(p, "remove")
  <2> DEFINE todo == Remaining(p)
             o == [op[p] EXCEPT !.todo = todo]
  <2>1. todo \subseteq Artifacts \cup {TransactionFile}
    <3>1. staging[op[p].tx] \in Directories
      BY <1>2, <1>4 DEF TypeInv, FileTypes
    <3> QED
      BY <1>4, <3>1 DEF Remaining, Entries, Directories
  <2> HIDE DEF todo
  <2>2. /\ o \in Operations
        /\ o.number = op[p].number /\ o.next = op[p].next /\ SameWork(o, op[p])
        /\ o.tx = op[p].tx /\ o.then = op[p].then /\ o.moved = op[p].moved
    BY <1>2, <2>1 DEF Operations, SameWork
  <2>3. op' = [op EXCEPT ![p] = o]
    BY <1>4 DEF todo
  <2>4. KeepsStore /\ FileTypes' /\ KeepsDirectories(p)
    BY <1>2, SameStore, SameDirectories DEF ListEntries, TypeInv, FileTypes
  <2>5. staging' = staging /\ Safe' = Safe /\ started' = started
    BY DEF ListEntries, disk, Safe
  <2> HIDE DEF o
  <2>6. ASSUME pc'[p] = "remove", op'[p] = o PROVE Collects(p)' /\ Moves(p)' /\ Settles(p)'
    <3>1. Collects(p)'
      BY <1>1, <1>2, <2>2, <2>5, <2>6 DEF Collects, Compiling
    <3>2. Moves(p)'
      BY <1>1, <1>2, <2>2, <2>5, <2>6 DEF Moves
    <3>3. Settles(p)'
      BY <1>1, <1>2, <2>2, <2>5, <2>6 DEF Settles, Unsettled
    <3> QED
      BY <3>1, <3>2, <3>3
  <2>7. "remove" \notin Collecting
    BY DEF Collecting
  <2> QED
    BY <1>1, <1>4, <2>2, <2>3, <2>4, <2>6, <2>7, CollectionKeeps
<1> QED
  BY <1>3, <1>4 DEF ListEntries

\* A change to the directory a process works on that loses nothing.
LEMMA DirectoryKeeps ==
    ASSUME TypeInv, NEW p \in Processes, op[p].tx \in Transactions,
           NEW d \in Directories \cup {None}, staging' = [staging EXCEPT ![op[p].tx] = d],
           d # None =>
               /\ staging[op[p].tx] # None
               /\ d.held \subseteq d.ids /\ d.ids = staging[op[p].tx].ids
               /\ d.state = "moving" =>
                     /\ staging[op[p].tx].state = "moving"
                     /\ staging[op[p].tx].held \ d.held \subseteq Safe'
    PROVE  /\ KeepsDirectories(p) /\ staging'[op[p].tx] = d
           /\ staging' \in [Transactions -> Directories \cup {None}]
           /\ \A t \in Transactions : staging'[t] # None => staging'[t].held \subseteq staging'[t].ids
<1> DEFINE u == op[p].tx
<1>1. /\ u \in Transactions /\ staging \in [Transactions -> Directories \cup {None}]
      /\ \A t \in Transactions : staging[t] # None => staging[t].held \subseteq staging[t].ids
      /\ staging' = [staging EXCEPT ![u] = d]
  BY DEF TypeInv, FileTypes
<1> HIDE DEF u
<1>2. staging'[u] = d /\ \A t \in Transactions : t # u => staging'[t] = staging[t]
  BY <1>1
<1>3. staging' \in [Transactions -> Directories \cup {None}]
  BY <1>1
<1>4. /\ staging[u] # None \/ d = None
      /\ d # None => d.held \subseteq d.ids /\ d.ids = staging[u].ids
      /\ d # None /\ d.state = "moving" =>
            staging[u].state = "moving" /\ staging[u].held \ d.held \subseteq Safe'
  BY DEF u
<1>5. ASSUME NEW t \in Transactions
      PROVE  /\ t # u => staging'[t] = staging[t]
             /\ staging'[t] # None =>
                   /\ staging[t] # None /\ staging'[t].ids = staging[t].ids
                   /\ staging'[t].held \subseteq staging'[t].ids
                   /\ staging'[t].state = "moving" =>
                         /\ staging[t].state = "moving"
                         /\ staging[t].held \ staging'[t].held \subseteq Safe'
  <2>1. CASE t = u
    BY <1>2, <1>4, <2>1
  <2>2. CASE t # u
    BY <1>1, <1>2, <2>2
  <2> QED
    BY <2>1, <2>2
<1> QED
  BY <1>2, <1>3, <1>5 DEF KeepsDirectories, u

LEMMA RemoveEntryKeeps ==
    ASSUME RetainedInv, NEW p \in Processes, RemoveEntry(p), UNCHANGED <<late, contested>>
    PROVE  RetainedInv'
<1>1. pc[p] = "remove" /\ pc[p] # "idle" /\ pc[p] \in Opening /\ "remove" \in Opening
      /\ "remove" \notin Collecting
  BY DEF RemoveEntry, Opening, Collecting
<1>2. TypeInv /\ op[p] \in Operations /\ Collects(p) /\ Moves(p) /\ op[p].tx # 0 /\ Settles(p)
      /\ op[p].tx \in Transactions /\ op[p].number # 0
  BY <1>1, OperationInv DEF Collects
<1>3. PICK e \in op[p].todo :
         \/ e \notin Remaining(p) /\ Raise(p) /\ UNCHANGED staging
         \/ /\ e \in Remaining(p)
            /\ staging' = [staging EXCEPT ![op[p].tx] = Without(@, e)]
            /\ op' = [op EXCEPT ![p].todo = @ \ {e}]
            /\ UNCHANGED pc
  BY DEF RemoveEntry
<1>4. UNCHANGED <<stored, damaged, illegible, altered, old, quarantine, pins, started, crashes>>
  BY DEF RemoveEntry
<1>5. CASE Raise(p) /\ UNCHANGED staging
  BY <1>1, <1>4, <1>5, RaiseKeeps DEF disk
<1>6. CASE /\ e \in Remaining(p)
           /\ staging' = [staging EXCEPT ![op[p].tx] = Without(@, e)]
           /\ op' = [op EXCEPT ![p].todo = @ \ {e}]
           /\ UNCHANGED pc
  <2> DEFINE t == op[p].tx
             d == Without(staging[t], e)
             todo == op[p].todo \ {e}
             o == [op[p] EXCEPT !.todo = todo]
  <2>1. staging[t] # None /\ staging[t] \in Directories /\ staging[t].held \subseteq staging[t].ids
    BY <1>2, <1>6 DEF Remaining, TypeInv, FileTypes
  <2>2. d \in Directories /\ d.ids = staging[t].ids /\ d.held \subseteq staging[t].held
        /\ (d.state = "moving" => staging[t].state = "moving")
    <3>1. CASE e = TransactionFile
      BY <2>1, <3>1 DEF Without, Directories
    <3>2. CASE e # TransactionFile
      <4> DEFINE held == staging[t].held \ {e}
      <4>1. d = [staging[t] EXCEPT !.held = held]
        BY <3>2 DEF Without
      <4>2. held \in SUBSET Artifacts /\ held \subseteq staging[t].held
        BY <2>1 DEF Directories
      <4> HIDE DEF held, d, t
      <4> QED
        BY <2>1, <4>1, <4>2 DEF Directories
    <3> QED
      BY <3>1, <3>2
  <2>3. todo \subseteq Artifacts \cup {TransactionFile}
    BY <1>2 DEF Operations
  <2>4. op' = [op EXCEPT ![p] = o] /\ staging' = [staging EXCEPT ![t] = d]
    BY <1>6
  <2> HIDE DEF todo
  <2>5. /\ o \in Operations
        /\ o.number = op[p].number /\ o.next = op[p].next /\ SameWork(o, op[p])
        /\ o.tx = op[p].tx /\ o.then = op[p].then /\ o.moved = op[p].moved
    BY <1>2, <2>3 DEF Operations, SameWork
  <2>6. Safe' = Safe /\ started' = started
    BY <1>4 DEF Safe
  <2>7. d.state = "moving" => op[p].then # "done" /\ staging[t].ids \subseteq Safe
    BY <1>1, <1>2, <2>1, <2>2 DEF Settles, Unsettled
  <2> HIDE DEF d, o
  <2>8. KeepsDirectories(p) /\ staging'[t] = d
        /\ staging' \in [Transactions -> Directories \cup {None}]
        /\ \A u \in Transactions : staging'[u] # None => staging'[u].held \subseteq staging'[u].ids
    <3>1. staging[t].held \ d.held \subseteq Safe' \/ d.state # "moving"
      BY <2>1, <2>6, <2>7
    <3>2. d.held \subseteq d.ids
      BY <2>1, <2>2
    <3> QED
      BY <1>2, <2>1, <2>2, <2>4, <3>1, <3>2, DirectoryKeeps
  <2>9. KeepsStore /\ FileTypes'
    BY <1>2, <1>4, <2>8 DEF KeepsStore, KeepsFiles, TypeInv, FileTypes
  <2>10. ASSUME pc'[p] = "remove", op'[p] = o PROVE Collects(p)' /\ Moves(p)' /\ Settles(p)'
    <3>1. Collects(p)'
      BY <1>1, <1>2, <2>5, <2>6, <2>10 DEF Collects, Compiling
    <3>2. Moves(p)'
      BY <1>1, <1>2, <2>1, <2>2, <2>5, <2>8, <2>10 DEF Moves
    <3>3. Settles(p)'
      BY <1>1, <1>2, <2>2, <2>5, <2>6, <2>7, <2>8, <2>10 DEF Settles, Unsettled
    <3> QED
      BY <3>1, <3>2, <3>3
  <2>11. Goes(p, "remove")
    BY <1>1, <1>2, <1>6 DEF Goes, TypeInv, ProcessTypes
  <2> QED
    BY <1>1, <2>4, <2>5, <2>8, <2>9, <2>10, <2>11, CollectionKeeps
<1> QED
  BY <1>3, <1>5, <1>6

LEMMA RemoveDirectoryKeeps ==
    ASSUME RetainedInv, NEW p \in Processes, RemoveDirectory(p), UNCHANGED <<late, contested>>
    PROVE  RetainedInv'
<1>1. pc[p] = "remove" /\ pc[p] # "idle" /\ pc[p] \in Opening /\ "recover" \in Opening
      /\ "recover" \notin Collecting
  BY DEF RemoveDirectory, Opening, Collecting
<1>2. TypeInv /\ op[p] \in Operations /\ Collects(p) /\ op[p].tx # 0
      /\ op[p].tx \in Transactions /\ op[p].number # 0
  BY <1>1, OperationInv DEF Collects
<1>3. UNCHANGED <<stored, damaged, illegible, altered, old, quarantine, pins, started, crashes>>
  BY DEF RemoveDirectory
<1>4. CASE Raise(p) /\ UNCHANGED staging
  BY <1>1, <1>3, <1>4, RaiseKeeps DEF disk
<1>5. CASE /\ staging' = [staging EXCEPT ![op[p].tx] = None]
           /\ IF op[p].then = "recover"
              THEN /\ op' = [op EXCEPT ![p].left = @ \ {op[p].tx}, ![p].tx = 0]
                   /\ Goes(p, "recover")
              ELSE EndsNow(p)
  <2>1. KeepsDirectories(p) /\ KeepsStore /\ FileTypes'
    BY <1>2, <1>3, <1>5, DirectoryKeeps DEF KeepsStore, KeepsFiles, TypeInv, FileTypes
  <2>2. CASE op[p].then # "recover"
    BY <1>1, <1>5, <2>1, <2>2, EndKeeps
  <2>3. CASE op[p].then = "recover"
    <3> DEFINE left == op[p].left \ {op[p].tx}
               o == [op[p] EXCEPT !.left = left, !.tx = 0]
    <3>1. left \subseteq Transactions /\ 0 \in 0..MaxOperations
      BY <1>2, StoreConstants DEF Operations
    <3>2. op' = [op EXCEPT ![p] = o]
      BY <1>5, <2>3
    <3> HIDE DEF left
    <3>3. /\ o \in Operations
          /\ o.number = op[p].number /\ o.next = op[p].next /\ SameWork(o, op[p])
          /\ o.tx = 0 /\ o.then = "recover"
      BY <1>2, <2>3, <3>1 DEF Operations, SameWork
    <3>4. op[p].tx # op[p].number /\ op[p].number <= started /\ 0 <= started /\ started' = started
      BY <1>1, <1>2, <1>3, <2>3 DEF Collects, TypeInv, FileTypes
    <3> HIDE DEF o
    <3>5. ASSUME pc'[p] = "recover", op'[p] = o PROVE Collects(p)' /\ Moves(p)'
      BY <3>3, <3>4, <3>5 DEF Collects, Moves, Compiling
    <3> QED
      BY <1>1, <1>5, <2>1, <2>3, <3>2, <3>3, <3>4, <3>5, CollectionKeeps
  <2> QED
    BY <2>2, <2>3
<1> QED
  BY <1>4, <1>5 DEF RemoveDirectory

LEMMA MoveBackKeeps ==
    ASSUME TypeInv, NEW p \in Processes, op[p].tx \in Transactions, NEW a \in Artifacts,
           IsHeld(op[p].tx, a), MoveBack(op[p].tx, a),
           UNCHANGED <<started, crashes, late, contested>>
    PROVE  /\ KeepsStore /\ FileTypes' /\ KeepsDirectories(p)
           /\ Safe' = Safe \cup {a} /\ staging'[op[p].tx] # None
           /\ staging'[op[p].tx].ids = staging[op[p].tx].ids
           /\ staging'[op[p].tx].state = staging[op[p].tx].state
<1> DEFINE t == op[p].tx
           held == staging[t].held \ {a}
           d == [staging[t] EXCEPT !.held = held]
<1>1. staging[t] # None /\ staging[t] \in Directories /\ staging[t].held \subseteq staging[t].ids
  BY DEF TypeInv, FileTypes, IsHeld
<1>2. held \in SUBSET Artifacts
  BY <1>1 DEF Directories
<1>3. staging' = [staging EXCEPT ![t] = d]
  BY DEF MoveBack
<1>4. Safe' = Safe \cup {a}
  BY DEF MoveBack, Safe
<1>5. held \subseteq staging[t].held /\ staging[t].held \ held \subseteq {a}
  OBVIOUS
<1> HIDE DEF held
<1>6. d \in Directories /\ d.ids = staging[t].ids /\ d.state = staging[t].state /\ d.held = held
  BY <1>1, <1>2 DEF Directories
<1>7. d # None
  BY <1>6, NoneIsNothing
<1> HIDE DEF d
<1>8. KeepsDirectories(p) /\ staging'[t] = d
      /\ staging' \in [Transactions -> Directories \cup {None}]
      /\ \A u \in Transactions : staging'[u] # None => staging'[u].held \subseteq staging'[u].ids
  <2>1. d.held \subseteq d.ids
    BY <1>1, <1>5, <1>6
  <2>2. staging[t].held \ d.held \subseteq Safe'
    BY <1>4, <1>5, <1>6
  <2> QED
    BY <1>1, <1>3, <1>6, <2>1, <2>2, DirectoryKeeps
<1>9. KeepsStore /\ FileTypes'
  <2>1. /\ stored' = stored \cup {a} /\ old' = old \cup {a}
        /\ quarantine' = quarantine \ {a} /\ UNCHANGED <<damaged, illegible, altered, pins>>
    BY DEF MoveBack
  <2> QED
    BY <1>8, <2>1 DEF KeepsStore, KeepsFiles, TypeInv, FileTypes
<1> QED
  BY <1>4, <1>6, <1>7, <1>8, <1>9

LEMMA RestoreKeeps ==
    ASSUME RetainedInv, NEW p \in Processes, Restore(p), UNCHANGED <<late, contested>>
    PROVE  RetainedInv'
<1>1. pc[p] = "restore" /\ pc[p] # "idle" /\ {"restore", "list"} \subseteq Opening /\ pc[p] \in Opening
      /\ "restore" \notin Collecting /\ "list" \notin Collecting
  BY DEF Restore, Opening, Collecting
<1>2. TypeInv /\ op[p] \in Operations /\ Collects(p) /\ op[p].tx # 0 /\ Settles(p)
      /\ op[p].tx \in Transactions /\ op[p].number # 0
      /\ (op' = op => op' = [op EXCEPT ![p] = op[p]])
  BY <1>1, OperationInv DEF Collects
<1>3. op[p].then = "recover" /\ op[p].tx # op[p].number /\ op[p].todo \subseteq Artifacts
      /\ op[p].number <= started /\ op[p].tx <= started
      /\ UNCHANGED <<started, crashes>>
  BY <1>1, <1>2 DEF Collects, Restore
<1>4. staging[op[p].tx] # None /\ staging[op[p].tx].state = "moving" =>
          staging[op[p].tx].ids \subseteq Safe \cup op[p].todo
  BY <1>1, <1>2 DEF Settles, Unsettled
<1>5. ASSUME UNCHANGED disk
      PROVE  KeepsStore /\ FileTypes' /\ KeepsDirectories(p) /\ staging' = staging /\ Safe' = Safe
  BY <1>2, <1>3, <1>5, SameStore, SameDirectories DEF TypeInv, FileTypes, disk, Safe
<1>6. CASE EndsNow(p) /\ UNCHANGED disk
  BY <1>1, <1>5, <1>6, EndKeeps
<1>7. ASSUME NEW a \in op[p].todo,
             op' = [op EXCEPT ![p].todo = @ \ {a}], UNCHANGED pc,
             \/ UNCHANGED disk /\ a \in stored
             \/ IsHeld(op[p].tx, a) /\ MoveBack(op[p].tx, a)
      PROVE  RetainedInv'
  <2> DEFINE todo == op[p].todo \ {a}
             o == [op[p] EXCEPT !.todo = todo]
  <2>1. todo \subseteq Artifacts /\ op[p].todo = todo \cup {a} /\ a \in Artifacts
    BY <1>3
  <2>2. op' = [op EXCEPT ![p] = o]
    BY <1>7
  <2> HIDE DEF todo
  <2>3. /\ o \in Operations
        /\ o.number = op[p].number /\ o.next = op[p].next /\ SameWork(o, op[p])
        /\ o.tx = op[p].tx /\ o.then = op[p].then /\ o.todo = todo
    BY <1>2, <2>1 DEF Operations, SameWork
  <2>4. KeepsStore /\ FileTypes' /\ KeepsDirectories(p) /\ Safe' = Safe \cup {a}
        /\ (staging'[op[p].tx] # None /\ staging'[op[p].tx].state = "moving" =>
               /\ staging[op[p].tx] # None /\ staging[op[p].tx].state = "moving"
               /\ staging'[op[p].tx].ids = staging[op[p].tx].ids)
    <3>1. CASE UNCHANGED disk /\ a \in stored
      BY <1>5, <3>1 DEF Safe
    <3>2. CASE IsHeld(op[p].tx, a) /\ MoveBack(op[p].tx, a)
      BY <1>2, <1>3, <2>1, <3>2, MoveBackKeeps DEF IsHeld
    <3> QED
      BY <1>7, <3>1, <3>2
  <2>5. staging'[op[p].tx] # None /\ staging'[op[p].tx].state = "moving" =>
            staging'[op[p].tx].ids \subseteq Safe' \cup todo
    BY <1>4, <2>1, <2>4
  <2> HIDE DEF o
  <2>6. ASSUME pc'[p] = "restore", op'[p] = o PROVE Collects(p)' /\ Moves(p)' /\ Settles(p)'
    BY <1>2, <1>3, <2>1, <2>3, <2>5, <2>6 DEF Collects, Moves, Settles, Unsettled, Compiling
  <2>7. Goes(p, "restore")
    BY <1>1, <1>2, <1>7 DEF Goes, TypeInv, ProcessTypes
  <2> QED
    BY <1>1, <1>3, <2>2, <2>3, <2>4, <2>6, <2>7, CollectionKeeps
<1>8. CASE op[p].todo = {} /\ Goes(p, "list") /\ UNCHANGED <<disk, op>>
  <2>1. staging' = staging /\ Safe' = Safe /\ op' = op
    BY <1>5, <1>8
  <2>2. ASSUME pc'[p] = "list", op'[p] = op[p] PROVE Collects(p)' /\ Moves(p)' /\ Settles(p)'
    BY <1>2, <1>3, <1>4, <1>8, <2>1, <2>2 DEF Collects, Moves, Settles, Unsettled, Compiling
  <2> QED
    BY <1>1, <1>2, <1>3, <1>5, <1>8, <2>2, CollectionKeeps
<1>9. \/ \E a \in op[p].todo :
            \/ EndsNow(p) /\ UNCHANGED disk
            \/ op' = [op EXCEPT ![p].todo = @ \ {a}] /\ UNCHANGED pc /\
               (\/ UNCHANGED disk /\ a \in stored
                \/ IsHeld(op[p].tx, a) /\ MoveBack(op[p].tx, a))
      \/ op[p].todo = {} /\ Goes(p, "list") /\ UNCHANGED <<disk, op>>
  BY DEF Restore, IsValid
<1> QED
  BY <1>6, <1>7, <1>8, <1>9

LEMMA RollbackKeeps ==
    ASSUME RetainedInv, NEW p \in Processes, Rollback(p), UNCHANGED <<late, contested>>
    PROVE  RetainedInv'
<1>1. pc[p] = "rollback" /\ pc[p] # "idle" /\ {"rollback", "list"} \subseteq Opening /\ pc[p] \in Opening
      /\ "rollback" \notin Collecting /\ "list" \notin Collecting
  BY DEF Rollback, Opening, Collecting
<1>2. TypeInv /\ op[p] \in Operations /\ Collects(p) /\ Moves(p) /\ op[p].number # 0
      /\ op[p].tx = op[p].number /\ op[p].then = "done" /\ op[p].tx # 0 /\ Settles(p)
      /\ op[p].tx \in Transactions
  BY <1>1, OperationInv DEF Collects
<1>3. op[p].number <= started /\ UNCHANGED <<started, crashes>>
  BY <1>2 DEF Collects, Rollback
<1>4. staging[op[p].tx] # None => op[p].moved \subseteq staging[op[p].tx].ids
  BY <1>1, <1>2 DEF Moves
<1>5. staging[op[p].tx] # None /\ staging[op[p].tx].state = "moving" =>
          /\ staging[op[p].tx].ids \subseteq Safe \cup op[p].moved
          /\ staging[op[p].tx].ids \subseteq Safe \cup staging[op[p].tx].held
  BY <1>1, <1>2 DEF RetainedInv, WholeInv, Settles, Unsettled
<1>6. ASSUME UNCHANGED disk
      PROVE  KeepsStore /\ FileTypes' /\ KeepsDirectories(p) /\ staging' = staging /\ Safe' = Safe
  BY <1>2, <1>3, <1>6, SameStore, SameDirectories DEF TypeInv, FileTypes, disk, Safe
<1>7. ASSUME NEW a \in op[p].moved,
             op' = [op EXCEPT ![p].moved = @ \ {a}], UNCHANGED pc,
             \/ UNCHANGED disk /\ ~(IsHeld(op[p].tx, a) /\ a \notin stored)
             \/ IsHeld(op[p].tx, a) /\ MoveBack(op[p].tx, a)
      PROVE  RetainedInv'
  <2> DEFINE moved == op[p].moved \ {a}
             o == [op[p] EXCEPT !.moved = moved]
  <2>1. moved \subseteq Artifacts /\ op[p].moved = moved \cup {a} /\ a \in Artifacts
    BY <1>2 DEF Operations
  <2>2. op' = [op EXCEPT ![p] = o]
    BY <1>7
  <2> HIDE DEF moved
  <2>3. /\ o \in Operations
        /\ o.number = op[p].number /\ o.next = op[p].next /\ SameWork(o, op[p])
        /\ o.tx = op[p].tx /\ o.then = op[p].then /\ o.moved = moved
    BY <1>2, <2>1 DEF Operations, SameWork
  <2>4. KeepsStore /\ FileTypes' /\ KeepsDirectories(p)
        /\ (staging'[op[p].tx] # None =>
               /\ staging[op[p].tx] # None /\ staging'[op[p].tx].ids = staging[op[p].tx].ids
               /\ staging'[op[p].tx].state = "moving" =>
                     staging[op[p].tx].state = "moving" /\ Safe \cup {a} \subseteq Safe')
    <3>1. CASE UNCHANGED disk /\ ~(IsHeld(op[p].tx, a) /\ a \notin stored)
      <4>1. staging[op[p].tx] # None /\ staging[op[p].tx].state = "moving" => a \in Safe
        BY <1>4, <1>5, <3>1 DEF IsHeld, Safe
      <4> QED
        BY <1>6, <3>1, <4>1
    <3>2. CASE IsHeld(op[p].tx, a) /\ MoveBack(op[p].tx, a)
      BY <1>2, <1>3, <2>1, <3>2, MoveBackKeeps DEF IsHeld
    <3> QED
      BY <1>7, <3>1, <3>2
  <2>5. staging'[op[p].tx] # None =>
            /\ moved \subseteq staging'[op[p].tx].ids
            /\ staging'[op[p].tx].state = "moving" => staging'[op[p].tx].ids \subseteq Safe' \cup moved
    BY <1>4, <1>5, <2>1, <2>4
  <2> HIDE DEF o
  <2>6. ASSUME pc'[p] = "rollback", op'[p] = o PROVE Collects(p)' /\ Moves(p)' /\ Settles(p)'
    <3>1. Collects(p)'
      BY <1>2, <1>3, <2>3, <2>6 DEF Collects, Compiling
    <3>2. Moves(p)' /\ Settles(p)'
      BY <1>2, <2>3, <2>5, <2>6 DEF Moves, Settles, Unsettled
    <3> QED
      BY <3>1, <3>2
  <2>7. Goes(p, "rollback")
    BY <1>1, <1>2, <1>7 DEF Goes, TypeInv, ProcessTypes
  <2> QED
    BY <1>1, <1>2, <2>2, <2>3, <2>4, <2>6, <2>7, CollectionKeeps
<1>8. CASE /\ op[p].moved = {} /\ op' = [op EXCEPT ![p].then = "raise"]
           /\ Goes(p, "list") /\ UNCHANGED disk
  <2> DEFINE o == [op[p] EXCEPT !.then = "raise"]
  <2>1. /\ o \in Operations
        /\ o.number = op[p].number /\ o.next = op[p].next /\ SameWork(o, op[p])
        /\ o.tx = op[p].tx /\ o.then = "raise"
    BY <1>2 DEF Operations, SameWork
  <2>2. op' = [op EXCEPT ![p] = o] /\ staging' = staging /\ Safe' = Safe
    BY <1>6, <1>8
  <2> HIDE DEF o
  <2>3. ASSUME pc'[p] = "list", op'[p] = o PROVE Collects(p)' /\ Moves(p)' /\ Settles(p)'
    BY <1>2, <1>3, <1>5, <1>8, <2>1, <2>2, <2>3 DEF Collects, Moves, Settles, Unsettled, Compiling
  <2> QED
    BY <1>1, <1>2, <1>6, <1>8, <2>1, <2>2, <2>3, CollectionKeeps
<1>9. \/ \E a \in op[p].moved :
            /\ op' = [op EXCEPT ![p].moved = @ \ {a}] /\ UNCHANGED pc
            /\ \/ UNCHANGED disk /\ ~(IsHeld(op[p].tx, a) /\ a \notin stored)
               \/ IsHeld(op[p].tx, a) /\ MoveBack(op[p].tx, a)
      \/ /\ op[p].moved = {} /\ op' = [op EXCEPT ![p].then = "raise"]
         /\ Goes(p, "list") /\ UNCHANGED disk
  BY DEF Rollback
<1> QED
  BY <1>7, <1>8, <1>9

LEMMA CommitCollectionKeeps ==
    ASSUME RetainedInv, NEW p \in Processes, CommitCollection(p), UNCHANGED <<late, contested>>
    PROVE  RetainedInv'
<1>1. pc[p] = "move" /\ pc[p] # "idle" /\ pc[p] \in Collecting /\ "list" \in Opening
      /\ "list" \notin Collecting
  BY DEF CommitCollection, Opening, Collecting
<1>2. TypeInv /\ op[p] \in Operations /\ Collects(p) /\ Moves(p) /\ op[p].number # 0
      /\ op[p].tx = op[p].number /\ op[p].then = "done" /\ op[p].tx # 0
      /\ op[p].tx \in Transactions
      /\ (op' = op => op' = [op EXCEPT ![p] = op[p]])
  BY <1>1, OperationInv DEF Collects
<1>3. UNCHANGED <<stored, damaged, illegible, altered, old, quarantine, pins, started, crashes>>
      /\ op[p].todo = {} /\ op[p].number <= started
  BY <1>2 DEF CommitCollection, Collects
<1>4. CASE Raise(p) /\ UNCHANGED staging
  BY <1>1, <1>3, <1>4, RaiseKeeps DEF disk
<1>5. CASE /\ staging[op[p].tx] # None
           /\ staging' = [staging EXCEPT ![op[p].tx].state = "committed"]
           /\ Goes(p, "list") /\ UNCHANGED op
  <2> DEFINE t == op[p].tx
             d == [staging[t] EXCEPT !.state = "committed"]
  <2>1. staging[t] \in Directories /\ staging[t].held \subseteq staging[t].ids
    BY <1>2, <1>5 DEF TypeInv, FileTypes
  <2>2. d \in Directories /\ d.ids = staging[t].ids /\ d.held = staging[t].held
        /\ d.state = "committed"
    BY <2>1 DEF Directories
  <2>3. staging' = [staging EXCEPT ![t] = d]
    BY <1>5
  <2> HIDE DEF d
  <2>4. KeepsDirectories(p) /\ staging'[t] = d
        /\ staging' \in [Transactions -> Directories \cup {None}]
        /\ \A u \in Transactions : staging'[u] # None => staging'[u].held \subseteq staging'[u].ids
    BY <1>2, <1>5, <2>1, <2>2, <2>3, DirectoryKeeps
  <2>5. KeepsStore /\ FileTypes'
    BY <1>2, <1>3, <2>4 DEF KeepsStore, KeepsFiles, TypeInv, FileTypes
  <2>6. op[p].moved = staging[t].ids
    BY <1>1, <1>2, <1>3, <1>5 DEF Moves
  <2>7. ASSUME pc'[p] = "list", op'[p] = op[p] PROVE Collects(p)' /\ Moves(p)' /\ Settles(p)'
    <3>1. Collects(p)'
      BY <1>2, <1>3, <2>7 DEF Collects, Compiling
    <3>2. Moves(p)' /\ Settles(p)'
      BY <1>2, <2>2, <2>4, <2>6, <2>7 DEF Moves, Settles
    <3> QED
      BY <3>1, <3>2
  <2> QED
    BY <1>1, <1>2, <1>5, <2>4, <2>5, <2>7, CollectionKeeps
<1> QED
  BY <1>4, <1>5 DEF CommitCollection

-----------------------------------------------------------------------------
(* Steps that change what a directory is for *)

\* What changes of the processes when p goes to a step with an operation o.
LEMMA StepsAre ==
    ASSUME ProcessTypes, NEW p \in Processes, NEW step \in Steps \ {"idle"},
           NEW o \in Operations, Goes(p, step), op' = [op EXCEPT ![p] = o]
    PROVE  OthersWait(p) /\ pc'[p] = step /\ op'[p] = o /\ ProcessTypes'
<1>1. o # None
  BY NoneIsNothing
<1>2. pc' = [pc EXCEPT ![p] = step] /\ pc'[p] = step /\ op'[p] = o
  BY DEF ProcessTypes, Goes
<1>3. OthersWait(p)
  BY <1>2 DEF ProcessTypes, OthersWait
<1> QED
  BY <1>1, <1>2, <1>3 DEF ProcessTypes

\* What is compiled stays as it is when p goes to a step of a collection or of
\* the recovery that comes before.
LEMMA CompilesOn ==
    ASSUME CompileInv, NEW p \in Processes, OthersWait(p), altered' \subseteq altered, pins' = pins,
           pc[p] \in Opening \cup Collecting, pc'[p] \in Opening \cup Collecting,
           pc'[p] \in Collecting \/ pc[p] \in Collecting => op[p].next = "plan",
           op'[p].next = op[p].next, op'[p] = op[p] \/ SameWork(op'[p], op[p])
    PROVE  CompileInv'
<1>1. ASSUME NEW q \in Processes, pc'[q] # "idle", q # p
      PROVE  Compiles(q)'
  <2>1. pc'[q] = pc[q] /\ op'[q] = op[q] /\ Compiles(q)
    BY <1>1 DEF OthersWait, CompileInv
  <2> QED
    BY <2>1 DEF Compiles
<1>2. Compiles(p) /\ pc[p] # "idle"
  BY DEF CompileInv, Opening, Collecting
<1>3. op[p].next \in {"lineage", "lookup", "plan"}
      /\ (op[p].next # "plan" => op[p].input \in Inputs /\ op[p].results = <<>>)
  BY <1>2 DEF Compiles
<1>4. /\ op'[p].input = op[p].input /\ op'[p].results = op[p].results
      /\ op'[p].decodes = op[p].decodes /\ op'[p].forced = op[p].forced /\ op'[p].built = op[p].built
      /\ Reuses(op'[p]) <=> Reuses(op[p])
  BY DEF SameWork, Reuses
<1>5. op[p].input # None =>
          /\ IsBegun(op[p].input, op[p].results) /\ Reuses(op[p])
          /\ op[p].decodes => Range(op[p].results) \cap altered' = {}
  BY <1>2 DEF Compiles
<1>6. op[p].next = "lineage" => op[p].forced = {} /\ op[p].built = {}
  BY <1>2 DEF Compiles, Opening, Collecting
<1>7. Compiles(p)'
  BY <1>3, <1>4, <1>5, <1>6 DEF Compiles, Opening, Collecting, Compiling
<1> QED
  BY <1>1, <1>7 DEF CompileInv

\* A recovery begins to undo or to complete a collection.
LEMMA RecoverKeeps ==
    ASSUME RetainedInv, NEW p \in Processes, Recover(p), Contest(p)
    PROVE  RetainedInv'
<1>1. pc[p] = "recover" /\ pc[p] # "idle" /\ pc[p] \in Opening /\ "restore" \in Opening
      /\ "restore" \notin Collecting /\ UNCHANGED <<disk, started, crashes, late>>
      /\ pc[p] \notin Collecting
  BY DEF Recover, Opening, Collecting, Contest
<1>2. TypeInv /\ op[p] \in Operations /\ Compiles(p) /\ Collects(p) /\ op[p].number # 0
      /\ op[p].tx = 0 /\ op[p].then # "done" /\ op[p].number \in Transactions
      /\ op[p].number <= started /\ op[p].next \in {"lineage", "lookup", "plan"}
  BY <1>1, OperationInv DEF Collects, Compiles
<1>3. pc' = [pc EXCEPT ![p] = pc'[p]]
  <2>1. pc \in [Processes -> Steps]
    BY <1>2 DEF TypeInv, ProcessTypes
  <2> QED
    BY <2>1 DEF Recover, Goes, EndsNow
<1>4. ASSUME pc'[p] # "restore"
      PROVE  contested' = contested /\ KeepsStore /\ FileTypes' /\ KeepsDirectories(p)
  <2>1. contested' = contested
    BY <1>1, <1>4 DEF Contest, Collect
  <2> QED
    BY <1>1, <1>2, <2>1, SameStore, SameDirectories DEF TypeInv, FileTypes
<1>5. pc \in [Processes -> Steps]
  BY <1>2 DEF TypeInv, ProcessTypes
<1>6. CASE EndsNow(p)
  <2>1. pc'[p] # "restore"
    BY <1>5, <1>6 DEF EndsNow, Goes
  <2> QED
    BY <1>1, <1>4, <1>6, <2>1, EndKeeps
<1>7. CASE Goes(p, op[p].next) /\ op' = [op EXCEPT ![p].then = "raise"]
  <2> DEFINE o == [op[p] EXCEPT !.then = "raise"]
             step == op[p].next
  <2>1. /\ o \in Operations
        /\ o.number = op[p].number /\ o.next = op[p].next /\ SameWork(o, op[p])
        /\ o.tx = 0 /\ o.then = "raise"
    BY <1>2 DEF Operations, SameWork
  <2>2. op' = [op EXCEPT ![p] = o]
    BY <1>7
  <2>3. pc'[p] # "restore"
    BY <1>2, <1>5, <1>7 DEF Goes
  <2>4. step \in Opening \cup Collecting \cup {op[p].next}
        /\ (step \in Collecting => op[p].next = "plan")
    BY <1>2 DEF Collecting
  <2>5. started' = started /\ 0 <= started
    BY <1>1, <1>2 DEF TypeInv, FileTypes
  <2> HIDE DEF o
  <2>6. ASSUME pc'[p] = step, op'[p] = o PROVE Collects(p)' /\ Moves(p)'
    BY <1>2, <2>1, <2>5, <2>6 DEF Collects, Moves, Compiling
  <2>7. Goes(p, step)
    BY <1>7
  <2> HIDE DEF step
  <2> QED
    BY <1>1, <1>2, <1>4, <2>1, <2>2, <2>3, <2>4, <2>6, <2>7, CollectionKeeps
<1>8. ASSUME NEW t \in op[p].left, staging[t] # None, staging[t].state # "none",
             op' = [op EXCEPT ![p].tx = t, ![p].then = "recover",
                              ![p].todo = IF staging[t].state = "moving" THEN staging[t].ids ELSE {}],
             Goes(p, "restore")
      PROVE  RetainedInv'
  <2> DEFINE todo == IF staging[t].state = "moving" THEN staging[t].ids ELSE {}
             o == [op[p] EXCEPT !.tx = t, !.then = "recover", !.todo = todo]
  <2>1. t \in Transactions /\ t \in 0..MaxOperations /\ t # 0
    BY <1>2, StoreConstants DEF Operations, Transactions
  <2>2. todo \subseteq Artifacts /\ staging[t].ids \subseteq Artifacts
        /\ (staging[t].state = "moving" => todo = staging[t].ids)
    BY <1>2, <1>8, <2>1 DEF TypeInv, FileTypes, Directories
  <2>3. op' = [op EXCEPT ![p] = o]
    BY <1>8
  <2> HIDE DEF todo
  <2>4. /\ o \in Operations
        /\ o.number = op[p].number /\ o.next = op[p].next /\ SameWork(o, op[p])
        /\ o.tx = t /\ o.then = "recover" /\ o.todo = todo
    BY <1>2, <2>1, <2>2 DEF Operations, SameWork
  <2> HIDE DEF o
  <2>5. OthersWait(p) /\ pc'[p] = "restore" /\ op'[p] = o /\ ProcessTypes'
    BY <1>1, <1>2, <1>8, <2>3, <2>4, StepsAre DEF TypeInv, Steps
  <2>6. /\ contested \subseteq contested' /\ contested' \subseteq contested \cup staging[t].ids
        /\ Collector(t) # {} => staging[t].ids \subseteq contested'
    BY <1>1, <2>4, <2>5 DEF Contest, Collect
  <2>7. staging' = staging /\ Safe \subseteq Safe' /\ started' = started /\ damaged' = damaged
        /\ stored' = stored /\ quarantine' = quarantine /\ pins' = pins /\ late' = late
    BY <1>1, <2>6 DEF disk, Safe
  <2>8. FileTypes'
    BY <1>1, <1>2, <2>2, <2>6 DEF TypeInv, FileTypes, disk
  <2>9. CompileInv'
    BY <1>1, <2>4, <2>5, CompilesOn DEF RetainedInv, disk
  <2>10. \A q \in Processes \ {p} : pc'[q] = pc[q] /\ op'[q] = op[q]
    BY <2>5 DEF OthersWait
  <2>11. t <= started /\ staging[op[p].number] = None /\ op[p].number # t
         /\ \A q \in Processes : pc[q] # "idle" => op[q].tx # op[p].number
    BY <1>1, <1>2, <1>8, <2>1 DEF RetainedInv, NumberInv
  <2>12. NumberInv'
    <3>1. ASSUME NEW q \in Processes, pc'[q] # "idle"
          PROVE  /\ pc[q] # "idle" /\ op'[q].number = op[q].number /\ op[q].number \in Transactions
                 /\ op'[q].tx = IF q = p THEN t ELSE op[q].tx
      BY <1>1, <1>2, <2>4, <2>5, <2>10, <3>1, OperationInv
    <3>2. Collects(p)'
      BY <1>2, <2>2, <2>4, <2>5, <2>7, <2>11, <2>1 DEF Collects, Compiling
    <3>3. ASSUME NEW q \in Processes, pc'[q] # "idle", q # p PROVE Collects(q)'
      BY <2>7, <2>10, <3>3 DEF Collects, RetainedInv, NumberInv
    <3>4. \A u \in Transactions : staging'[u] # None => u <= started'
      BY <2>7 DEF RetainedInv, NumberInv
    <3>5. ASSUME NEW q \in Processes, pc'[q] # "idle"
          PROVE  /\ \A r \in Processes : pc'[r] # "idle" /\ r # q => op'[r].number # op'[q].number
                 /\ op'[q].tx # op'[q].number =>
                       /\ staging'[op'[q].number] = None
                       /\ \A r \in Processes : pc'[r] # "idle" => op'[r].tx # op'[q].number
      <4>1. (pc[q] # "idle" /\ op[q].tx # op[q].number) \/ op'[q].tx = op'[q].number
        BY <1>2, <3>1, <3>5
      <4>2. op'[q].tx # op'[q].number =>
              /\ staging[op[q].number] = None
              /\ \A r \in Processes : pc[r] # "idle" => op[r].tx # op[q].number
        BY <3>1, <3>5, <4>1 DEF RetainedInv, NumberInv
      <4>3. \A r \in Processes : pc'[r] # "idle" /\ r # q => op'[r].number # op'[q].number
        BY <3>1, <3>5 DEF RetainedInv, NumberInv
      <4>4. ASSUME op'[q].tx # op'[q].number, NEW r \in Processes, pc'[r] # "idle"
            PROVE  op'[r].tx # op'[q].number
        <5>1. staging[op[q].number] = None /\ op'[q].number = op[q].number
              /\ op[r].tx # op[q].number /\ op'[r].tx = IF r = p THEN t ELSE op[r].tx
          BY <3>1, <3>5, <4>2, <4>4
        <5>2. CASE r = p
          BY <1>8, <5>1, <5>2
        <5>3. CASE r # p
          BY <5>1, <5>3
        <5> QED
          BY <5>2, <5>3
      <4>5. op'[q].tx # op'[q].number => staging'[op'[q].number] = None
        BY <2>7, <3>1, <3>5, <4>2
      <4> QED
        BY <4>3, <4>4, <4>5
    <3> QED
      BY <3>2, <3>3, <3>4, <3>5 DEF NumberInv
  <2>13. MoveInv'
    <3>1. Moves(p)'
      BY <2>5 DEF Moves
    <3>2. ASSUME NEW q \in Processes, pc'[q] # "idle", q # p PROVE Moves(q)'
      <4>1. pc'[q] = pc[q] /\ op'[q] = op[q] /\ Moves(q)
        BY <2>10, <3>2 DEF RetainedInv, MoveInv
      <4>2. ASSUME pc[q] = "transaction", NEW r \in Processes, pc'[r] # "idle", r # q
            PROVE  op'[r].tx # op[q].tx
        <5>1. staging[op[q].tx].state = "none"
              /\ \A s \in Processes : pc[s] # "idle" /\ s # q => op[s].tx # op[q].tx
          BY <4>1, <4>2 DEF Moves
        <5>2. CASE r = p
          <6>1. op'[r].tx = t
            BY <2>4, <2>5, <5>2
          <6> QED
            BY <1>8, <5>1, <6>1
        <5>3. CASE r # p
          <6>1. op'[r] = op[r] /\ pc[r] # "idle"
            BY <2>10, <4>2, <5>3
          <6> QED
            BY <4>2, <5>1, <6>1
        <5> QED
          BY <5>2, <5>3
      <4> QED
        BY <2>7, <4>1, <4>2 DEF Moves
    <3> QED
      BY <3>1, <3>2 DEF MoveInv
  <2>14. PinInv'
    <3>1. Reachable' = Reachable /\ Listed' = Listed
      BY <2>7 DEF Reachable, Roots, Listed
    <3> QED
      BY <2>7, <3>1 DEF RetainedInv, PinInv, PinnedStays
  <2>15. WholeInv'
    <3>1. Settles(p)'
      BY <2>2, <2>4, <2>5, <2>7 DEF Settles, Unsettled
    <3>2. ASSUME NEW q \in Processes, pc'[q] # "idle", op'[q].tx # 0, q # p PROVE Settles(q)'
      <4>1. pc'[q] = pc[q] /\ op'[q] = op[q] /\ Settles(q)
        BY <2>10, <3>2 DEF RetainedInv, WholeInv
      <4> QED
        BY <2>7, <4>1 DEF Settles, Unsettled
    <3>3. ASSUME NEW q \in Processes, NEW r \in Processes, pc'[q] # "idle", op'[q].tx # 0,
                 pc'[r] # "idle", r # q, op'[r].tx = op'[q].tx, op'[q].then # "recover",
                 staging'[op'[q].tx] # None
          PROVE  staging'[op'[q].tx].ids \subseteq contested'
      <4>1. q # p /\ pc[q] # "idle" /\ op'[q] = op[q]
        BY <2>4, <2>5, <2>10, <3>3
      <4>2. CASE r = p
        <5>1. q \in Collector(t) /\ op[q].tx = t
          BY <2>4, <2>5, <3>3, <4>1, <4>2 DEF Collector
        <5> QED
          BY <2>6, <2>7, <4>1, <5>1
      <4>3. CASE r # p
        BY <2>6, <2>7, <2>10, <3>3, <4>1, <4>3 DEF RetainedInv, WholeInv
      <4> QED
        BY <4>2, <4>3
    <3>4. /\ \A u, v \in Transactions : staging'[u] # None /\ staging'[v] # None /\ u # v =>
                staging'[u].ids \cap staging'[v].ids \subseteq contested'
          /\ \A u \in Transactions : staging'[u] # None /\ staging'[u].state = "moving" =>
                staging'[u].ids \subseteq Safe' \cup staging'[u].held
      BY <2>6, <2>7 DEF RetainedInv, WholeInv
    <3> QED
      BY <3>1, <3>2, <3>3, <3>4 DEF WholeInv
  <2> QED
    BY <2>5, <2>8, <2>9, <2>12, <2>13, <2>14, <2>15 DEF RetainedInv, TypeInv
<1> QED
  BY <1>6, <1>7, <1>8 DEF Recover

\* A collection makes its directory. What another one has listed as well is
\* contested from now on.
LEMMA CollectKeeps ==
    ASSUME RetainedInv, NEW p \in Processes, Collect(p), Contest(p)
    PROVE  RetainedInv'
<1>1. pc[p] = "collect" /\ pc[p] # "idle" /\ pc[p] \in Collecting /\ "transaction" \in Collecting
      /\ UNCHANGED <<stored, damaged, illegible, altered, old, quarantine, pins, started, crashes, late>>
  BY DEF Collect, Collecting, Contest
<1>2. TypeInv /\ op[p] \in Operations /\ Compiles(p) /\ Collects(p) /\ op[p].number # 0
      /\ op[p].tx = 0 /\ op[p].number \in Transactions /\ op[p].number \in 0..MaxOperations
      /\ op[p].number <= started /\ op[p].next = "plan" /\ op[p].plan \in Plans
  <2>1. op[p].plan # None /\ op[p].plan \in Plans \cup {None}
        /\ op[p].number \in 1..MaxOperations
    BY <1>1, OperationTypes DEF RetainedInv, NumberInv, Collects
  <2> QED
    BY <1>1, <2>1, OperationInv DEF Collects, Compiles, Collecting
<1>3. pc \in [Processes -> Steps]
  BY <1>2 DEF TypeInv, ProcessTypes
<1>4. CASE EndsNow(p) /\ UNCHANGED staging
  <2>1. pc'[p] = "idle"
    BY <1>3, <1>4 DEF EndsNow, Goes
  <2>2. contested' = contested
    BY <1>1, <2>1 DEF Contest, Recover
  <2> QED
    BY <1>1, <1>2, <1>4, <2>2, SameStore, SameDirectories, EndKeeps DEF disk, TypeInv, FileTypes
<1>5. CASE /\ CurrentPlan = op[p].plan
           /\ staging' = [staging EXCEPT ![op[p].number] =
                  [state |-> "none", ids |-> op[p].plan.candidates, held |-> {}]]
           /\ op' = [op EXCEPT ![p].tx = op[p].number, ![p].todo = op[p].plan.candidates,
                               ![p].moved = {}, ![p].then = "done", ![p].plan = None]
           /\ Goes(p, "transaction")
  <2> DEFINE u == op[p].number
             listed == op[p].plan.candidates
             d == [state |-> "none", ids |-> listed, held |-> {}]
             o == [op[p] EXCEPT !.tx = u, !.todo = listed, !.moved = {}, !.then = "done", !.plan = None]
  <2>1. listed \subseteq Artifacts
    BY <1>2 DEF Plans
  <2>2. listed \subseteq old /\ listed \subseteq stored /\ listed \cap damaged = {}
        /\ listed \cap Reachable = {}
    <3>1. listed = (old \ damaged) \ Reachable
      BY <1>5 DEF CurrentPlan, Disposable
    <3>2. old \subseteq stored
      BY <1>2 DEF TypeInv, FileTypes
    <3> HIDE DEF listed
    <3> QED
      BY <3>1, <3>2
  <2>3. op' = [op EXCEPT ![p] = o] /\ staging' = [staging EXCEPT ![u] = d]
    BY <1>5
  <2> HIDE DEF listed
  <2>4. d \in Directories /\ d.state = "none" /\ d.ids = listed /\ d.held = {}
    BY <2>1 DEF Directories
  <2>5. d # None
    BY <2>4, NoneIsNothing
  <2>6. u \in Transactions /\ u \in 0..MaxOperations /\ u = op[p].number
    BY <1>2
  <2> HIDE DEF d, u
  <2>7. /\ o \in Operations
        /\ o.number = u /\ o.next = op[p].next /\ SameWork(o, op[p])
        /\ o.tx = u /\ o.then = "done" /\ o.todo = listed /\ o.moved = {}
    <3> DEFINE made == [op[p] EXCEPT !.tx = u, !.todo = listed, !.moved = {}]
    <3>1. op[p] \in Operations
      BY <1>2
    <3>2. /\ made \in Operations
          /\ made.number = op[p].number /\ made.next = op[p].next /\ SameWork(made, op[p])
          /\ made.tx = u /\ made.todo = listed /\ made.moved = {}
      BY <2>1, <2>6, <3>1 DEF Operations, SameWork
    <3>3. o = [made EXCEPT !.then = "done", !.plan = None]
      OBVIOUS
    <3> HIDE DEF made, o
    <3>4. /\ o \in Operations
          /\ o.number = made.number /\ o.next = made.next /\ SameWork(o, made)
          /\ o.tx = made.tx /\ o.then = "done" /\ o.todo = made.todo /\ o.moved = made.moved
      BY <3>2, <3>3 DEF Operations, SameWork
    <3> QED
      BY <2>6, <3>2, <3>4 DEF SameWork
  <2> HIDE DEF o
  <2>8. OthersWait(p) /\ pc'[p] = "transaction" /\ op'[p] = o /\ ProcessTypes'
    BY <1>1, <1>2, <1>5, <2>3, <2>7, StepsAre DEF TypeInv, Steps
  <2>9. contested' = contested \cup (Listed \cap listed)
    BY <1>1, <2>8 DEF Contest, Recover, listed
  <2>10. staging \in [Transactions -> Directories \cup {None}]
    BY <1>2 DEF TypeInv, FileTypes
  <2>11. staging'[u] = d /\ \A t \in Transactions \ {u} : staging'[t] = staging[t]
    BY <2>3, <2>6, <2>10
  <2>12. \A q \in Processes \ {p} : pc'[q] = pc[q] /\ op'[q] = op[q]
    BY <2>8 DEF OthersWait
  <2>13. staging[u] = None
         /\ \A q \in Processes : pc[q] # "idle" => op[q].tx # u /\ (q # p => op[q].number # u)
    BY <1>1, <1>2, <2>6 DEF RetainedInv, NumberInv
  <2>14. Safe \subseteq Safe' /\ contested \subseteq contested' /\ stored' \subseteq Safe'
    BY <1>1, <2>9 DEF Safe
  <2>15. FileTypes'
    <3>1. staging' \in [Transactions -> Directories \cup {None}]
      BY <2>3, <2>4, <2>6, <2>10
    <3>2. \A t \in Transactions : staging'[t] # None => staging'[t].held \subseteq staging'[t].ids
      BY <1>2, <2>4, <2>11 DEF TypeInv, FileTypes
    <3>3. contested' \subseteq Artifacts
      BY <1>2, <2>1, <2>9 DEF TypeInv, FileTypes
    <3> QED
      BY <1>1, <1>2, <3>1, <3>2, <3>3 DEF TypeInv, FileTypes
  <2>16. CompileInv'
    BY <1>1, <1>2, <2>7, <2>8, CompilesOn DEF RetainedInv
  <2>17. NumberInv'
    <3>1. Collects(p)'
      BY <1>1, <1>2, <2>1, <2>6, <2>7, <2>8 DEF Collects, Compiling
    <3>2. ASSUME NEW q \in Processes, pc'[q] # "idle", q # p PROVE Collects(q)'
      BY <1>1, <2>12, <3>2 DEF Collects, RetainedInv, NumberInv
    <3>3. \A t \in Transactions : staging'[t] # None => t <= started'
      BY <1>1, <1>2, <2>6, <2>11 DEF RetainedInv, NumberInv
    <3>4. ASSUME NEW q \in Processes, pc'[q] # "idle"
          PROVE  /\ \A r \in Processes : pc'[r] # "idle" /\ r # q => op'[r].number # op'[q].number
                 /\ op'[q].tx # op'[q].number =>
                       /\ staging'[op'[q].number] = None
                       /\ \A r \in Processes : pc'[r] # "idle" => op'[r].tx # op'[q].number
      <4>1. CASE q = p
        BY <2>6, <2>7, <2>8, <2>12, <2>13, <4>1
      <4>2. CASE q # p
        <5>1. pc[q] # "idle" /\ op'[q] = op[q] /\ op[q].number \in Transactions /\ op[q].number # u
          BY <1>2, <2>12, <2>13, <3>4, <4>2, OperationTypes
        <5>2. \A r \in Processes : pc'[r] # "idle" /\ r # q => op'[r].number # op[q].number
          BY <1>1, <2>6, <2>7, <2>8, <2>12, <5>1 DEF RetainedInv, NumberInv
        <5>3. op[q].tx # op[q].number =>
                 /\ staging[op[q].number] = None
                 /\ \A r \in Processes : pc[r] # "idle" => op[r].tx # op[q].number
          BY <5>1 DEF RetainedInv, NumberInv
        <5>4. ASSUME op[q].tx # op[q].number, NEW r \in Processes, pc'[r] # "idle"
              PROVE  op'[r].tx # op[q].number
          <6>1. CASE r = p
            BY <2>7, <2>8, <5>1, <6>1
          <6>2. CASE r # p
            BY <2>12, <5>3, <5>4, <6>2
          <6> QED
            BY <6>1, <6>2
        <5> QED
          BY <2>11, <5>1, <5>2, <5>3, <5>4
      <4> QED
        BY <4>1, <4>2
    <3> QED
      BY <3>1, <3>2, <3>3, <3>4 DEF NumberInv
  <2>18. MoveInv'
    <3>1. Moves(p)'
      <4>1. \A q \in Processes : pc'[q] # "idle" /\ q # p => op'[q].tx # u
        BY <2>12, <2>13
      <4> QED
        BY <1>1, <2>2, <2>4, <2>5, <2>7, <2>8, <2>11, <4>1 DEF Moves
    <3>2. ASSUME NEW q \in Processes, pc'[q] # "idle", q # p PROVE Moves(q)'
      <4>1. pc'[q] = pc[q] /\ op'[q] = op[q] /\ Moves(q) /\ Collects(q)
            /\ op[q].tx # u /\ (op[q].tx # 0 => op[q].tx \in Transactions)
            /\ op[q].number # 0
        BY <2>12, <2>13, <3>2, OperationInv
      <4>2. pc[q] \in {"transaction", "move", "list", "remove", "rollback"} =>
               staging'[op[q].tx] = staging[op[q].tx]
        BY <2>11, <4>1 DEF Collects
      <4>3. ASSUME pc[q] = "transaction", NEW r \in Processes, pc'[r] # "idle", r # q
            PROVE  op'[r].tx # op[q].tx
        <5>1. CASE r = p
          BY <2>7, <2>8, <4>1, <5>1
        <5>2. CASE r # p
          BY <2>12, <4>1, <4>3, <5>2 DEF Moves
        <5> QED
          BY <5>1, <5>2
      <4> QED
        BY <1>1, <4>1, <4>2, <4>3 DEF Moves
    <3> QED
      BY <3>1, <3>2 DEF MoveInv
  <2>19. PinInv'
    <3>1. Reachable' = Reachable
      BY <1>1 DEF Reachable, Roots
    <3>2. Listed' \subseteq Listed \cup listed
      BY <2>4, <2>11 DEF Listed
    <3> QED
      BY <1>1, <2>2, <3>1, <3>2 DEF RetainedInv, PinInv, PinnedStays
  <2>20. WholeInv'
    <3>1. Settles(p)'
      BY <1>1, <2>2, <2>4, <2>7, <2>8, <2>11, <2>14 DEF Settles
    <3>2. ASSUME NEW q \in Processes, pc'[q] # "idle", op'[q].tx # 0, q # p
          PROVE  /\ pc[q] # "idle" /\ op'[q] = op[q] /\ op[q].tx # u /\ Settles(q)'
                 /\ staging'[op[q].tx] = staging[op[q].tx]
      <4>1. pc'[q] = pc[q] /\ op'[q] = op[q] /\ Settles(q) /\ op[q].tx \in Transactions
            /\ op[q].tx # u
        BY <2>12, <2>13, <3>2, OperationInv
      <4>2. staging'[op[q].tx] = staging[op[q].tx]
        BY <2>11, <4>1
      <4> QED
        BY <2>14, <3>2, <4>1, <4>2 DEF Settles, Unsettled
    <3>3. ASSUME NEW q \in Processes, NEW r \in Processes, pc'[q] # "idle", op'[q].tx # 0,
                 pc'[r] # "idle", r # q, op'[r].tx = op'[q].tx, op'[q].then # "recover",
                 staging'[op'[q].tx] # None
          PROVE  staging'[op'[q].tx].ids \subseteq contested'
      <4>1. q # p /\ r # p
        BY <2>6, <2>7, <2>8, <2>12, <2>13, <3>3
      <4> QED
        BY <2>12, <2>14, <3>2, <3>3, <4>1 DEF RetainedInv, WholeInv
    <3>4. ASSUME NEW t \in Transactions, NEW v \in Transactions, staging'[t] # None, staging'[v] # None, t # v
          PROVE  staging'[t].ids \cap staging'[v].ids \subseteq contested'
      <4>1. CASE t # u /\ v # u
        BY <2>11, <2>14, <3>4, <4>1 DEF RetainedInv, WholeInv
      <4>2. CASE t = u
        BY <2>4, <2>9, <2>11, <3>4, <4>2 DEF Listed
      <4>3. CASE v = u
        BY <2>4, <2>9, <2>11, <3>4, <4>3 DEF Listed
      <4> QED
        BY <4>1, <4>2, <4>3
    <3>5. ASSUME NEW t \in Transactions, staging'[t] # None, staging'[t].state = "moving"
          PROVE  staging'[t].ids \subseteq Safe' \cup staging'[t].held
      <4>1. t # u
        BY <2>4, <2>11, <3>5
      <4> QED
        BY <2>11, <2>14, <3>5, <4>1 DEF RetainedInv, WholeInv
    <3> QED
      BY <3>1, <3>2, <3>3, <3>4, <3>5 DEF WholeInv
  <2> QED
    BY <2>8, <2>15, <2>16, <2>17, <2>18, <2>19, <2>20 DEF RetainedInv, TypeInv
<1> QED
  BY <1>4, <1>5 DEF Collect

\* The record of a collection is written when nobody else works on its
\* directory, and all it lists is in place.
LEMMA WriteTransactionKeeps ==
    ASSUME RetainedInv, NEW p \in Processes, WriteTransaction(p), UNCHANGED <<late, contested>>
    PROVE  RetainedInv'
<1>1. pc[p] = "transaction" /\ pc[p] # "idle" /\ pc[p] \in Collecting /\ "move" \in Collecting
      /\ UNCHANGED <<stored, damaged, illegible, altered, old, quarantine, pins, started, crashes>>
      /\ op' = op /\ Goes(p, "move")
  BY DEF WriteTransaction, Collecting
<1> DEFINE u == op[p].tx
           d == [staging[u] EXCEPT !.state = "moving"]
<1>2. TypeInv /\ op[p] \in Operations /\ Compiles(p) /\ Collects(p) /\ Moves(p)
      /\ u # 0 /\ u = op[p].number /\ u \in Transactions /\ op[p].then = "done"
      /\ Settles(p) /\ op[p].next = "plan" /\ op' = [op EXCEPT ![p] = op[p]]
  BY <1>1, OperationInv DEF Collects, Compiles, Collecting
<1>3. /\ staging[u] # None /\ staging[u].ids \subseteq Safe
      /\ \A q \in Processes : pc[q] # "idle" /\ q # p => op[q].tx # u
  BY <1>1, <1>2 DEF Moves, Settles
<1>4. staging \in [Transactions -> Directories \cup {None}]
      /\ staging[u].held \subseteq staging[u].ids
  BY <1>2, <1>3 DEF TypeInv, FileTypes
<1>5. d \in Directories /\ d.state = "moving" /\ d.ids = staging[u].ids /\ d.held = staging[u].held
  BY <1>2, <1>3, <1>4 DEF Directories
<1>6. d # None
  BY <1>5, NoneIsNothing
<1>7. staging' = [staging EXCEPT ![u] = d]
  BY DEF WriteTransaction
<1> HIDE DEF d
<1>8. staging'[u] = d /\ \A t \in Transactions \ {u} : staging'[t] = staging[t]
  BY <1>2, <1>4, <1>7
<1>9. OthersWait(p) /\ pc'[p] = "move" /\ op'[p] = op[p] /\ ProcessTypes'
  BY <1>1, <1>2, StepsAre DEF TypeInv, Steps
<1>10. \A q \in Processes \ {p} : pc'[q] = pc[q] /\ op'[q] = op[q]
  BY <1>9 DEF OthersWait
<1>11. Safe' = Safe /\ contested' = contested
  BY <1>1 DEF Safe
<1>12. \A t \in Transactions : (staging'[t] = None <=> staging[t] = None)
          /\ (staging[t] # None => staging'[t].ids = staging[t].ids /\ staging'[t].held = staging[t].held)
  BY <1>3, <1>5, <1>6, <1>8
<1>13. FileTypes'
  <2>1. staging' \in [Transactions -> Directories \cup {None}]
    BY <1>2, <1>4, <1>5, <1>7
  <2>2. \A t \in Transactions : staging'[t] # None => staging'[t].held \subseteq staging'[t].ids
    BY <1>2, <1>12 DEF TypeInv, FileTypes
  <2> QED
    BY <1>1, <1>2, <2>1, <2>2 DEF TypeInv, FileTypes
<1>14. CompileInv'
  BY <1>1, <1>2, <1>9, CompilesOn DEF RetainedInv
<1>15. \A q \in Processes : (pc'[q] = "idle" <=> pc[q] = "idle") /\ op'[q] = op[q]
  BY <1>1, <1>9, <1>10
<1>16. NumberInv'
  <2>1. Collects(p)'
    BY <1>1, <1>2, <1>9 DEF Collects, Compiling
  <2>2. ASSUME NEW q \in Processes, pc'[q] # "idle", q # p PROVE Collects(q)'
    BY <1>1, <1>10, <2>2 DEF Collects, RetainedInv, NumberInv
  <2>3. \A t \in Transactions : staging'[t] # None => t <= started'
    BY <1>1, <1>12 DEF RetainedInv, NumberInv
  <2>4. ASSUME NEW q \in Processes, pc'[q] # "idle"
        PROVE  /\ \A r \in Processes : pc'[r] # "idle" /\ r # q => op'[r].number # op'[q].number
               /\ op'[q].tx # op'[q].number =>
                     /\ staging'[op'[q].number] = None
                     /\ \A r \in Processes : pc'[r] # "idle" => op'[r].tx # op'[q].number
    <3>1. op[q].number \in Transactions /\ pc[q] # "idle"
      BY <1>2, <1>15, <2>4, OperationTypes
    <3> QED
      BY <1>12, <1>15, <2>4, <3>1 DEF RetainedInv, NumberInv
  <2> QED
    BY <2>1, <2>2, <2>3, <2>4 DEF NumberInv
<1>17. MoveInv'
  <2>1. Moves(p)'
    BY <1>1, <1>2, <1>3, <1>5, <1>8, <1>9 DEF Moves
  <2>2. ASSUME NEW q \in Processes, pc'[q] # "idle", q # p PROVE Moves(q)'
    <3>1. pc'[q] = pc[q] /\ op'[q] = op[q] /\ Moves(q) /\ Collects(q) /\ op[q].tx # u
          /\ (op[q].tx # 0 => op[q].tx \in Transactions) /\ op[q].number # 0
      BY <1>3, <1>10, <2>2, OperationInv
    <3>2. pc[q] \in {"transaction", "move", "list", "remove", "rollback"} =>
             staging'[op[q].tx] = staging[op[q].tx]
      BY <1>8, <3>1 DEF Collects
    <3> QED
      BY <1>1, <1>15, <3>1, <3>2 DEF Moves
  <2> QED
    BY <2>1, <2>2 DEF MoveInv
<1>18. PinInv'
  <2>1. Reachable' = Reachable
    BY <1>1 DEF Reachable, Roots
  <2>2. Listed' \subseteq Listed
    BY <1>12 DEF Listed
  <2> QED
    BY <1>1, <2>1, <2>2 DEF RetainedInv, PinInv, PinnedStays
<1>19. WholeInv'
  <2>1. Settles(p)'
    BY <1>1, <1>3, <1>5, <1>8, <1>9, <1>11 DEF Settles
  <2>2. ASSUME NEW q \in Processes, pc'[q] # "idle", op'[q].tx # 0, q # p PROVE Settles(q)'
    <3>1. pc'[q] = pc[q] /\ op'[q] = op[q] /\ Settles(q) /\ op[q].tx \in Transactions
          /\ op[q].tx # u
      BY <1>3, <1>10, <2>2, OperationInv
    <3>2. staging'[op[q].tx] = staging[op[q].tx]
      BY <1>8, <3>1
    <3> QED
      BY <1>11, <3>1, <3>2 DEF Settles, Unsettled
  <2>3. ASSUME NEW q \in Processes, NEW r \in Processes, pc'[q] # "idle", op'[q].tx # 0,
               pc'[r] # "idle", r # q, op'[r].tx = op'[q].tx, op'[q].then # "recover",
               staging'[op'[q].tx] # None
        PROVE  staging'[op'[q].tx].ids \subseteq contested'
    <3>1. pc[q] # "idle" /\ op[q].tx \in Transactions
      BY <1>2, <1>15, <2>3, OperationTypes
    <3> QED
      BY <1>11, <1>12, <1>15, <2>3, <3>1 DEF RetainedInv, WholeInv
  <2>4. \A t, v \in Transactions : staging'[t] # None /\ staging'[v] # None /\ t # v =>
            staging'[t].ids \cap staging'[v].ids \subseteq contested'
    BY <1>11, <1>12 DEF RetainedInv, WholeInv
  <2>5. ASSUME NEW t \in Transactions, staging'[t] # None, staging'[t].state = "moving"
        PROVE  staging'[t].ids \subseteq Safe' \cup staging'[t].held
    <3>1. CASE t = u
      BY <1>3, <1>5, <1>8, <1>11, <3>1
    <3>2. CASE t # u
      BY <1>8, <1>11, <2>5, <3>2 DEF RetainedInv, WholeInv
    <3> QED
      BY <3>1, <3>2
  <2> QED
    BY <2>1, <2>2, <2>3, <2>4, <2>5 DEF WholeInv
<1> QED
  BY <1>9, <1>13, <1>14, <1>16, <1>17, <1>18, <1>19 DEF RetainedInv, TypeInv

\* An artifact is moved from its place to the directory. It is not pinned, unless
\* it was pinned late; and when another process has the directory too, or another
\* directory has listed it, it is contested.
LEMMA MoveKeeps ==
    ASSUME RetainedInv, NEW p \in Processes, Move(p), UNCHANGED <<late, contested>>
    PROVE  RetainedInv'
<1>1. pc[p] = "move" /\ pc[p] # "idle" /\ pc[p] \in Collecting
      /\ UNCHANGED <<started, crashes, late, contested>>
  BY DEF Move, Collecting
<1> DEFINE u == op[p].tx
<1>2. TypeInv /\ op[p] \in Operations /\ Compiles(p) /\ Collects(p) /\ Moves(p)
      /\ u # 0 /\ u = op[p].number /\ u \in Transactions /\ op[p].then = "done"
      /\ Settles(p) /\ op[p].next = "plan" /\ op[p].todo \subseteq Artifacts
      /\ op[p].number <= started
  BY <1>1, OperationInv DEF Collects, Compiles, Collecting
<1>3. CASE Raise(p) /\ UNCHANGED disk
  BY <1>1, <1>3, RaiseKeeps
<1>4. ASSUME NEW a \in op[p].todo, a \in stored, staging[u] # None,
             stored' = stored \ {a}, old' = old \ {a},
             staging' = [staging EXCEPT ![u].held = @ \cup {a}],
             op' = [op EXCEPT ![p].todo = @ \ {a}, ![p].moved = @ \cup {a}],
             UNCHANGED <<damaged, illegible, altered, quarantine, pins, pc>>
      PROVE  RetainedInv'
  <2> DEFINE held == staging[u].held \cup {a}
             d == [staging[u] EXCEPT !.held = held]
             todo == op[p].todo \ {a}
             moved == op[p].moved \cup {a}
             o == [op[p] EXCEPT !.todo = todo, !.moved = moved]
  <2>1. op[p].todo \cap damaged = {} /\ staging[u].ids = op[p].todo \cup op[p].moved
    BY <1>1, <1>2, <1>4 DEF Moves
  <2>2. todo \subseteq Artifacts /\ moved \subseteq Artifacts /\ todo \cap damaged = {}
        /\ staging[u].ids = todo \cup moved /\ a \in staging[u].ids /\ a \notin damaged
        /\ op[p].moved \subseteq moved /\ a \in moved
    BY <1>2, <1>4, <2>1 DEF Operations
  <2>3. staging \in [Transactions -> Directories \cup {None}] /\ staging[u] \in Directories
        /\ staging[u].held \subseteq staging[u].ids
    BY <1>2, <1>4 DEF TypeInv, FileTypes
  <2>4. held \subseteq Artifacts /\ held \subseteq staging[u].ids /\ staging[u].held \subseteq held
        /\ a \in held
    BY <2>2, <2>3 DEF Directories
  <2>5. op' = [op EXCEPT ![p] = o] /\ staging' = [staging EXCEPT ![u] = d]
    BY <1>4
  <2> HIDE DEF held, todo, moved
  <2>6. d \in Directories /\ d.ids = staging[u].ids /\ d.held = held /\ d.state = staging[u].state
    BY <2>3, <2>4 DEF Directories
  <2>7. d # None
    BY <2>6, NoneIsNothing
  <2>8. /\ o \in Operations
        /\ o.number = op[p].number /\ o.next = op[p].next /\ SameWork(o, op[p])
        /\ o.tx = op[p].tx /\ o.then = op[p].then /\ o.todo = todo /\ o.moved = moved
    BY <1>2, <2>2 DEF Operations, SameWork
  <2> HIDE DEF d, o
  <2>9. staging'[u] = d /\ \A t \in Transactions \ {u} : staging'[t] = staging[t]
    BY <1>2, <2>3, <2>5
  <2>10. Goes(p, "move")
    BY <1>1, <1>2, <1>4 DEF Goes, TypeInv, ProcessTypes
  <2>11. OthersWait(p) /\ pc'[p] = "move" /\ op'[p] = o /\ ProcessTypes'
    BY <1>1, <1>2, <2>5, <2>8, <2>10, StepsAre DEF TypeInv, Steps
  <2>12. \A q \in Processes \ {p} : pc'[q] = pc[q] /\ op'[q] = op[q]
    BY <2>11 DEF OthersWait
  <2>13. \A q \in Processes : pc'[q] = pc[q] /\ op'[q].number = op[q].number
            /\ op'[q].tx = op[q].tx /\ op'[q].then = op[q].then
    BY <1>1, <2>8, <2>11, <2>12
  <2>14. Safe \subseteq Safe' \cup {a} /\ contested' = contested /\ contested \subseteq Safe'
    BY <1>1, <1>4 DEF Safe
  <2>15. \A t \in Transactions : (staging'[t] = None <=> staging[t] = None)
            /\ (staging[t] # None =>
                   /\ staging'[t].ids = staging[t].ids /\ staging[t].held \subseteq staging'[t].held
                   /\ staging'[t].state = staging[t].state)
    BY <1>4, <2>4, <2>6, <2>7, <2>9
  <2>16. FileTypes'
    <3>1. staging' \in [Transactions -> Directories \cup {None}]
      BY <1>2, <2>3, <2>5, <2>6
    <3>2. \A t \in Transactions : staging'[t] # None => staging'[t].held \subseteq staging'[t].ids
      BY <1>2, <2>4, <2>6, <2>9 DEF TypeInv, FileTypes
    <3>3. stored' \subseteq Artifacts /\ damaged' \subseteq stored' /\ old' \subseteq stored'
      BY <1>2, <1>4, <2>2 DEF TypeInv, FileTypes
    <3> QED
      BY <1>1, <1>2, <1>4, <3>1, <3>2, <3>3 DEF TypeInv, FileTypes
  <2>17. CompileInv'
    BY <1>1, <1>2, <1>4, <2>8, <2>11, CompilesOn DEF RetainedInv
  <2>18. NumberInv'
    <3>1. Collects(p)'
      BY <1>1, <1>2, <2>2, <2>8, <2>11 DEF Collects, Compiling
    <3>2. ASSUME NEW q \in Processes, pc'[q] # "idle", q # p PROVE Collects(q)'
      BY <1>1, <2>12, <3>2 DEF Collects, RetainedInv, NumberInv
    <3>3. \A t \in Transactions : staging'[t] # None => t <= started'
      BY <1>1, <2>15 DEF RetainedInv, NumberInv
    <3>4. ASSUME NEW q \in Processes, pc'[q] # "idle"
          PROVE  /\ \A r \in Processes : pc'[r] # "idle" /\ r # q => op'[r].number # op'[q].number
                 /\ op'[q].tx # op'[q].number =>
                       /\ staging'[op'[q].number] = None
                       /\ \A r \in Processes : pc'[r] # "idle" => op'[r].tx # op'[q].number
      <4>1. op[q].number \in Transactions /\ pc[q] # "idle"
        BY <1>2, <2>13, <3>4, OperationTypes
      <4> QED
        BY <2>13, <2>15, <3>4, <4>1 DEF RetainedInv, NumberInv
    <3> QED
      BY <3>1, <3>2, <3>3, <3>4 DEF NumberInv
  <2>19. MoveInv'
    <3>1. Moves(p)'
      BY <1>1, <1>4, <2>2, <2>6, <2>8, <2>9, <2>11 DEF Moves
    <3>2. ASSUME NEW q \in Processes, pc'[q] # "idle", q # p PROVE Moves(q)'
      <4>1. pc'[q] = pc[q] /\ op'[q] = op[q] /\ Moves(q) /\ Collects(q)
            /\ (op[q].tx # 0 => op[q].tx \in Transactions) /\ op[q].number # 0
        BY <2>12, <3>2, OperationInv
      <4>2. pc[q] \in {"transaction", "move", "list", "remove", "rollback"} =>
               op[q].tx \in Transactions
        BY <4>1 DEF Collects
      <4>3. pc[q] \in {"transaction", "move", "list", "remove", "rollback"} =>
               /\ staging'[op[q].tx] = None <=> staging[op[q].tx] = None
               /\ staging[op[q].tx] # None =>
                     /\ staging'[op[q].tx].ids = staging[op[q].tx].ids
                     /\ staging'[op[q].tx].state = staging[op[q].tx].state
        BY <2>15, <4>2
      <4>4. pc[q] = "transaction" =>
               \A r \in Processes : pc'[r] # "idle" /\ r # q => op'[r].tx # op[q].tx
        BY <2>13, <4>1 DEF Moves
      <4>5. damaged' = damaged
        BY <1>4
      <4> QED
        BY <4>1, <4>3, <4>4, <4>5 DEF Moves
    <3> QED
      BY <3>1, <3>2 DEF MoveInv
  <2>20. PinInv'
    <3>1. Reachable' = Reachable
      BY <1>4 DEF Reachable, Roots
    <3>2. Listed' \subseteq Listed /\ a \in Listed
      BY <1>2, <1>4, <2>2, <2>15 DEF Listed
    <3> QED
      BY <1>1, <1>4, <3>1, <3>2 DEF RetainedInv, PinInv, PinnedStays
  <2>21. WholeInv'
    <3>1. ASSUME NEW t \in Transactions \ {u}, staging[t] # None
          PROVE  staging[t].ids \cap Safe \subseteq Safe'
      BY <1>2, <1>4, <2>2, <2>14, <3>1 DEF RetainedInv, WholeInv
    <3>2. Settles(p)'
      <4>1. staging[u].state = "moving" => staging[u].ids \subseteq Safe \cup op[p].moved
        BY <1>1, <1>2, <1>4 DEF Settles, Unsettled
      <4>2. d.state = "moving" => d.ids \subseteq Safe' \cup moved
        BY <2>2, <2>6, <2>14, <4>1
      <4>3. staging'[op'[p].tx] = d /\ Unsettled(p)' = moved
        BY <2>8, <2>9, <2>11 DEF Unsettled
      <4> QED
        BY <2>11, <4>2, <4>3 DEF Settles
    <3>3. ASSUME NEW q \in Processes, pc'[q] # "idle", op'[q].tx # 0, q # p PROVE Settles(q)'
      <4>1. pc'[q] = pc[q] /\ op'[q] = op[q] /\ pc[q] # "idle" /\ Settles(q) /\ op[q].tx \in Transactions
        BY <2>12, <3>3, OperationInv
      <4>2. staging[op[q].tx] # None => staging[op[q].tx].ids \cap Safe \subseteq Safe'
        <5>1. CASE op[q].tx # u
          BY <3>1, <4>1, <5>1
        <5>2. CASE op[q].tx = u
          <6>1. staging[u] # None => staging[u].ids \subseteq contested
            BY <1>1, <1>2, <3>3, <4>1, <5>2 DEF RetainedInv, WholeInv
          <6> QED
            BY <2>14, <5>2, <6>1
        <5> QED
          BY <5>1, <5>2
      <4>3. Unsettled(q)' = Unsettled(q)
        BY <4>1 DEF Unsettled
      <4> QED
        BY <2>15, <4>1, <4>2, <4>3 DEF Settles
    <3>4. ASSUME NEW q \in Processes, NEW r \in Processes, pc'[q] # "idle", op'[q].tx # 0,
                 pc'[r] # "idle", r # q, op'[r].tx = op'[q].tx, op'[q].then # "recover",
                 staging'[op'[q].tx] # None
          PROVE  staging'[op'[q].tx].ids \subseteq contested'
      <4>1. pc[q] # "idle" /\ op[q].tx \in Transactions
        BY <1>2, <2>13, <3>4, OperationTypes
      <4> QED
        BY <2>13, <2>14, <2>15, <3>4, <4>1 DEF RetainedInv, WholeInv
    <3>5. \A t, v \in Transactions : staging'[t] # None /\ staging'[v] # None /\ t # v =>
              staging'[t].ids \cap staging'[v].ids \subseteq contested'
      BY <2>14, <2>15 DEF RetainedInv, WholeInv
    <3>6. ASSUME NEW t \in Transactions, staging'[t] # None, staging'[t].state = "moving"
          PROVE  staging'[t].ids \subseteq Safe' \cup staging'[t].held
      <4>1. staging[t].ids \subseteq Safe \cup staging[t].held /\ staging[t] # None
        BY <2>15, <3>6 DEF RetainedInv, WholeInv
      <4>2. CASE t = u
        BY <2>4, <2>6, <2>9, <2>14, <4>1, <4>2
      <4>3. CASE t # u
        BY <2>9, <3>1, <4>1, <4>3
      <4> QED
        BY <4>2, <4>3
    <3> QED
      BY <3>2, <3>3, <3>4, <3>5, <3>6 DEF WholeInv
  <2> QED
    BY <2>11, <2>16, <2>17, <2>18, <2>19, <2>20, <2>21 DEF RetainedInv, TypeInv
<1> QED
  BY <1>3, <1>4 DEF Move

-----------------------------------------------------------------------------
(* Operations begin, and compilations pin what they made *)

\* A new operation has a new number, and no directory.
LEMMA BeginKeeps ==
    ASSUME RetainedInv, NEW p \in Processes, pc[p] = "idle", started < MaxOperations,
           NEW o \in Operations, o.number = started + 1, o.tx = 0, o.then = "raise",
           o.next \in {"lineage", "lookup", "plan"}, o.results = <<>>,
           o.next # "plan" => o.input \in Inputs, o.built = {},
           o.next = "lineage" => o.forced = {},
           Goes(p, "open"), op' = [op EXCEPT ![p] = o], started' = started + 1,
           UNCHANGED <<disk, crashes, late, contested>>
    PROVE  RetainedInv'
<1>1. OthersWait(p) /\ pc'[p] = "open" /\ op'[p] = o /\ ProcessTypes'
  BY StepsAre DEF RetainedInv, TypeInv, Steps, Opening
<1>2. \A q \in Processes \ {p} : pc'[q] = pc[q] /\ op'[q] = op[q]
  BY <1>1 DEF OthersWait
<1>3. TypeInv /\ started \in 0..MaxOperations /\ started' \in 1..MaxOperations
      /\ started' \in Transactions
  BY StoreConstants DEF RetainedInv, TypeInv, FileTypes, Transactions
<1>4. UNCHANGED <<stored, damaged, illegible, altered, old, quarantine, staging, pins>>
  BY DEF disk
<1>5. FileTypes'
  BY <1>3, <1>4, StoreConstants DEF TypeInv, FileTypes
<1>6. CompileInv'
  <2>1. Compiles(p)'
    <3>1. /\ IsBegun(o.input, o.results) /\ Len(o.results) = 0
          /\ Range(o.results) \cap altered' = {}
      BY EmptyIs
    <3>2. Reuses(o)
      BY <3>1 DEF Reuses
    <3> QED
      BY <1>1, <3>1, <3>2 DEF Compiles, Opening, Collecting, Compiling
  <2>2. ASSUME NEW q \in Processes, pc'[q] # "idle", q # p PROVE Compiles(q)'
    BY <1>2, <1>4, <2>2 DEF RetainedInv, CompileInv, Compiles
  <2> QED
    BY <1>4, <2>1, <2>2 DEF RetainedInv, CompileInv
<1>7. \A q \in Processes \ {p} : pc'[q] # "idle" =>
          /\ pc[q] # "idle" /\ op[q].number <= started /\ op[q].tx <= started
          /\ op[q].number \in Transactions /\ op[q].tx \in 0..MaxOperations /\ op[q].number # 0
          /\ Collects(q) /\ Moves(q) /\ (op[q].tx # 0 => Settles(q) /\ op[q].tx \in Transactions)
  <2> SUFFICES ASSUME NEW q \in Processes \ {p}, pc'[q] # "idle"
               PROVE  /\ pc[q] # "idle" /\ op[q].number <= started /\ op[q].tx <= started
                      /\ op[q].number \in Transactions /\ op[q].tx \in 0..MaxOperations
                      /\ op[q].number # 0 /\ Collects(q) /\ Moves(q)
                      /\ (op[q].tx # 0 => Settles(q) /\ op[q].tx \in Transactions)
    OBVIOUS
  <2>1. pc[q] # "idle"
    BY <1>2
  <2>2. /\ op[q].number \in Transactions /\ op[q].number # 0 /\ Collects(q) /\ Moves(q)
        /\ (op[q].tx # 0 => Settles(q) /\ op[q].tx \in Transactions)
    BY <2>1, OperationInv
  <2>3. op[q].tx \in 0..MaxOperations
    BY <1>3, <2>1, OperationTypes
  <2>4. op[q].number <= started /\ op[q].tx <= started
    BY <2>2 DEF Collects
  <2> QED
    BY <2>1, <2>2, <2>3, <2>4
<1>8. NumberInv'
  <2>1. Collects(p)'
    BY <1>1, <1>3 DEF Collects, Compiling
  <2>2. ASSUME NEW q \in Processes, pc'[q] # "idle", q # p PROVE Collects(q)'
    <3>1. Collects(q) /\ pc'[q] = pc[q] /\ op'[q] = op[q]
          /\ op[q].number <= started' /\ op[q].tx <= started'
      BY <1>2, <1>3, <1>7, <2>2 DEF Transactions
    <3> QED
      BY <3>1 DEF Collects
  <2>3. \A t \in Transactions : staging'[t] # None => t <= started /\ t <= started'
    BY <1>3, <1>4 DEF RetainedInv, NumberInv, Transactions
  <2>4. staging'[started'] = None
    BY <1>3, <2>3 DEF Transactions
  <2>5. ASSUME NEW q \in Processes, pc'[q] # "idle", q # p
        PROVE  op'[q].number # started' /\ op'[q].tx # started' /\ op'[q].number # 0
               /\ op'[q] = op[q] /\ pc[q] # "idle"
    BY <1>2, <1>3, <1>7, <2>5 DEF Transactions
  <2>6. ASSUME NEW q \in Processes, pc'[q] # "idle"
        PROVE  /\ \A r \in Processes : pc'[r] # "idle" /\ r # q => op'[r].number # op'[q].number
               /\ op'[q].tx # op'[q].number =>
                     /\ staging'[op'[q].number] = None
                     /\ \A r \in Processes : pc'[r] # "idle" => op'[r].tx # op'[q].number
    <3>1. CASE q = p
      BY <1>1, <1>3, <2>4, <2>5, <3>1
    <3>2. CASE q # p
      <4>1. \A r \in Processes : pc'[r] # "idle" /\ r # q => op'[r].number # op'[q].number
        BY <1>1, <2>5, <2>6, <3>2 DEF RetainedInv, NumberInv
      <4>2. op'[q].tx # op'[q].number =>
               /\ staging[op[q].number] = None
               /\ \A r \in Processes : pc[r] # "idle" => op[r].tx # op[q].number
        BY <2>5, <2>6, <3>2 DEF RetainedInv, NumberInv
      <4> QED
        BY <1>1, <1>4, <2>5, <2>6, <3>2, <4>1, <4>2
    <3> QED
      BY <3>1, <3>2
  <2> QED
    BY <2>1, <2>2, <2>3, <2>6 DEF NumberInv
<1>9. MoveInv'
  <2>1. Moves(p)'
    BY <1>1 DEF Moves
  <2>2. ASSUME NEW q \in Processes, pc'[q] # "idle", q # p PROVE Moves(q)'
    <3>1. pc'[q] = pc[q] /\ op'[q] = op[q] /\ Moves(q) /\ Collects(q) /\ op[q].number # 0
      BY <1>2, <1>7, <2>2
    <3>2. pc[q] = "transaction" =>
             \A r \in Processes : pc'[r] # "idle" /\ r # q => op'[r].tx # op[q].tx
      BY <1>1, <1>2, <3>1 DEF Moves, Collects
    <3> QED
      BY <1>4, <3>1, <3>2 DEF Moves
  <2> QED
    BY <2>1, <2>2 DEF MoveInv
<1>10. PinInv'
  BY <1>4 DEF RetainedInv, PinInv, PinnedStays, Reachable, Roots, Listed
<1>11. WholeInv'
  <2>1. Safe' = Safe
    BY <1>4 DEF Safe
  <2>2. ASSUME NEW q \in Processes, pc'[q] # "idle", op'[q].tx # 0
        PROVE  q # p /\ Settles(q)'
    <3>1. q # p
      BY <1>1, <2>2
    <3>2. pc'[q] = pc[q] /\ op'[q] = op[q] /\ Settles(q)
      BY <1>2, <1>7, <2>2, <3>1
    <3> QED
      BY <1>4, <2>1, <3>1, <3>2 DEF Settles, Unsettled
  <2>3. ASSUME NEW q \in Processes, NEW r \in Processes, pc'[q] # "idle", op'[q].tx # 0,
               pc'[r] # "idle", r # q, op'[r].tx = op'[q].tx, op'[q].then # "recover",
               staging'[op'[q].tx] # None
        PROVE  staging'[op'[q].tx].ids \subseteq contested'
    BY <1>2, <1>4, <2>2, <2>3 DEF RetainedInv, WholeInv
  <2>4. /\ \A t, u \in Transactions : staging'[t] # None /\ staging'[u] # None /\ t # u =>
              staging'[t].ids \cap staging'[u].ids \subseteq contested'
        /\ \A t \in Transactions : staging'[t] # None /\ staging'[t].state = "moving" =>
              staging'[t].ids \subseteq Safe' \cup staging'[t].held
    BY <1>4, <2>1 DEF RetainedInv, WholeInv
  <2> QED
    BY <2>2, <2>3, <2>4 DEF WholeInv
<1> QED
  BY <1>1, <1>5, <1>6, <1>8, <1>9, <1>10, <1>11 DEF RetainedInv, TypeInv

LEMMA OperationIs ==
    ASSUME NEW next \in {"lineage", "lookup", "plan"}, started \in 0..MaxOperations,
           started < MaxOperations
    PROVE  /\ Operation(next) \in Operations /\ Operation(next).number = started + 1
           /\ Operation(next).tx = 0 /\ Operation(next).then = "raise"
           /\ Operation(next).next = next /\ Operation(next).results = <<>>
           /\ Operation(next).built = {} /\ Operation(next).forced = {}
<1>1. started + 1 \in 1..MaxOperations /\ 0 \in 0..MaxOperations
  BY StoreConstants
<1>2. <<>> \in Seq(Artifacts)
  BY EmptySeq
<1> DEFINE results == <<>>
<1>3. results \in Seq(Artifacts)
  BY <1>2
<1>4. Operation(next) =
          [number |-> started + 1, next |-> next, left |-> {}, tx |-> 0, then |-> "raise",
           todo |-> {}, moved |-> {},
           plan |-> None, input |-> None, decodes |-> FALSE, forced |-> {}, results |-> results,
           invalid |-> {}, built |-> {}, made |-> None, rejected |-> None]
  BY DEF Operation
<1> HIDE DEF results
<1>5. Operation(next) \in Operations /\ Operation(next).number = started + 1
      /\ Operation(next).tx = 0 /\ Operation(next).then = "raise"
      /\ Operation(next).next = next /\ Operation(next).results = results
      /\ Operation(next).built = {} /\ Operation(next).forced = {}
  BY <1>1, <1>3, <1>4 DEF Operations
<1> QED
  BY <1>5 DEF results

LEMMA BeginCollectKeeps ==
    ASSUME RetainedInv, NEW p \in Processes, BeginCollect(p), UNCHANGED <<late, contested>>
    PROVE  RetainedInv'
<1> DEFINE o == Operation("plan")
<1>1. started \in 0..MaxOperations /\ started < MaxOperations
  BY DEF RetainedInv, TypeInv, FileTypes, BeginCollect
<1>2. /\ o \in Operations /\ o.number = started + 1 /\ o.tx = 0 /\ o.then = "raise"
      /\ o.next = "plan" /\ o.results = <<>> /\ o.built = {}
  BY <1>1, OperationIs
<1>3. /\ pc[p] = "idle" /\ Goes(p, "open") /\ op' = [op EXCEPT ![p] = o]
      /\ started' = started + 1 /\ UNCHANGED <<disk, crashes>>
  BY DEF BeginCollect
<1> HIDE DEF o
<1> QED
  BY <1>1, <1>2, <1>3, BeginKeeps

LEMMA BeginCompileKeeps ==
    ASSUME RetainedInv, NEW p \in Processes, NEW input \in Inputs, NEW requested \in SUBSET Names,
           NEW decodes \in BOOLEAN, BeginCompile(p, input, requested, decodes),
           UNCHANGED <<late, contested>>
    PROVE  RetainedInv'
<1> DEFINE first == IF decodes /\ requested = {} THEN "lineage" ELSE "lookup"
           forced == ForcedBy(requested)
           begun == Operation(first)
           o == [begun EXCEPT !.input = input, !.decodes = decodes, !.forced = forced]
<1>1. started \in 0..MaxOperations /\ started < MaxOperations
  BY DEF RetainedInv, TypeInv, FileTypes, BeginCompile
<1>2. forced \in SUBSET Names /\ (first = "lineage" => forced = {})
  BY BehindNames, BehindNothing DEF ForcedBy
<1>3. /\ pc[p] = "idle" /\ Goes(p, "open") /\ op' = [op EXCEPT ![p] = o]
      /\ started' = started + 1 /\ UNCHANGED <<disk, crashes>>
  BY DEF BeginCompile
<1>4. first \in {"lineage", "lookup"}
  OBVIOUS
<1> HIDE DEF first, forced
<1>5. /\ begun \in Operations /\ begun.number = started + 1 /\ begun.tx = 0 /\ begun.then = "raise"
      /\ begun.next = first /\ begun.results = <<>> /\ begun.built = {}
  BY <1>1, <1>4, OperationIs
<1> HIDE DEF begun
<1>6. /\ o \in Operations /\ o.number = started + 1 /\ o.tx = 0 /\ o.then = "raise"
      /\ o.next = first /\ o.results = begun.results /\ o.input = input
      /\ o.built = {} /\ o.forced = forced
  <2> DEFINE named == [begun EXCEPT !.input = input, !.forced = forced]
  <2>1. /\ named \in Operations /\ named.number = begun.number /\ named.tx = begun.tx
        /\ named.then = begun.then /\ named.next = begun.next /\ named.results = begun.results
        /\ named.input = input /\ named.built = begun.built /\ named.forced = forced
    BY <1>2, <1>5 DEF Operations
  <2>2. o = [named EXCEPT !.decodes = decodes]
    BY <1>5 DEF Operations
  <2> HIDE DEF named, o
  <2>3. /\ o \in Operations /\ o.number = named.number /\ o.tx = named.tx
        /\ o.then = named.then /\ o.next = named.next /\ o.results = named.results
        /\ o.input = named.input /\ o.built = named.built /\ o.forced = named.forced
    BY <2>1, <2>2 DEF Operations
  <2> QED
    BY <1>5, <2>1, <2>3
<1>7. o.results = <<>>
  BY <1>5, <1>6
<1> HIDE DEF o
<1>8. o.next \in {"lineage", "lookup", "plan"} /\ o.input \in Inputs
      /\ (o.next = "lineage" => o.forced = {})
  BY <1>2, <1>4, <1>6
<1> QED
  BY <1>1, <1>3, <1>6, <1>7, <1>8, BeginKeeps

\* What is pinned is what a compilation from nothing makes last. If something it
\* was made from is listed by a collection by now, or gone, it is pinned late.
LEMMA WritePinKeeps ==
    ASSUME RetainedInv, NEW p \in Processes, WritePin(p)
    PROVE  RetainedInv'
<1> DEFINE i == op[p].input
           a == Last(op[p].results)
<1>1. /\ pc[p] = "writepin" /\ pc[p] # "idle" /\ EndsNow(p)
      /\ pins' = [pins EXCEPT ![i] = a]
      /\ late' = late \cup {b \in Closure(a) : b \in Listed \/ b \notin stored}
      /\ UNCHANGED <<stored, damaged, illegible, altered, old, quarantine, staging, started, crashes, contested>>
  BY DEF WritePin
<1>2. TypeInv /\ Compiles(p) /\ op[p].results \in Seq(Artifacts)
  BY <1>1, OperationInv, OperationTypes
<1>3. i \in Inputs /\ Len(op[p].results) = Len(Stages) /\ IsBegun(i, op[p].results)
  BY <1>1, <1>2, NoneIsNothing DEF Compiles, Compiling
<1>4. a \in {Last(results) : results \in Compilations[i]} /\ a \in Artifacts
  <2>1. op[p].results \in Compilations[i]
    BY <1>3, BegunIsPrefix
  <2>2. op[p].results[Len(Stages)] \in Artifacts
    BY <1>3, ArtifactIs, StoreConstants
  <2> QED
    BY <1>3, <2>1, <2>2 DEF Last
<1>5. pins \in [Inputs -> Artifacts \cup {None}]
  BY <1>2 DEF TypeInv, FileTypes
<1> HIDE DEF a, i
<1>6. pins'[i] = a /\ \A j \in Inputs \ {i} : pins'[j] = pins[j]
  BY <1>1, <1>3, <1>5
<1>7. OthersWait(p) /\ pc'[p] = "idle" /\ ProcessTypes'
  <2>1. pc' = [pc EXCEPT ![p] = "idle"] /\ op' = [op EXCEPT ![p] = None]
    BY <1>1 DEF EndsNow, Goes
  <2> QED
    BY <1>2, <2>1 DEF TypeInv, ProcessTypes, OthersWait, Steps
<1>8. KeepsFiles /\ KeepsDirectories(p) /\ GoesOn(p)
  BY <1>1, <1>7, SameDirectories DEF KeepsFiles, GoesOn
<1>9. Closure(a) \subseteq Artifacts
  BY <1>4, ClosureOfArtifacts DEF Closure
<1>10. FileTypes'
  <2>1. pins' \in [Inputs -> Artifacts \cup {None}]
    BY <1>1, <1>4, <1>5
  <2> QED
    BY <1>1, <1>2, <1>9, <2>1 DEF TypeInv, FileTypes
<1>11. CompileInv'
  <2>1. ASSUME NEW q \in Processes, pc'[q] # "idle" PROVE Compiles(q)'
    <3>1. pc'[q] = pc[q] /\ op'[q] = op[q] /\ Compiles(q)
      BY <1>7, <2>1 DEF OthersWait, RetainedInv, CompileInv
    <3> QED
      BY <1>1, <3>1 DEF Compiles
  <2>2. \A j \in Inputs : pins'[j] # None => pins'[j] \in {Last(results) : results \in Compilations[j]}
    BY <1>4, <1>6 DEF RetainedInv, CompileInv
  <2> QED
    BY <2>1, <2>2 DEF CompileInv
<1>12. NumberInv' /\ MoveInv' /\ WholeInv'
  BY <1>1, <1>7, <1>8, NumbersStay, MovesStay, WholeStays DEF RetainedInv
<1>13. PinInv'
  <2>1. Roots' \subseteq Roots \cup {a}
    BY <1>6 DEF Roots
  <2>2. Reachable' = ClosureOf(Roots')
    BY DEF Reachable
  <2>3. ClosureOf(Roots') \subseteq ClosureOf(Roots) \cup ClosureOf({a})
    BY <2>1, ClosureSplits
  <2>4. Reachable' \subseteq Reachable \cup Closure(a)
    BY <2>2, <2>3 DEF Reachable, Closure
  <2>5. Listed' = Listed
    BY <1>1 DEF Listed
  <2> QED
    BY <1>1, <2>4, <2>5 DEF RetainedInv, PinInv, PinnedStays
<1> QED
  BY <1>7, <1>10, <1>11, <1>12, <1>13 DEF RetainedInv, TypeInv

-----------------------------------------------------------------------------
(* The invariant *)

\* What is in the store at the start it has with all it was made from, and so what
\* is pinned.
LEMMA InitInv == Init => RetainedInv
<1> SUFFICES ASSUME Init PROVE RetainedInv
  OBVIOUS
<1>1. MaxOperations \in Nat /\ MaxCrashes \in Nat
  BY StoreConstants
<1>2. stored \subseteq Artifacts /\ \A a \in stored : a.upstream \subseteq stored
  BY DEF Init
<1>3. /\ pins \in [Inputs -> stored \cup {None}]
      /\ \A i \in Inputs : pins[i] # None => pins[i] \in {Last(results) : results \in Compilations[i]}
  BY DEF Init
<1>4. illegible \subseteq damaged /\ damaged \subseteq stored /\ altered \subseteq stored
  <2>1. PICK changed \in {{}} \cup {{a} : a \in stored}, seen \in {"no", "files", "manifest"} :
           /\ damaged = IF seen = "no" THEN {} ELSE changed
           /\ illegible = IF seen = "manifest" THEN changed ELSE {}
           /\ altered = changed \ damaged
    BY DEF Init
  <2>2. changed \subseteq stored
    OBVIOUS
  <2> QED
    BY <2>1, <2>2
<1>5. /\ old = stored /\ quarantine = {} /\ staging = [t \in Transactions |-> None]
      /\ pc = [p \in Processes |-> "idle"] /\ op = [p \in Processes |-> None]
      /\ started = 0 /\ crashes = 0 /\ late = {} /\ contested = {}
  BY DEF Init
<1>6. FileTypes
  BY <1>1, <1>2, <1>3, <1>4, <1>5 DEF FileTypes
<1>7. ProcessTypes
  BY <1>5 DEF ProcessTypes, Steps
<1>8. CompileInv
  BY <1>3, <1>5 DEF CompileInv
<1>9. NumberInv /\ MoveInv
  BY <1>5 DEF NumberInv, MoveInv
<1>10. WholeInv
  BY <1>5 DEF WholeInv
<1>11. PinInv
  <2>1. Roots \subseteq stored
    BY <1>3 DEF Roots
  <2>2. Reachable \subseteq stored
    BY <1>2, <2>1, ClosureWithin DEF Reachable
  <2>3. Listed = {}
    BY <1>5 DEF Listed
  <2> QED
    BY <2>2, <2>3 DEF PinInv, PinnedStays
<1> QED
  BY <1>6, <1>7, <1>8, <1>9, <1>10, <1>11 DEF RetainedInv, TypeInv

LEMMA StutterKeeps == RetainedInv /\ UNCHANGED allVars => RetainedInv'
<1> SUFFICES ASSUME RetainedInv, UNCHANGED allVars PROVE RetainedInv'
  OBVIOUS
<1> USE DEF allVars, vars, disk
<1>1. TypeInv'
  BY DEF RetainedInv, TypeInv, FileTypes, ProcessTypes
<1>2. CompileInv'
  BY DEF RetainedInv, CompileInv, Compiles
<1>3. NumberInv' /\ MoveInv'
  BY DEF RetainedInv, NumberInv, Collects, MoveInv, Moves
<1>4. PinInv'
  BY DEF RetainedInv, PinInv, PinnedStays, Reachable, Roots, Listed
<1>5. WholeInv'
  BY DEF RetainedInv, WholeInv, Settles, Unsettled, Safe
<1> QED
  BY <1>1, <1>2, <1>3, <1>4, <1>5 DEF RetainedInv

LEMMA StepInv == RetainedInv /\ [Next]_allVars => RetainedInv'
<1> SUFFICES ASSUME RetainedInv, [Next]_allVars PROVE RetainedInv'
  OBVIOUS
<1>1. CASE UNCHANGED allVars
  BY <1>1, StutterKeeps
<1>2. ASSUME NEW p \in Processes, Begin(p), UNCHANGED <<late, contested>> PROVE RetainedInv'
  <2>1. ASSUME NEW i \in Inputs, NEW requested \in {{}, Names} \cup {{s} : s \in Names},
               NEW decodes \in BOOLEAN, BeginCompile(p, i, requested, decodes)
        PROVE  RetainedInv'
    <3>1. requested \in SUBSET Names
      OBVIOUS
    <3> QED
      BY <1>2, <2>1, <3>1, BeginCompileKeeps
  <2> QED
    BY <1>2, <2>1, BeginCollectKeeps DEF Begin
<1>3. ASSUME NEW p \in Processes, Store(p), UNCHANGED <<late, contested>> PROVE RetainedInv'
  BY <1>3, OpenKeeps, RestoreKeeps, RejectKeeps, PlanKeeps, WriteTransactionKeeps, MoveKeeps,
     CommitCollectionKeeps, RollbackKeeps, ListEntriesKeeps, RemoveEntryKeeps,
     RemoveDirectoryKeeps DEF Store
<1>4. ASSUME NEW p \in Processes, Compile(p), UNCHANGED <<late, contested>> PROVE RetainedInv'
  BY <1>4, LineageKeeps, LookupKeeps, BuildKeeps, RenameKeeps, ConfirmKeeps, PinKeeps,
     PublishKeeps DEF Compile
<1>5. ASSUME NEW p \in Processes, Kill(p), UNCHANGED <<late, contested>> PROVE RetainedInv'
  BY <1>5, KillKeeps
<1>6. ASSUME NEW p \in Processes, Contest(p) PROVE RetainedInv'
  <2>1. Collect(p) \/ Recover(p)
    BY <1>6 DEF Contest
  <2> QED
    BY <1>6, <2>1, CollectKeeps, RecoverKeeps
<1>7. ASSUME NEW p \in Processes, WritePin(p) PROVE RetainedInv'
  BY <1>7, WritePinKeeps
<1> QED
  BY <1>1, <1>2, <1>3, <1>4, <1>5, <1>6, <1>7 DEF Next

THEOREM Invariant == Spec => []RetainedInv
BY InitInv, StepInv, PTL DEF Spec

-----------------------------------------------------------------------------
(* What follows from it *)

\* Every artifact, wherever it is, was made from artifacts of exactly the stages
\* its own depends on, and the variables have their types.
THEOREM TypeCorrect == Spec => []TypeOK
<1>1. RetainedInv => TypeOK
  <2> SUFFICES ASSUME RetainedInv PROVE TypeOK
    OBVIOUS
  <2>1. FileTypes /\ ProcessTypes
    BY DEF RetainedInv, TypeInv
  <2>2. stored \cup quarantine \cup late \cup Roots \subseteq Artifacts
    BY <2>1 DEF FileTypes, Roots
  <2>3. ClosureOf(stored \cup quarantine \cup late \cup Roots) \subseteq Artifacts
    BY <2>2, ClosureOfArtifacts
  <2>4. \A a \in ClosureOf(stored \cup quarantine \cup late \cup Roots) : IsArtifact(a)
    BY <2>3, ArtifactsAre
  <2> QED
    BY <2>1, <2>4 DEF TypeOK, FileTypes, ProcessTypes
<1> QED
  BY <1>1, Invariant, PTL

\* What is pinned, and all it was made from, is in place, in the quarantine, or
\* was pinned when it was already listed by a collection or gone.
THEOREM PinsAreKept == Spec => []PinnedStays
<1>1. RetainedInv => PinnedStays
  BY DEF RetainedInv, PinInv
<1> QED
  BY <1>1, Invariant, PTL

\* What a compilation takes from the store it was not told to make again, and all
\* that was made from is taken from the store as well: nothing behind a stage
\* that was made anew is reused.
LEMMA ReusesWhatStands == RetainedInv => ReusedFromReused
<1> SUFFICES ASSUME RetainedInv, NEW p \in Processes, pc[p] # "idle", op[p].input # None,
                    NEW a \in Reused(p)
             PROVE  a.stage \notin op[p].forced /\ Closure(a) \subseteq Reused(p)
  BY DEF ReusedFromReused
<1> DEFINE r == op[p].results
           i == op[p].input
           Kept(n) == n \in 1..Len(r) /\ Stages[n] \notin op[p].built
<1>1. Compiles(p) /\ i \in Inputs /\ r \in Seq(Artifacts)
  BY OperationTypes DEF RetainedInv, CompileInv
<1>2. IsBegun(i, r) /\ Reuses(op[p])
  BY <1>1 DEF Compiles
<1>3. DOMAIN r = 1..Len(r) /\ Len(r) \in Nat
  BY <1>1, LenProperties
<1>4. \A b : b \in Reused(p) <=> \E n \in 1..Len(r) : Kept(n) /\ b = r[n]
  BY <1>3 DEF Reused
<1>5. ASSUME NEW n \in 1..Len(r), Kept(n)
      PROVE  r[n].stage \notin op[p].forced /\ r[n].upstream \subseteq Reused(p)
  <2>1. /\ r[n].stage = Stages[n]
        /\ r[n].upstream = {b \in {r[m] : m \in 1..(n - 1)} : b.stage \in Dependencies[Stages[n]]}
    BY <1>1, <1>2, ArtifactIs
  <2>2. /\ Stages[n] \notin op[p].forced
        /\ \A m \in 1..(n - 1) :
              Stages[m] \in Dependencies[Stages[n]] => Stages[m] \notin op[p].built
    BY <1>2, <1>5 DEF Reuses
  <2>3. ASSUME NEW m \in 1..(n - 1), r[m].stage \in Dependencies[Stages[n]] PROVE r[m] \in Reused(p)
    <3>1. m \in 1..Len(r)
      BY <1>3
    <3>2. r[m].stage = Stages[m]
      BY <1>1, <1>2, <3>1, ArtifactIs
    <3> QED
      BY <1>4, <2>2, <2>3, <3>1, <3>2
  <2> QED
    BY <2>1, <2>2, <2>3
<1> HIDE DEF r, i, Kept
<1>6. a.stage \notin op[p].forced /\ \A b \in Reused(p) : b.upstream \subseteq Reused(p)
  BY <1>4, <1>5
<1>7. ClosureOf({a}) \subseteq Reused(p)
  BY <1>6, ClosureWithin
<1> QED
  BY <1>6, <1>7 DEF Closure

\* However its stages were found, made or made again, a compilation has, and pins
\* at the end, what one compilation from nothing makes; it reuses nothing that was
\* forced or is behind what was made anew, and nothing that was altered if it
\* decodes what it finds.
THEOREM CompilesAsFromNothing == Spec => []CompiledAsFromNothing
<1>1. RetainedInv => CompiledAsFromNothing
  <2> SUFFICES ASSUME RetainedInv PROVE CompiledAsFromNothing
    OBVIOUS
  <2>1. ASSUME NEW p \in Processes, pc[p] # "idle", op[p].input # None
        PROVE  /\ \E results \in Compilations[op[p].input] : IsPrefix(op[p].results, results)
               /\ op[p].decodes => Range(op[p].results) \cap altered = {}
    <3>1. Compiles(p) /\ op[p].input \in Inputs
      BY <2>1, OperationTypes DEF RetainedInv, CompileInv
    <3>2. /\ IsBegun(op[p].input, op[p].results)
          /\ op[p].decodes => Range(op[p].results) \cap altered = {}
      BY <2>1, <3>1 DEF Compiles
    <3> QED
      BY <3>1, <3>2, BegunIsPrefix
  <2> QED
    BY <2>1, ReusesWhatStands DEF RetainedInv, CompileInv, CompiledAsFromNothing
<1> QED
  BY <1>1, Invariant, PTL

\* When the collector of a collection that was not committed is gone, all it
\* listed is in place, in its directory, in the quarantine, or contested.
THEOREM InterruptionsLoseNothing == Spec => []InterruptedIsWhole
<1>1. RetainedInv => InterruptedIsWhole
  BY DEF RetainedInv, WholeInv, Safe, InterruptedIsWhole
<1> QED
  BY <1>1, Invariant, PTL

=============================================================================
