------------------------- MODULE RuralSequence_proofs -------------------------
(***************************************************************************)
(* Theorems about RuralSequence, for any communities, links, orders of     *)
(* candidates, settings, kills and forks: what the rural events of a       *)
(* branch are like, and that the planner of a run follows them.            *)
(***************************************************************************)
EXTENDS RuralSequence, SequenceTheorems, WellFoundedInduction, TLAPS

-----------------------------------------------------------------------------
(* The inductive invariant *)

\* What the events of a branch, in the order s, or the set E of some of them, say.
Past(s, i) == {s[j] : j \in 1..(i - 1)}
DecisionsIn(E) == {e \in E : e.kind = "decision"}
Decided(E) == {d.community : d \in DecisionsIn(E)}
Joined(E) == {d.community : d \in {e \in DecisionsIn(E) : e.selected}}
Left(E) == Communities \ {d.community : d \in {e \in DecisionsIn(E) : e.id # "gap"}}

\* What the planner offers after them.
Offered(E) == OfferNext(Left(E), Joined(E))

OneTask(s) ==
    \A i, j \in 1..Len(s) :
        s[i].kind = "task" /\ s[j].kind = "task" /\ s[i].community = s[j].community => i = j

OneDecision(s) ==
    \A i, j \in 1..Len(s) :
        s[i].kind = "decision" /\ s[j].kind = "decision"
        /\ s[i].community = s[j].community => i = j

\* What a task offers is what the planner offers until it is decided; what it
\* says of a gap stands from then on.
Stands(e, E) ==
    \/ e.community \in Decided(E)
    \/ e.offer = Offered(E)
    \/ e.offer = GapOffer(e.community) /\ Offered(E) = NoOffer

TasksStand(s) ==
    \A i \in 1..(Len(s) + 1) : \A j \in 1..(i - 1) :
        s[j].kind = "task" => s[j].offer.community = s[j].community /\ Stands(s[j], Past(s, i))

\* Decision d, after the events E, is about a candidate the planner offers then,
\* as its task says.
Chosen(d, E) ==
    /\ Offered(E) # NoOffer
    /\ d.community = Offered(E).community
    /\ d.id \in DOMAIN Offered(E).candidates
    /\ d.to = Offered(E).candidates[d.id]
    /\ \E e \in E : e.kind = "task" /\ e.offer = Offered(E)

DecisionsFit(s) ==
    \A i \in 1..Len(s) :
        s[i].kind = "decision" => IF s[i].id = "gap" THEN ~s[i].selected
                                  ELSE Chosen(s[i], Past(s, i))

\* After a gap there is nothing to offer.
GapsLast(s) ==
    \A i \in 1..(Len(s) + 1) : \A j \in 1..(i - 1) :
        s[j].kind = "decision" /\ s[j].id = "gap" => Offered(Past(s, i)) = NoOffer

\* Each of these holds of a beginning of s if it holds of s: a fork keeps them.
IsRecord(s) ==
    OneTask(s) /\ OneDecision(s) /\ TasksStand(s) /\ DecisionsFit(s) /\ GapsLast(s)

\* The planner has been told of the decisions among the events E, and no others.
Follows(E) == accepted = Joined(E) /\ pending = Left(E)

\* What a run in progress knows of the branch.
Knows ==
    /\ outcome = "running"
    /\ completed = Decided(ToSet(chain))
    /\ pc = "rebuild" => at <= Len(chain) + 1 /\ Follows(Past(chain, at))
    /\ pc # "rebuild" => Follows(ToSet(chain))
    /\ pc \in {"attempt", "wait", "judge", "decide"} =>
          /\ task # NoOffer /\ task = Offered(ToSet(chain))
          /\ \E e \in ToSet(chain) : e.kind = "task" /\ e.offer = task
    /\ pc = "decide" => /\ decision \in Decisions
                        /\ decision.community = task.community
                        /\ decision.id \in DOMAIN task.candidates
                        /\ decision.to = task.candidates[decision.id]
    /\ pc = "gaps" => Offered(ToSet(chain)) = NoOffer

\* A program that is not running knows nothing, and a run that returned left
\* every community decided.
Resting ==
    /\ pending = Communities /\ accepted = {} /\ at = 1
    /\ outcome \notin {"running", "disagrees"}
    /\ outcome = "returned" => Decided(ToSet(chain)) = Communities

RuralInv ==
    /\ TypeOK
    /\ IsRecord(chain)
    /\ pc # "idle" => Knows
    /\ pc = "idle" => Resting

-----------------------------------------------------------------------------
(* Offers *)

LEMMA Smallest ==
    ASSUME NEW T, T \subseteq Nat, T # {}
    PROVE  \E x \in T : \A y \in T : x <= y
<1> DEFINE Less == OpToRel(<, Nat)
<1>1. Less = {pair \in Nat \X Nat : pair[1] < pair[2]} /\ IsWellFoundedOn(Less, Nat)
  BY NatLessThanWellFounded DEF OpToRel
<1> HIDE DEF Less
<1>2. PICK x \in T : \A y \in T : <<y, x>> \notin Less
  BY <1>1, WFMin
<1>3. x \in Nat /\ \A y \in T : y \in Nat /\ ~(y < x)
  BY <1>1, <1>2
<1> QED
  BY <1>3

\* There is a link before all the others: no two links are alike.
LEMMA ShortestLink ==
    ASSUME NEW R, R \subseteq Links, R # {}
    PROVE  \E l \in R : \A m \in R \ {l} : Before(l, m)
<1>0. \A l \in R : l.length \in Nat /\ l.from \in Nat /\ l.to \in Nat
  <2>1. \A l \in R : l.length \in Nat /\ l.from \in Communities /\ l.to \in Targets
    BY RuralConstants
  <2> QED
    BY <2>1, RuralConstants DEF Communities, Targets, Spine
<1> DEFINE Lengths == {l.length : l \in R}
<1>1. PICK n \in Lengths : \A k \in Lengths : n <= k
  <2>1. Lengths \subseteq Nat /\ Lengths # {}
    BY <1>0
  <2> HIDE DEF Lengths
  <2> QED
    BY <2>1, Smallest
<1> DEFINE Short == {l \in R : l.length = n}
           Origins == {l.from : l \in Short}
<1>2. PICK f \in Origins : \A k \in Origins : f <= k
  <2>1. Origins \subseteq Nat /\ Origins # {}
    BY <1>0, <1>1
  <2> HIDE DEF Origins
  <2> QED
    BY <2>1, Smallest
<1> DEFINE Near == {l \in Short : l.from = f}
           Ends == {l.to : l \in Near}
<1>3. PICK t \in Ends : \A k \in Ends : t <= k
  <2>1. Ends \subseteq Nat /\ Ends # {}
    BY <1>0, <1>2
  <2> HIDE DEF Ends
  <2> QED
    BY <2>1, Smallest
<1>4. PICK l \in Near : l.to = t
  BY <1>3
<1>5. l \in R /\ l.length = n /\ l.from = f /\ l.to = t
  BY <1>4
<1>6. ASSUME NEW m \in R \ {l}
      PROVE  Before(l, m)
  <2>1. ~(l.from = m.from /\ l.to = m.to)
    BY <1>5, <1>6, RuralConstants
  <2>2. n <= m.length /\ n \in Nat /\ f \in Nat /\ t \in Nat
    BY <1>0, <1>1, <1>5
  <2>3. m.length = n => f <= m.from
    BY <1>2
  <2>4. m.length = n /\ m.from = f => t <= m.to
    BY <1>3
  <2> HIDE DEF Lengths, Short, Origins, Near, Ends
  <2> QED
    BY <1>0, <1>5, <2>1, <2>2, <2>3, <2>4 DEF Before
<1> QED
  BY <1>5, <1>6

\* An offer is for a pending community, over a link to the frontier; there is
\* none when there is no such link.
LEMMA OffersReachFrontier ==
    ASSUME NEW P, P \subseteq Communities, NEW A, A \subseteq Communities
    PROVE  /\ OfferNext(P, A) = NoOffer => LinksTo(P, Frontier(A)) = {}
           /\ OfferNext(P, A) # NoOffer =>
                /\ OfferNext(P, A) \in Offers
                /\ OfferNext(P, A).community \in P
                /\ "shortest" \in DOMAIN OfferNext(P, A).candidates
                /\ \A id \in DOMAIN OfferNext(P, A).candidates :
                     /\ id \in {"shortest", "townward"}
                     /\ OfferNext(P, A).candidates[id] \in Frontier(A)
<1> DEFINE reachable == LinksTo(P, Frontier(A))
<1>1. CASE reachable = {}
  BY <1>1 DEF OfferNext
<1>2. CASE reachable # {}
  <2> DEFINE link == CHOOSE l \in reachable : \A m \in reachable \ {l} : Before(l, m)
             o == OfferNext(P, A)
             F == Frontier(A)
             townward == MeetsAt(link.from, F) \ {link.to}
             ids == {"shortest"} \cup (IF townward = {} THEN {} ELSE {"townward"})
             there == CHOOSE t \in townward : TRUE
             f == [id \in ids |-> IF id = "shortest" THEN link.to ELSE there]
  <2>1. link \in reachable
    <3>1. reachable \subseteq Links
      BY DEF LinksTo
    <3> HIDE DEF reachable
    <3>2. \E l \in reachable : \A m \in reachable \ {l} : Before(l, m)
      BY <1>2, <3>1, ShortestLink
    <3> QED
      BY <3>2
  <2>2. o = [community |-> link.from, candidates |-> f]
    BY <1>2 DEF OfferNext, OfferOver
  <2>3. F \subseteq Targets
    BY DEF Frontier, Targets
  <2>4. link.from \in P /\ link.to \in F /\ link.from \in Communities
    <3> HIDE DEF link
    <3> QED
      BY <2>1 DEF LinksTo
  <2>5. townward \subseteq F
    BY DEF MeetsAt
  <2> HIDE DEF link, F, townward
  <2>6. townward # {} => there \in F
    BY <2>5
  <2>7. ids \in SUBSET Ids /\ ids # {} /\ ids \subseteq {"shortest", "townward"}
    BY DEF Ids
  <2>8. f \in [ids -> F]
    <3> HIDE DEF there
    <3>1. \A id \in ids : id # "shortest" => townward # {}
      OBVIOUS
    <3> QED
      BY <2>4, <2>6, <3>1
  <2>9. DOMAIN f = ids /\ "shortest" \in ids /\ \A id \in ids : f[id] \in F
    BY <2>8
  <2> HIDE DEF ids, f
  <2>10. f \in [ids -> Targets]
    BY <2>3, <2>8
  <2>11. f \in UNION {[D -> Targets] : D \in SUBSET Ids}
    BY <2>7, <2>10
  <2>12. o.community = link.from /\ o.candidates = f
    BY <2>2
  <2>13. o \in Offers
    BY <2>2, <2>4, <2>7, <2>9, <2>11 DEF Offers
  <2>14. o # NoOffer
    BY <2>13, NoOfferIsNone
  <2> QED
    BY <2>4, <2>7, <2>9, <2>12, <2>13, <2>14 DEF F
<1> QED
  BY <1>1, <1>2

-----------------------------------------------------------------------------
(* Sequences of events *)

LEMMA Elements ==
    ASSUME NEW S, NEW s \in Seq(S)
    PROVE  /\ Len(s) \in Nat /\ DOMAIN s = 1..Len(s)
           /\ ToSet(s) = Past(s, Len(s) + 1) /\ ToSet(s) \subseteq S
           /\ \A i \in 1..Len(s) : s[i] \in S /\ s[i] \in ToSet(s)
           /\ \A x \in ToSet(s) : \E i \in 1..Len(s) : s[i] = x
<1>1. Len(s) \in Nat /\ DOMAIN s = 1..Len(s) /\ \A i \in 1..Len(s) : s[i] \in S
  BY LenProperties, ElementOfSeq
<1>2. ToSet(s) = {s[i] : i \in 1..Len(s)}
  BY <1>1 DEF ToSet
<1>3. (Len(s) + 1) - 1 = Len(s)
  BY <1>1
<1>4. ToSet(s) = Past(s, Len(s) + 1)
  BY <1>2, <1>3 DEF Past
<1> QED
  BY <1>1, <1>2, <1>4

LEMMA Added ==
    ASSUME NEW S, NEW s \in Seq(S), NEW e \in S
    PROVE  /\ Append(s, e) \in Seq(S) /\ Len(Append(s, e)) = Len(s) + 1 /\ Len(s) \in Nat
           /\ \A i \in 1..Len(s) : Append(s, e)[i] = s[i]
           /\ Append(s, e)[Len(s) + 1] = e
           /\ ToSet(Append(s, e)) = ToSet(s) \cup {e}
<1> DEFINE t == Append(s, e)
<1>1. /\ t \in Seq(S) /\ Len(t) = Len(s) + 1 /\ Len(s) \in Nat
      /\ (\A i \in 1..Len(s) : t[i] = s[i]) /\ t[Len(s) + 1] = e
  BY AppendProperties, LenProperties
<1> HIDE DEF t
<1>2. ToSet(t) = {t[i] : i \in 1..(Len(s) + 1)}
  BY <1>1, LenProperties DEF ToSet
<1>3. ToSet(s) = {s[i] : i \in 1..Len(s)}
  BY LenProperties DEF ToSet
<1>4. 1..(Len(s) + 1) = 1..Len(s) \cup {Len(s) + 1}
  BY <1>1
<1>5. ToSet(t) = ToSet(s) \cup {e}
  BY <1>1, <1>2, <1>3, <1>4
<1> QED
  BY <1>1, <1>5 DEF t

LEMMA Prefix ==
    ASSUME NEW S, NEW s \in Seq(S), NEW n \in Nat, n <= Len(s)
    PROVE  /\ SubSeq(s, 1, n) \in Seq(S) /\ Len(SubSeq(s, 1, n)) = n
           /\ \A i \in 1..n : SubSeq(s, 1, n)[i] = s[i]
<1>1. \A i \in 1..n : s[i] \in S
  BY LenProperties, ElementOfSeq
<1> QED
  BY <1>1, SubSeqProperties, LenProperties

\* The events before the i-th depend on no others.
LEMMA SamePast ==
    ASSUME NEW s, NEW t, NEW n \in Nat, \A j \in 1..n : s[j] = t[j], NEW i \in 1..(n + 1)
    PROVE  Past(s, i) = Past(t, i)
<1>1. \A j \in 1..(i - 1) : s[j] = t[j]
  OBVIOUS
<1> QED
  BY <1>1 DEF Past

-----------------------------------------------------------------------------
(* What the events of a branch say *)

\* The planner is only told of communities.
LEMMA DecisionsAreDecisions ==
    ASSUME NEW E, E \subseteq Events
    PROVE  /\ DecisionsIn(E) \subseteq Decisions
           /\ Joined(E) \subseteq Communities /\ Left(E) \subseteq Communities
           /\ Decided(E) \subseteq Communities
<1>1. DecisionsIn(E) \subseteq Decisions
  BY DEF DecisionsIn, Events, Decisions, Tasks, Starts, Results
<1>2. \A d \in DecisionsIn(E) : d.community \in Communities
  BY <1>1 DEF Decisions
<1> QED
  BY <1>1, <1>2 DEF Joined, Left, Decided

\* What an event adds to what was said before it.
LEMMA Says ==
    ASSUME NEW E, NEW e
    PROVE  /\ e.kind # "decision" =>
                /\ Decided(E \cup {e}) = Decided(E) /\ Offered(E \cup {e}) = Offered(E)
                /\ Joined(E \cup {e}) = Joined(E) /\ Left(E \cup {e}) = Left(E)
           /\ e.kind = "decision" =>
                /\ Decided(E \cup {e}) = Decided(E) \cup {e.community}
                /\ Joined(E \cup {e}) = Joined(E) \cup (IF e.selected THEN {e.community} ELSE {})
                /\ Left(E \cup {e}) = Left(E) \ (IF e.id = "gap" THEN {} ELSE {e.community})
           /\ e.kind = "decision" /\ e.id = "gap" /\ ~e.selected =>
                Offered(E \cup {e}) = Offered(E)
<1>1. CASE e.kind # "decision"
  <2>1. DecisionsIn(E \cup {e}) = DecisionsIn(E)
    BY <1>1 DEF DecisionsIn
  <2> QED
    BY <1>1, <2>1 DEF Decided, Joined, Left, Offered
<1>2. CASE e.kind = "decision"
  <2>1. DecisionsIn(E \cup {e}) = DecisionsIn(E) \cup {e}
    BY <1>2 DEF DecisionsIn
  <2>2. Decided(E \cup {e}) = Decided(E) \cup {e.community}
    BY <2>1 DEF Decided
  <2>3. Joined(E \cup {e}) = Joined(E) \cup (IF e.selected THEN {e.community} ELSE {})
    BY <2>1 DEF Joined
  <2>4. Left(E \cup {e}) = Left(E) \ (IF e.id = "gap" THEN {} ELSE {e.community})
    BY <2>1 DEF Left
  <2>5. e.id = "gap" /\ ~e.selected => Offered(E \cup {e}) = Offered(E)
    BY <2>3, <2>4 DEF Offered
  <2> QED
    BY <1>2, <2>2, <2>3, <2>4, <2>5
<1> QED
  BY <1>1, <1>2

\* A beginning of a record is a record.
LEMMA RecordBegins ==
    ASSUME NEW s \in Seq(Events), IsRecord(s), NEW n \in Nat, n <= Len(s)
    PROVE  IsRecord(SubSeq(s, 1, n))
<1> DEFINE t == SubSeq(s, 1, n)
<1>1. Len(t) = n /\ Len(s) \in Nat /\ \A i \in 1..n : t[i] = s[i]
  BY Prefix, LenProperties
<1> HIDE DEF t
<1>2. /\ \A i \in 1..n : i \in 1..Len(s)
      /\ \A i \in 1..(n + 1) : i \in 1..(Len(s) + 1) /\ \A j \in 1..(i - 1) : j \in 1..n
  BY <1>1
<1>3. \A i \in 1..(n + 1) : Past(t, i) = Past(s, i)
  BY <1>1, SamePast
<1>4. OneTask(t) /\ OneDecision(t)
  BY <1>1, <1>2 DEF IsRecord, OneTask, OneDecision
<1>5. TasksStand(t)
  BY <1>1, <1>2, <1>3 DEF IsRecord, TasksStand
<1>6. DecisionsFit(t)
  <2>1. \A i \in 1..n : i \in 1..(n + 1)
    OBVIOUS
  <2> QED
    BY <1>1, <1>2, <1>3, <2>1 DEF IsRecord, DecisionsFit
<1>7. GapsLast(t)
  BY <1>1, <1>2, <1>3 DEF IsRecord, GapsLast
<1> QED
  BY <1>4, <1>5, <1>6, <1>7 DEF IsRecord, t

\* What an event must be to be recorded after those of s.
Admits(s, e) ==
    /\ e.kind = "task" =>
          /\ \A i \in 1..Len(s) : s[i].kind = "task" => s[i].community # e.community
          /\ e.offer.community = e.community /\ Stands(e, ToSet(s))
    /\ e.kind = "decision" =>
          /\ e.community \notin Decided(ToSet(s))
          /\ IF e.id = "gap" THEN ~e.selected /\ Offered(ToSet(s)) = NoOffer
             ELSE Chosen(e, ToSet(s))

LEMMA RecordGrows ==
    ASSUME NEW s \in Seq(Events), NEW e \in Events, IsRecord(s), Admits(s, e)
    PROVE  IsRecord(Append(s, e))
<1> DEFINE t == Append(s, e)
           n == Len(s)
           E == ToSet(s)
<1>1. /\ Len(t) = n + 1 /\ n \in Nat /\ (\A i \in 1..n : t[i] = s[i]) /\ t[n + 1] = e
      /\ ToSet(t) = E \cup {e} /\ t \in Seq(Events)
      /\ E = Past(s, n + 1) /\ (\A i \in 1..n : s[i] \in E)
      /\ \A i \in 1..(n + 1) : i \in 1..n \/ i = n + 1
  BY Added, Elements
<1>2. Past(t, n + 1 + 1) = E \cup {e}
  BY <1>1, Elements
<1> HIDE DEF t, n, E
<1>3. \A i \in 1..(n + 1) : Past(t, i) = Past(s, i)
  BY <1>1, SamePast
<1>4. /\ \A i \in 1..(n + 1 + 1) : i \in 1..(n + 1) \/ i = n + 1 + 1
      /\ \A i \in 1..(n + 1) : \A j \in 1..(i - 1) : j \in 1..n
      /\ (n + 1 + 1) - 1 = n + 1 /\ (n + 1) - 1 = n /\ n + 1 \in 1..(n + 1)
  BY <1>1
<1>5. OneTask(t)
  <2>1. \A i \in 1..n :
          /\ e.kind = "task" /\ s[i].kind = "task" => s[i].community # e.community
          /\ \A j \in 1..n : s[i].kind = "task" /\ s[j].kind = "task"
                             /\ s[i].community = s[j].community => i = j
    BY DEF IsRecord, OneTask, Admits, n
  <2> QED
    BY <1>1, <2>1 DEF OneTask
<1>6. OneDecision(t)
  <2>1. \A i \in 1..n : s[i].kind = "decision" => s[i].community \in Decided(E)
    BY <1>1 DEF Decided, DecisionsIn
  <2>2. \A i \in 1..n :
          /\ e.kind = "decision" /\ s[i].kind = "decision" => s[i].community # e.community
          /\ \A j \in 1..n : s[i].kind = "decision" /\ s[j].kind = "decision"
                             /\ s[i].community = s[j].community => i = j
    BY <2>1 DEF IsRecord, OneDecision, Admits, n, E
  <2> QED
    BY <1>1, <2>2 DEF OneDecision
<1>7. \A j \in 1..n : s[j].kind = "task" => s[j].offer.community = s[j].community /\ Stands(s[j], E)
  BY <1>1, <1>4 DEF IsRecord, TasksStand, n
<1>8. TasksStand(t)
  <2>1. ASSUME NEW j \in 1..(n + 1), t[j].kind = "task"
        PROVE  t[j].offer.community = t[j].community /\ Stands(t[j], E \cup {e})
    <3>1. t[j].offer.community = t[j].community /\ Stands(t[j], E)
      <4>1. CASE j \in 1..n
        BY <1>1, <1>7, <2>1, <4>1
      <4>2. CASE j = n + 1
        BY <1>1, <2>1, <4>2 DEF Admits, E
      <4> QED
        BY <1>1, <4>1, <4>2
    <3>2. CASE e.kind # "decision"
      BY <3>1, <3>2, Says DEF Stands
    <3>3. CASE e.kind = "decision" /\ e.id = "gap"
      <4>1. ~e.selected
        BY <3>3 DEF Admits
      <4>2. /\ Decided(E \cup {e}) = Decided(E) \cup {e.community}
            /\ Offered(E \cup {e}) = Offered(E)
        BY <3>3, <4>1, Says
      <4> QED
        BY <3>1, <4>2 DEF Stands
    <3>4. CASE e.kind = "decision" /\ e.id # "gap"
      <4>1. Offered(E) # NoOffer /\ Offered(E).community = e.community
        BY <3>4 DEF Admits, Chosen, E
      <4>2. t[j].community \in Decided(E) \cup {e.community}
        BY <3>1, <4>1 DEF Stands
      <4>3. t[j].community \in Decided(E \cup {e})
        BY <3>4, <4>2, Says
      <4> QED
        BY <3>1, <4>3 DEF Stands
    <3> QED
      BY <3>2, <3>3, <3>4
  <2>2. ASSUME NEW i \in 1..(n + 1), NEW j \in 1..(i - 1), t[j].kind = "task"
        PROVE  t[j].offer.community = t[j].community /\ Stands(t[j], Past(t, i))
    <3>1. j \in 1..n /\ t[j] = s[j]
      BY <1>1, <1>4, <2>2
    <3> QED
      BY <1>3, <2>2, <3>1 DEF IsRecord, TasksStand, n
  <2> QED
    BY <1>1, <1>2, <1>4, <2>1, <2>2 DEF TasksStand
<1>9. DecisionsFit(t)
  <2>1. ASSUME NEW i \in 1..(n + 1), t[i].kind = "decision"
        PROVE  IF t[i].id = "gap" THEN ~t[i].selected ELSE Chosen(t[i], Past(s, i))
    <3>1. CASE i \in 1..n
      BY <1>1, <2>1, <3>1 DEF IsRecord, DecisionsFit, n
    <3>2. CASE i = n + 1
      BY <1>1, <2>1, <3>2 DEF Admits, E
    <3> QED
      BY <1>1, <3>1, <3>2
  <2> QED
    BY <1>1, <1>3, <2>1 DEF DecisionsFit
<1>10. GapsLast(t)
  <2>1. ASSUME NEW j \in 1..(n + 1), t[j].kind = "decision", t[j].id = "gap"
        PROVE  Offered(E \cup {e}) = NoOffer
    <3>1. Offered(E) = NoOffer
      <4>1. CASE j \in 1..n
        <5>1. j \in 1..((n + 1) - 1) /\ n + 1 \in 1..(n + 1) /\ s[j].kind = "decision" /\ s[j].id = "gap"
          BY <1>1, <1>4, <2>1, <4>1
        <5> QED
          BY <1>1, <5>1 DEF IsRecord, GapsLast, n
      <4>2. CASE j = n + 1
        BY <1>1, <2>1, <4>2 DEF Admits, E
      <4> QED
        BY <1>1, <4>1, <4>2
    <3>2. CASE e.kind # "decision"
      BY <3>1, <3>2, Says
    <3>3. CASE e.kind = "decision"
      <4>1. e.id = "gap" /\ ~e.selected
        BY <3>1, <3>3 DEF Admits, Chosen, E
      <4> QED
        BY <3>1, <3>3, <4>1, Says
    <3> QED
      BY <3>2, <3>3
  <2>2. ASSUME NEW i \in 1..(n + 1), NEW j \in 1..(i - 1), t[j].kind = "decision", t[j].id = "gap"
        PROVE  Offered(Past(t, i)) = NoOffer
    <3>1. j \in 1..n /\ t[j] = s[j]
      BY <1>1, <1>4, <2>2
    <3> QED
      BY <1>3, <2>2, <3>1 DEF IsRecord, GapsLast, n
  <2> QED
    BY <1>1, <1>2, <1>4, <2>1, <2>2 DEF GapsLast
<1> QED
  BY <1>5, <1>6, <1>8, <1>9, <1>10 DEF IsRecord, t

-----------------------------------------------------------------------------
(* What a run finds on its branch *)

\* What is of one kind has the shape of that kind.
LEMMA Kinds ==
    ASSUME NEW e \in Events
    PROVE  /\ e.kind = "decision" => e \in Decisions
           /\ e.kind = "task" => e \in Tasks
           /\ e.kind = "attempt-result" => e \in Results
BY DEF Events, Decisions, Tasks, Starts, Results

\* What the planner offers after some events.
LEMMA OfferedIs ==
    ASSUME NEW E, E \subseteq Events, Offered(E) # NoOffer
    PROVE  /\ Offered(E) \in Offers
           /\ Offered(E).community \in Left(E) /\ Offered(E).community \in Communities
           /\ "shortest" \in DOMAIN Offered(E).candidates
           /\ \A id \in DOMAIN Offered(E).candidates :
                /\ id \in {"shortest", "townward"}
                /\ Offered(E).candidates[id] \in Joined(E) \cup {Spine}
                /\ Offered(E).candidates[id] \in Targets
<1>1. Joined(E) \subseteq Communities /\ Left(E) \subseteq Communities
  BY DecisionsAreDecisions
<1>2. Joined(E) \cup {Spine} \subseteq Targets
  BY <1>1 DEF Targets
<1>3. /\ Offered(E) \in Offers /\ Offered(E).community \in Left(E)
      /\ "shortest" \in DOMAIN Offered(E).candidates
      /\ \A id \in DOMAIN Offered(E).candidates :
           /\ id \in {"shortest", "townward"}
           /\ Offered(E).candidates[id] \in Frontier(Joined(E))
  BY <1>1, OffersReachFrontier DEF Offered
<1> QED
  BY <1>1, <1>2, <1>3 DEF Frontier

\* What a run knows, and what is on its branch.
LEMMA InProgress ==
    ASSUME RuralInv
    PROVE  /\ chain \in Seq(Events) /\ IsRecord(chain) /\ Len(chain) \in Nat
           /\ ToSet(chain) \subseteq Events /\ ToSet(chain) = Past(chain, Len(chain) + 1)
           /\ \A i \in 1..Len(chain) : chain[i] \in Events /\ chain[i] \in ToSet(chain)
           /\ \A e \in ToSet(chain) : \E i \in 1..Len(chain) : chain[i] = e
           /\ DOMAIN chain = 1..Len(chain)
           /\ pc # "idle" => Knows
<1>1. chain \in Seq(Events) /\ IsRecord(chain) /\ (pc # "idle" => Knows)
  BY DEF RuralInv, TypeOK
<1> QED
  BY <1>1, Elements

\* The task of a community is the only one, and says what it says until the
\* community is decided.
LEMMA TasksFound ==
    ASSUME RuralInv, NEW c
    PROVE  /\ \A e \in ToSet(chain) : IsTask(e, c) => OfferRecorded(c) = e.offer
           /\ \A e \in ToSet(chain) : e.kind = "task" =>
                e.offer.community = e.community /\ Stands(e, ToSet(chain)) /\ e.offer \in Offers
           /\ TaskRecorded(c) /\ c \notin Decided(ToSet(chain)) =>
                /\ \E e \in ToSet(chain) : IsTask(e, c) /\ e.offer = OfferRecorded(c)
                /\ Offered(ToSet(chain)) # NoOffer => OfferRecorded(c) = Offered(ToSet(chain))
<1>1. ASSUME NEW e \in ToSet(chain), IsTask(e, c)
      PROVE  OfferRecorded(c) = e.offer
  <2>1. ASSUME NEW f \in ToSet(chain), IsTask(f, c)
        PROVE  f = e
    <3>1. PICK i \in 1..Len(chain) : chain[i] = e
      BY InProgress
    <3>2. PICK j \in 1..Len(chain) : chain[j] = f
      BY InProgress
    <3>3. IsRecord(chain)
      BY InProgress
    <3> QED
      BY <1>1, <2>1, <3>1, <3>2, <3>3 DEF IsRecord, OneTask, IsTask
  <2> DEFINE x == CHOOSE f \in ToSet(chain) : IsTask(f, c)
  <2>2. x \in ToSet(chain) /\ IsTask(x, c)
    BY <1>1
  <2>3. x = e
    BY <2>1, <2>2
  <2> QED
    BY <2>3 DEF OfferRecorded
<1>2. ASSUME NEW e \in ToSet(chain), e.kind = "task"
      PROVE  e.offer.community = e.community /\ Stands(e, ToSet(chain)) /\ e.offer \in Offers
  <2>1. PICK j \in 1..Len(chain) : chain[j] = e
    BY InProgress
  <2>2. Len(chain) + 1 \in 1..(Len(chain) + 1) /\ j \in 1..((Len(chain) + 1) - 1)
    BY <2>1, InProgress
  <2>3. e.offer.community = e.community /\ Stands(e, ToSet(chain))
    BY <1>2, <2>1, <2>2, InProgress DEF IsRecord, TasksStand
  <2>4. e \in Tasks
    BY <1>2, InProgress, Kinds
  <2> QED
    BY <2>3, <2>4 DEF Tasks
<1>3. ASSUME TaskRecorded(c), c \notin Decided(ToSet(chain))
      PROVE  /\ \E e \in ToSet(chain) : IsTask(e, c) /\ e.offer = OfferRecorded(c)
             /\ Offered(ToSet(chain)) # NoOffer => OfferRecorded(c) = Offered(ToSet(chain))
  <2>1. PICK e \in ToSet(chain) : IsTask(e, c)
    BY <1>3 DEF TaskRecorded
  <2>2. e.offer = OfferRecorded(c)
    BY <1>1, <2>1
  <2>3. Stands(e, ToSet(chain)) /\ e.community = c
    BY <1>2, <2>1 DEF IsTask
  <2> QED
    BY <1>3, <2>1, <2>2, <2>3 DEF Stands
<1> QED
  BY <1>1, <1>2, <1>3

\* What the planner offers is not decided.
LEMMA OfferedIsOpen ==
    ASSUME RuralInv, Offered(ToSet(chain)) # NoOffer
    PROVE  Offered(ToSet(chain)).community \notin Decided(ToSet(chain))
<1> DEFINE E == ToSet(chain)
           c == Offered(E).community
<1>1. c \in Left(E)
  BY InProgress, OfferedIs
<1>2. ASSUME NEW d \in DecisionsIn(E), d.community = c
      PROVE  FALSE
  <2>1. d.id = "gap"
    BY <1>1, <1>2 DEF Left
  <2>2. PICK j \in 1..Len(chain) : chain[j] = d
    BY <1>2, InProgress DEF DecisionsIn
  <2>3. Len(chain) + 1 \in 1..(Len(chain) + 1) /\ j \in 1..((Len(chain) + 1) - 1)
    BY <2>2, InProgress
  <2>4. d.kind = "decision"
    BY <1>2 DEF DecisionsIn
  <2> QED
    BY <2>1, <2>2, <2>3, <2>4, InProgress DEF IsRecord, GapsLast
<1> QED
  BY <1>2 DEF Decided

\* An event is added to the branch.
LEMMA Grows ==
    ASSUME RuralInv, NEW e \in Events, Admits(chain, e), chain' = Append(chain, e)
    PROVE  /\ chain' \in Seq(Events) /\ IsRecord(chain')
           /\ ToSet(chain') = ToSet(chain) \cup {e}
BY InProgress, RecordGrows, Added

\* The next event of a branch.
LEMMA NextPast ==
    ASSUME NEW s, NEW i \in Nat, i > 0
    PROVE  Past(s, i + 1) = Past(s, i) \cup {s[i]}
<1>1. 1..((i + 1) - 1) = 1..(i - 1) \cup {i}
  OBVIOUS
<1> QED
  BY <1>1 DEF Past

LEMMA NothingPast == \A s : Past(s, 1) = {}
<1>1. 1..(1 - 1) = {}
  OBVIOUS
<1> QED
  BY <1>1 DEF Past

LEMMA NothingSaid ==
    /\ Joined({}) = {} /\ Left({}) = Communities /\ Decided({}) = {}
BY DEF Joined, Left, Decided, DecisionsIn

-----------------------------------------------------------------------------
(* The steps of a run *)

\* A run ends: its memory is gone, and its branch stays.
LEMMA Stops ==
    ASSUME RuralInv, chain' = chain, run' = run, pc' = "idle", Forget,
           outcome' \in {"rounded", "killed", "returned"},
           outcome' = "returned" => Decided(ToSet(chain)) = Communities,
           crashes' \in 0..MaxCrashes, forks' \in 0..MaxForks
    PROVE  RuralInv'
<1>1. TypeOK'
  <2>1. chain \in Seq(Events) /\ run \in RunSettings
    BY DEF RuralInv, TypeOK
  <2>2. /\ pending' = Communities /\ accepted' = {} /\ completed' = {} /\ at' = 1
        /\ task' = NoOffer /\ reread' \in BOOLEAN
        /\ actor' \in Actors /\ answer' \in Answers /\ decision' = NoDecision
    BY DEF Forget, Actors, Answers
  <2> HIDE DEF Forget
  <2> QED
    BY <2>1, <2>2 DEF TypeOK
<1>2. IsRecord(chain)'
  BY DEF RuralInv
<1>3. Resting'
  BY DEF Resting, Forget
<1> QED
  BY <1>1, <1>2, <1>3 DEF RuralInv

LEMMA BeginKeeps ==
    ASSUME RuralInv, NEW settings \in Settings, Begin(settings)
    PROVE  RuralInv'
<1>0. /\ pc = "idle" /\ run' = settings /\ chain' = chain
      /\ UNCHANGED <<pending, accepted, at, task, reread, actor, answer, decision, crashes, forks>>
      /\ \/ outcome' = "refused" /\ pc' = pc /\ completed' = completed
         \/ /\ outcome' = "running" /\ pc' = "rebuild"
            /\ completed' = {d.community : d \in RecordedDecisions}
  BY DEF Begin, planner
<1>1. Resting /\ IsRecord(chain) /\ TypeOK
  BY <1>0 DEF RuralInv
<1>2. {d.community : d \in RecordedDecisions} = Decided(ToSet(chain))
  BY DEF RecordedDecisions, Decided, DecisionsIn
<1>3. TypeOK'
  <2>1. Decided(ToSet(chain)) \subseteq Communities
    BY InProgress, DecisionsAreDecisions
  <2>2. run' \in RunSettings
    BY <1>0, RuralConstants
  <2>3. completed' \subseteq Communities
    BY <1>0, <1>1, <1>2, <2>1 DEF TypeOK
  <2> QED
    BY <1>0, <1>1, <2>2, <2>3 DEF TypeOK
<1>4. CASE outcome' = "refused"
  BY <1>0, <1>1, <1>3, <1>4 DEF RuralInv, Resting
<1>5. CASE outcome' = "running"
  <2>1. Follows(Past(chain, at))'
    BY <1>0, <1>1, NothingPast, NothingSaid DEF Follows, Resting
  <2>2. at' <= Len(chain') + 1
    BY <1>0, <1>1, InProgress DEF Resting
  <2>3. pc' = "rebuild" /\ completed' = Decided(ToSet(chain'))
    BY <1>0, <1>2, <1>5
  <2>4. Knows'
    BY <1>5, <2>1, <2>2, <2>3 DEF Knows
  <2> QED
    BY <1>0, <1>1, <1>3, <2>3, <2>4 DEF RuralInv
<1> QED
  BY <1>0, <1>4, <1>5

\* An operation found on the branch fits what the planner offers.
LEMMA RecordedFits ==
    ASSUME RuralInv, pc = "rebuild", at <= Len(chain),
           chain[at].kind = "decision", chain[at].id # "gap"
    PROVE  /\ Fits(chain[at]) /\ chain[at] \in Decisions
           /\ chain[at].community = OfferNext(pending, accepted).community
<1> DEFINE d == chain[at]
           E == Past(chain, at)
           now == OfferNext(pending, accepted)
<1>0. at \in Nat /\ at \in 1..Len(chain) /\ at \in 1..(Len(chain) + 1)
  <2>1. at \in Nat \ {0} /\ Len(chain) \in Nat
    BY InProgress DEF RuralInv, TypeOK
  <2> QED
    BY <2>1
<1>1. E \subseteq ToSet(chain)
  <2>1. \A j \in 1..(at - 1) : j \in 1..Len(chain)
    BY <1>0, InProgress
  <2> QED
    BY <2>1, InProgress DEF Past
<1>2. now = Offered(E) /\ accepted = Joined(E)
  BY InProgress DEF Knows, Follows, Offered
<1>3. Chosen(d, E)
  BY <1>0, InProgress DEF IsRecord, DecisionsFit
<1>4. /\ now # NoOffer /\ now.community = d.community
      /\ d.id \in DOMAIN now.candidates /\ d.to = now.candidates[d.id]
  BY <1>2, <1>3 DEF Chosen
<1>5. OfferRecorded(d.community) = now
  <2>1. PICK e \in E : e.kind = "task" /\ e.offer = now
    BY <1>2, <1>3 DEF Chosen
  <2>2. e \in ToSet(chain) /\ e.offer.community = e.community
    BY <1>1, <2>1, TasksFound
  <2>3. IsTask(e, d.community)
    BY <1>4, <2>1, <2>2 DEF IsTask
  <2> QED
    BY <2>1, <2>2, <2>3, TasksFound
<1>6. now.candidates[d.id] \in Joined(E) \cup {Spine}
  <2>1. E \subseteq Events /\ Offered(E) # NoOffer
    BY <1>1, <1>2, <1>4, InProgress
  <2> QED
    BY <1>2, <1>4, <2>1, OfferedIs
<1>7. now.candidates[d.id] # Spine =>
        \E j \in 1..(at - 1) : chain[j].kind = "decision"
                               /\ chain[j].community = now.candidates[d.id] /\ chain[j].selected
  BY <1>6 DEF Joined, DecisionsIn, Past
<1>8. Fits(d)
  BY <1>4, <1>5, <1>7 DEF Fits
<1>9. d \in Decisions
  BY <1>0, InProgress, Kinds
<1> QED
  BY <1>4, <1>8, <1>9

LEMMA RebuildKeeps ==
    ASSUME RuralInv, Rebuild
    PROVE  RuralInv'
<1> DEFINE d == chain[at]
           E == Past(chain, at)
<1>0. /\ pc = "rebuild" /\ at <= Len(chain) /\ chain' = chain /\ run' = run
      /\ crashes' = crashes /\ forks' = forks
  BY DEF Rebuild
<1>1. /\ TypeOK /\ IsRecord(chain) /\ Knows /\ at \in Nat /\ at > 0 /\ Len(chain) \in Nat
      /\ at \in 1..Len(chain)
  <2>1. at \in Nat \ {0} /\ Len(chain) \in Nat
    BY InProgress DEF RuralInv, TypeOK
  <2> QED
    BY <1>0, <2>1, InProgress DEF RuralInv
<1>2. /\ Past(chain, at + 1) = E \cup {d} /\ accepted = Joined(E) /\ pending = Left(E)
      /\ completed = Decided(ToSet(chain)) /\ outcome = "running"
  BY <1>0, <1>1, NextPast DEF Knows, Follows
<1>3. d.kind = "decision" /\ d.id = "gap" => ~d.selected
  BY <1>1 DEF IsRecord, DecisionsFit
<1>4. CASE /\ at' = at + 1
           /\ accepted' = Joined(E \cup {d}) /\ pending' = Left(E \cup {d})
           /\ UNCHANGED <<completed, pc, outcome, task, reread, actor, answer, decision>>
  <2>1. Past(chain, at)' = E \cup {d}
    BY <1>0, <1>2, <1>4
  <2>2. Past(chain, at)' \subseteq Events
    <3>1. \A j \in 1..at : j \in 1..Len(chain)
      BY <1>0, <1>1
    <3>2. d \in Events /\ E \subseteq Events
      BY <1>0, <1>1, <3>1, InProgress DEF Past
    <3> QED
      BY <2>1, <3>2
  <2>3. pending' \subseteq Communities /\ accepted' \subseteq Communities
    BY <1>4, <2>1, <2>2, DecisionsAreDecisions
  <2>4. at' \in Nat \ {0} /\ at' <= Len(chain') + 1
    BY <1>0, <1>1, <1>4
  <2>5. TypeOK'
    BY <1>0, <1>1, <1>4, <2>3, <2>4 DEF TypeOK
  <2>6. Follows(Past(chain, at))'
    BY <1>4, <2>1 DEF Follows
  <2>7. Knows'
    BY <1>0, <1>2, <1>4, <2>4, <2>6 DEF Knows
  <2> QED
    BY <1>0, <1>1, <1>4, <2>5, <2>7 DEF RuralInv
<1>5. CASE d.kind # "decision" \/ d.id = "gap"
  <2>1. /\ at' = at + 1 /\ UNCHANGED planner
        /\ UNCHANGED <<completed, pc, outcome, task, reread, actor, answer, decision>>
    BY <1>5 DEF Rebuild
  <2>2. Joined(E \cup {d}) = Joined(E) /\ Left(E \cup {d}) = Left(E)
    <3>1. CASE d.kind # "decision"
      BY <3>1, Says
    <3>2. CASE d.kind = "decision"
      <4>1. ~d.selected /\ d.id = "gap"
        BY <1>3, <1>5, <3>2
      <4>2. /\ Joined(E \cup {d}) = Joined(E) \cup (IF d.selected THEN {d.community} ELSE {})
            /\ Left(E \cup {d}) = Left(E) \ (IF d.id = "gap" THEN {} ELSE {d.community})
        BY <3>2, Says
      <4> QED
        BY <4>1, <4>2
    <3> QED
      BY <3>1, <3>2
  <2> QED
    BY <1>2, <1>4, <2>1, <2>2 DEF planner
<1>6. CASE d.kind = "decision" /\ d.id # "gap"
  <2>1. Fits(d)
    BY <1>0, <1>6, RecordedFits
  <2>2. CASE EntryDiffers(d)
    <3>1. Fail("rounded")
      BY <1>6, <2>1, <2>2 DEF Rebuild
    <3> QED
      BY <1>0, <1>1, <3>1, Stops DEF Fail, TypeOK
  <2>3. CASE ~EntryDiffers(d)
    <3>1. /\ PutBack(d) /\ at' = at + 1
          /\ UNCHANGED <<completed, pc, outcome, task, reread, actor, answer, decision>>
      BY <1>6, <2>1, <2>3 DEF Rebuild
    <3>2. /\ accepted' = accepted \cup (IF d.selected THEN {d.community} ELSE {})
          /\ pending' = pending \ {d.community}
      BY <3>1 DEF PutBack, AcceptCommunity, RejectCommunity
    <3>3. /\ Joined(E \cup {d}) = Joined(E) \cup (IF d.selected THEN {d.community} ELSE {})
          /\ Left(E \cup {d}) = Left(E) \ {d.community}
      BY <1>6, Says
    <3> QED
      BY <1>2, <1>4, <3>1, <3>2, <3>3
  <2> QED
    BY <2>2, <2>3
<1> QED
  BY <1>5, <1>6

LEMMA RebuiltKeeps ==
    ASSUME RuralInv, Rebuilt
    PROVE  RuralInv'
<1>0. /\ pc = "rebuild" /\ at > Len(chain) /\ pc' = "offer"
      /\ UNCHANGED <<chain, run, pending, accepted, completed, at, task, reread, actor, answer,
                     decision, outcome, crashes, forks>>
  BY DEF Rebuilt, memory, planner
<1>1. TypeOK /\ IsRecord(chain) /\ Knows /\ at \in Nat /\ Len(chain) \in Nat
  BY <1>0, InProgress DEF RuralInv, TypeOK
<1>2. at = Len(chain) + 1
  BY <1>0, <1>1 DEF Knows
<1>3. Follows(ToSet(chain)) /\ outcome = "running" /\ completed = Decided(ToSet(chain))
  BY <1>0, <1>1, <1>2, InProgress DEF Knows
<1>4. Follows(ToSet(chain))'
  BY <1>0, <1>3 DEF Follows
<1>5. Knows'
  BY <1>0, <1>3, <1>4 DEF Knows
<1>6. TypeOK'
  BY <1>0, <1>1 DEF TypeOK
<1> QED
  BY <1>0, <1>1, <1>5, <1>6 DEF RuralInv

\* The task of the offer is on the branch, or is added to it.
LEMMA TaskAdmitted ==
    ASSUME RuralInv, NEW c \in Communities, NEW o \in Offers, o.community = c,
           ~TaskRecorded(c),
           \/ o = Offered(ToSet(chain))
           \/ o = GapOffer(c) /\ Offered(ToSet(chain)) = NoOffer
    PROVE  LET e == [kind |-> "task", community |-> c, offer |-> o]
           IN  e \in Events /\ e.kind = "task" /\ e.offer = o /\ Admits(chain, e)
<1> DEFINE e == [kind |-> "task", community |-> c, offer |-> o]
<1>1. e \in Events /\ e.kind = "task" /\ e.community = c /\ e.offer = o
  BY DEF Events, Tasks
<1> HIDE DEF e
<1>2. \A i \in 1..Len(chain) : chain[i].kind = "task" => chain[i].community # c
  BY InProgress DEF TaskRecorded, IsTask
<1>3. Stands(e, ToSet(chain))
  BY <1>1 DEF Stands
<1>4. Admits(chain, e)
  BY <1>1, <1>2, <1>3 DEF Admits
<1> QED
  BY <1>1, <1>4 DEF e

LEMMA TakeOfferKeeps ==
    ASSUME RuralInv, TakeOffer
    PROVE  RuralInv'
<1> DEFINE E == ToSet(chain)
           now == Offered(E)
           c == now.community
           e == [kind |-> "task", community |-> c, offer |-> now]
           offer == IF TaskRecorded(c) THEN OfferRecorded(c) ELSE now
<1>0. pc = "offer" /\ run' = run /\ crashes' = crashes /\ forks' = forks
  BY DEF TakeOffer
<1>1. /\ TypeOK /\ Knows /\ E \subseteq Events /\ Follows(E) /\ outcome = "running"
      /\ completed = Decided(E)
  BY <1>0, InProgress DEF RuralInv, Knows
<1>2. OfferNext(pending, accepted) = now
  BY <1>1 DEF Follows, Offered
<1>3. now # NoOffer
  BY <1>2 DEF TakeOffer
<1>4. now \in Offers /\ c \in Communities /\ c \notin Decided(E)
  BY <1>1, <1>3, OfferedIs, OfferedIsOpen
<1>5. offer = now
  BY <1>3, <1>4, TasksFound
<1>6. /\ chain' = IF TaskRecorded(c) THEN chain ELSE Append(chain, e)
      /\ task' = now /\ reread' = TaskRecorded(c) /\ actor' = "classifier"
      /\ UNCHANGED <<pending, accepted, completed, at, answer, outcome>>
      /\ \/ pc' = "attempt" /\ decision' = decision
         \/ pc' = "decide" /\ \E id \in Mechanical(now) : decision' = SelectAt(now, id, FALSE)
  BY <1>1, <1>2, <1>4, <1>5 DEF TakeOffer, planner
<1>7. /\ chain' \in Seq(Events) /\ IsRecord(chain') /\ ToSet(chain') \subseteq Events
      /\ Decided(ToSet(chain')) = Decided(E) /\ Offered(ToSet(chain')) = now
      /\ Joined(ToSet(chain')) = Joined(E) /\ Left(ToSet(chain')) = Left(E)
      /\ \E f \in ToSet(chain') : f.kind = "task" /\ f.offer = now
  <2>1. CASE TaskRecorded(c)
    <3>1. chain' = chain
      BY <1>6, <2>1
    <3>2. \E f \in E : IsTask(f, c) /\ f.offer = now
      BY <1>4, <1>3, <2>1, TasksFound
    <3> QED
      BY <3>1, <3>2, InProgress DEF IsTask
  <2>2. CASE ~TaskRecorded(c)
    <3>1. e \in Events /\ e.kind = "task" /\ e.offer = now /\ Admits(chain, e)
      BY <1>4, <2>2, TaskAdmitted
    <3> HIDE DEF e
    <3>2. chain' = Append(chain, e)
      BY <1>6, <2>2
    <3>3. chain' \in Seq(Events) /\ IsRecord(chain') /\ ToSet(chain') = E \cup {e}
      BY <3>1, <3>2, Grows
    <3>4. /\ Decided(E \cup {e}) = Decided(E) /\ Offered(E \cup {e}) = Offered(E)
          /\ Joined(E \cup {e}) = Joined(E) /\ Left(E \cup {e}) = Left(E)
      BY <3>1, Says
    <3> QED
      BY <1>1, <3>1, <3>3, <3>4
  <2> QED
    BY <2>1, <2>2
<1>8. pc' = "decide" =>
        /\ decision' \in Decisions /\ decision'.community = now.community
        /\ decision'.id \in DOMAIN now.candidates
        /\ decision'.to = now.candidates[decision'.id]
  <2> SUFFICES ASSUME pc' = "decide" PROVE
        /\ decision' \in Decisions /\ decision'.community = now.community
        /\ decision'.id \in DOMAIN now.candidates
        /\ decision'.to = now.candidates[decision'.id]
    OBVIOUS
  <2>1. PICK id \in Mechanical(now) : decision' = SelectAt(now, id, FALSE)
    BY <1>6
  <2>2. id \in DOMAIN now.candidates
    BY DEF Mechanical
  <2>3. id \in Ids /\ now.candidates[id] \in Targets
    BY <1>1, <1>3, <2>2, OfferedIs DEF Ids
  <2> HIDE DEF now
  <2> QED
    BY <1>4, <2>1, <2>2, <2>3 DEF SelectAt, Decisions
<1> HIDE DEF e, offer, E, now
<1>9. TypeOK'
  <2>1. decision' \in Decisions \cup {NoDecision}
    BY <1>1, <1>6, <1>8 DEF TypeOK
  <2>2. reread' \in BOOLEAN /\ actor' \in Actors
    BY <1>6 DEF TaskRecorded, Actors
  <2> QED
    BY <1>0, <1>1, <1>4, <1>6, <1>7, <2>1, <2>2 DEF TypeOK
<1>10. Follows(ToSet(chain))'
  BY <1>1, <1>6, <1>7 DEF Follows
<1>11. Knows'
  BY <1>1, <1>3, <1>6, <1>7, <1>8, <1>10 DEF Knows
<1> QED
  BY <1>6, <1>7, <1>9, <1>11 DEF RuralInv

\* While both are asked about a community, its task and the planner stay.
LEMMA AskingKeeps ==
    ASSUME RuralInv, pc \in {"attempt", "wait", "judge"},
           pc' \in {"attempt", "wait", "judge", "decide"},
           UNCHANGED <<run, pending, accepted, completed, at, task, reread, outcome, crashes, forks>>,
           \/ chain' = chain
           \/ \E e \in Events : e.kind \notin {"task", "decision"} /\ chain' = Append(chain, e),
           actor' \in Actors, answer' \in Answers,
           decision' \in Decisions \cup {NoDecision},
           pc' = "decide" => /\ decision' \in Decisions
                             /\ decision'.community = task.community
                             /\ decision'.id \in DOMAIN task.candidates
                             /\ decision'.to = task.candidates[decision'.id]
    PROVE  RuralInv'
<1> DEFINE E == ToSet(chain)
<1>1. /\ TypeOK /\ Knows /\ Follows(E) /\ outcome = "running" /\ completed = Decided(E)
      /\ task # NoOffer /\ task = Offered(E)
      /\ \E f \in E : f.kind = "task" /\ f.offer = task
  BY InProgress DEF RuralInv, Knows
<1>2. /\ chain' \in Seq(Events) /\ IsRecord(chain') /\ E \subseteq ToSet(chain')
      /\ Decided(ToSet(chain')) = Decided(E) /\ Offered(ToSet(chain')) = Offered(E)
      /\ Joined(ToSet(chain')) = Joined(E) /\ Left(ToSet(chain')) = Left(E)
  <2>1. CASE chain' = chain
    BY <2>1, InProgress
  <2>2. CASE chain' # chain
    <3>1. PICK e \in Events : e.kind \notin {"task", "decision"} /\ chain' = Append(chain, e)
      BY <2>2
    <3>2. Admits(chain, e)
      BY <3>1 DEF Admits
    <3>3. chain' \in Seq(Events) /\ IsRecord(chain') /\ ToSet(chain') = E \cup {e}
      BY <3>1, <3>2, Grows
    <3>4. /\ Decided(E \cup {e}) = Decided(E) /\ Offered(E \cup {e}) = Offered(E)
          /\ Joined(E \cup {e}) = Joined(E) /\ Left(E \cup {e}) = Left(E)
      BY <3>1, Says
    <3> QED
      BY <3>3, <3>4
  <2> QED
    BY <2>1, <2>2
<1> HIDE DEF E
<1>3. TypeOK'
  BY <1>1, <1>2 DEF TypeOK
<1>4. Follows(ToSet(chain))'
  BY <1>1, <1>2 DEF Follows
<1>5. \E f \in ToSet(chain') : f.kind = "task" /\ f.offer = task
  BY <1>1, <1>2
<1>6. Knows'
  BY <1>1, <1>2, <1>4, <1>5 DEF Knows
<1> QED
  BY <1>2, <1>3, <1>6 DEF RuralInv

LEMMA ReuseKeeps ==
    ASSUME RuralInv, ReuseAttempt
    PROVE  RuralInv'
<1>0. /\ pc = "attempt" /\ pc' = "judge" /\ ResultRecorded(task.community, actor)
      /\ answer' = AnswerRecorded(task.community, actor)
      /\ UNCHANGED <<chain, run, pending, accepted, completed, at, task, reread, actor, decision,
                     outcome, crashes, forks>>
  BY DEF ReuseAttempt, planner
<1>1. TypeOK
  BY DEF RuralInv
<1>2. answer' \in Answers
  <2> DEFINE e == CHOOSE x \in ToSet(chain) : IsResult(x, task.community, actor)
  <2>1. e \in ToSet(chain) /\ IsResult(e, task.community, actor)
    BY <1>0 DEF ResultRecorded
  <2>2. e \in Results
    BY <2>1, InProgress, Kinds DEF IsResult
  <2>3. e.answer \in Answers
    BY <2>2 DEF Results
  <2> QED
    BY <1>0, <2>3 DEF AnswerRecorded
<1>3. actor' \in Actors /\ decision' \in Decisions \cup {NoDecision}
  BY <1>0, <1>1 DEF TypeOK
<1> QED
  BY <1>0, <1>2, <1>3, AskingKeeps

LEMMA StartKeeps ==
    ASSUME RuralInv, StartAttempt
    PROVE  RuralInv'
<1> DEFINE e == [kind |-> "attempt-started", community |-> task.community, actor |-> actor]
<1>0. /\ pc = "attempt" /\ pc' = "wait" /\ chain' = Append(chain, e)
      /\ UNCHANGED <<run, pending, accepted, completed, at, task, reread, actor, answer, decision,
                     outcome, crashes, forks>>
  BY DEF StartAttempt, memory, planner
<1>1. TypeOK /\ task \in Offers
  BY <1>0, InProgress DEF RuralInv, TypeOK, Knows
<1>2. e \in Events /\ e.kind \notin {"task", "decision"}
  BY <1>1 DEF TypeOK, Offers, Events, Starts
<1> HIDE DEF e
<1>3. actor' \in Actors /\ answer' \in Answers /\ decision' \in Decisions \cup {NoDecision}
  BY <1>0, <1>1 DEF TypeOK
<1> QED
  BY <1>0, <1>2, <1>3, AskingKeeps

LEMMA FinishAttemptKeeps ==
    ASSUME RuralInv, FinishAttempt
    PROVE  RuralInv'
<1> DEFINE e == [kind |-> "attempt-result", community |-> task.community,
                 actor |-> actor, answer |-> answer']
<1>0. /\ pc = "wait" /\ pc' = "judge" /\ chain' = Append(chain, e)
      /\ UNCHANGED <<run, pending, accepted, completed, at, task, reread, actor, decision,
                     outcome, crashes, forks>>
  BY DEF FinishAttempt, planner
<1>1. TypeOK /\ task \in Offers
  BY <1>0, InProgress DEF RuralInv, TypeOK, Knows
<1>2. answer' \in Answers
  BY DEF FinishAttempt, Answers
<1>3. e \in Events /\ e.kind \notin {"task", "decision"}
  BY <1>1, <1>2 DEF TypeOK, Offers, Events, Results
<1> HIDE DEF e
<1>4. actor' \in Actors /\ decision' \in Decisions \cup {NoDecision}
  BY <1>0, <1>1 DEF TypeOK
<1> QED
  BY <1>0, <1>2, <1>3, <1>4, AskingKeeps

\* Whatever the answer, the operation is about a candidate of the task.
LEMMA JudgeKeeps ==
    ASSUME RuralInv, Judge
    PROVE  RuralInv'
<1>0. /\ pc = "judge" /\ chain' = chain
      /\ UNCHANGED <<run, pending, accepted, completed, at, task, reread, answer,
                     outcome, crashes, forks>>
      /\ \/ pc' = "attempt" /\ actor' = "agent" /\ decision' = decision
         \/ /\ pc' = "decide" /\ actor' = actor
            /\ \/ decision' = ClassifierDecision(task, answer)
               \/ decision' = SpecialistDecision(task, answer, run.provisional)
  BY DEF Judge, planner
<1>1. TypeOK /\ ToSet(chain) \subseteq Events /\ task # NoOffer /\ task = Offered(ToSet(chain))
  BY <1>0, InProgress DEF RuralInv, Knows
<1>2. /\ task \in Offers /\ task.community \in Communities
      /\ "shortest" \in DOMAIN task.candidates /\ "gap" \notin DOMAIN task.candidates
      /\ \A id \in DOMAIN task.candidates : id \in Ids /\ task.candidates[id] \in Targets
  BY <1>1, OfferedIs DEF Ids
<1>3. ASSUME NEW id \in DOMAIN task.candidates, NEW selected \in BOOLEAN, NEW provisional \in BOOLEAN,
             decision' = [kind |-> "decision", community |-> task.community, id |-> id,
                          to |-> task.candidates[id], selected |-> selected,
                          provisional |-> provisional]
      PROVE  /\ decision' \in Decisions
             /\ decision'.community = task.community
             /\ decision'.id \in DOMAIN task.candidates
             /\ decision'.to = task.candidates[decision'.id]
  BY <1>2, <1>3 DEF Decisions
<1>4. pc' = "decide" => /\ decision' \in Decisions
                        /\ decision'.community = task.community
                        /\ decision'.id \in DOMAIN task.candidates
                        /\ decision'.to = task.candidates[decision'.id]
  <2> SUFFICES ASSUME pc' = "decide"
               PROVE  \E id \in DOMAIN task.candidates, selected, provisional \in BOOLEAN :
                        decision' = [kind |-> "decision", community |-> task.community, id |-> id,
                                     to |-> task.candidates[id], selected |-> selected,
                                     provisional |-> provisional]
    BY <1>3
  <2>1. \/ decision' = LeaveUnresolved(task)
        \/ answer \in DOMAIN task.candidates /\ decision' = SelectAt(task, answer, FALSE)
        \/ answer \in DOMAIN task.candidates /\ decision' = SelectAt(task, answer, TRUE)
    BY <1>0 DEF ClassifierDecision, SpecialistDecision
  <2> QED
    BY <1>2, <2>1 DEF LeaveUnresolved, SelectAt
<1>5. actor' \in Actors /\ answer' \in Answers /\ decision' \in Decisions \cup {NoDecision}
  BY <1>0, <1>1, <1>4 DEF TypeOK, Actors
<1> QED
  BY <1>0, <1>4, <1>5, AskingKeeps

LEMMA DecideKeeps ==
    ASSUME RuralInv, Decide
    PROVE  RuralInv'
<1> DEFINE E == ToSet(chain)
           now == OfferNext(pending, accepted)
           d == decision
<1>0. pc = "decide" /\ run' = run /\ crashes' = crashes /\ forks' = forks
  BY DEF Decide
<1>1. /\ TypeOK /\ Knows /\ E \subseteq Events /\ Follows(E) /\ outcome = "running"
      /\ completed = Decided(E) /\ task # NoOffer /\ task = Offered(E)
      /\ (\E e \in E : e.kind = "task" /\ e.offer = task)
      /\ d \in Decisions /\ d.community = task.community
      /\ d.id \in DOMAIN task.candidates /\ d.to = task.candidates[d.id]
  BY <1>0, InProgress DEF RuralInv, Knows
<1>2. now = task
  BY <1>1 DEF Follows, Offered
<1>3. CASE MeasuresDiffer(d)
  <2>1. Fail("rounded") /\ chain' = chain
    BY <1>1, <1>2, <1>3 DEF Decide
  <2> QED
    BY <1>0, <1>1, <2>1, Stops DEF Fail, TypeOK
<1>4. CASE ~MeasuresDiffer(d)
  <2>1. /\ IF d.selected THEN AcceptCommunity(now.community) ELSE RejectCommunity(now.community)
        /\ chain' = Append(chain, d) /\ completed' = completed \cup {now.community}
        /\ task' = NoOffer /\ reread' = FALSE /\ actor' = "classifier" /\ answer' = NoAnswer
        /\ decision' = NoDecision /\ pc' = "offer" /\ UNCHANGED <<at, outcome>>
    BY <1>1, <1>2, <1>4 DEF Decide
  <2>2. /\ accepted' = accepted \cup (IF d.selected THEN {d.community} ELSE {})
        /\ pending' = pending \ {d.community} /\ completed' = completed \cup {d.community}
    BY <1>1, <1>2, <2>1 DEF AcceptCommunity, RejectCommunity
  <2>3. d \in Events /\ d.kind = "decision" /\ d.id # "gap" /\ d.community \notin Decided(E)
    <3>1. d.id \in {"shortest", "townward"} /\ task.community \notin Decided(E)
      BY <1>1, OfferedIs, OfferedIsOpen
    <3> QED
      BY <1>1, <3>1 DEF Events, Decisions
  <2> HIDE DEF d
  <2>4. Admits(chain, d)
    BY <1>1, <2>3 DEF Admits, Chosen
  <2>5. chain' \in Seq(Events) /\ IsRecord(chain') /\ ToSet(chain') = E \cup {d}
    BY <2>1, <2>3, <2>4, Grows
  <2>6. /\ Decided(E \cup {d}) = Decided(E) \cup {d.community}
        /\ Joined(E \cup {d}) = Joined(E) \cup (IF d.selected THEN {d.community} ELSE {})
        /\ Left(E \cup {d}) = Left(E) \ {d.community}
    BY <2>3, Says
  <2> HIDE DEF E, now
  <2>7. Follows(ToSet(chain))' /\ completed' = Decided(ToSet(chain'))
    BY <1>1, <2>2, <2>5, <2>6 DEF Follows
  <2>8. TypeOK'
    <3>1. E \cup {d} \subseteq Events
      BY <1>1, <2>3
    <3>2. pending' \subseteq Communities /\ accepted' \subseteq Communities /\ completed' \subseteq Communities
      BY <2>5, <2>7, <3>1, DecisionsAreDecisions DEF Follows
    <3>3. reread' \in BOOLEAN /\ actor' \in Actors /\ answer' \in Answers
      BY <2>1 DEF Actors, Answers
    <3> QED
      BY <1>0, <1>1, <2>1, <2>5, <3>2, <3>3 DEF TypeOK
  <2>9. Knows'
    BY <1>1, <2>1, <2>7 DEF Knows
  <2> QED
    BY <2>1, <2>5, <2>8, <2>9 DEF RuralInv
<1> QED
  BY <1>3, <1>4

LEMMA NoMoreOffersKeeps ==
    ASSUME RuralInv, NoMoreOffers
    PROVE  RuralInv'
<1>0. /\ pc = "offer" /\ pc' = "gaps" /\ OfferNext(pending, accepted) = NoOffer
      /\ UNCHANGED <<chain, run, pending, accepted, completed, at, task, reread, actor, answer,
                     decision, outcome, crashes, forks>>
  BY DEF NoMoreOffers, memory, planner
<1>1. /\ TypeOK /\ IsRecord(chain) /\ Follows(ToSet(chain)) /\ outcome = "running"
      /\ completed = Decided(ToSet(chain))
  BY <1>0, InProgress DEF RuralInv, Knows
<1>2. Offered(ToSet(chain)) = NoOffer
  BY <1>0, <1>1 DEF Follows, Offered
<1>3. TypeOK'
  BY <1>0, <1>1 DEF TypeOK
<1>4. Follows(ToSet(chain))'
  BY <1>0, <1>1 DEF Follows
<1>5. Knows'
  BY <1>0, <1>1, <1>2, <1>4 DEF Knows
<1> QED
  BY <1>0, <1>1, <1>3, <1>5 DEF RuralInv

\* An event about a gap changes nothing for the planner.
LEMMA GapsKeep ==
    ASSUME RuralInv, pc = "gaps", NEW e \in Events, Admits(chain, e), chain' = Append(chain, e),
           UNCHANGED <<pc, run, pending, accepted, at, task, reread, actor, answer,
                       decision, outcome, crashes, forks>>,
           \/ e.kind = "task" /\ completed' = completed
           \/ /\ e.kind = "decision" /\ e.id = "gap" /\ ~e.selected
              /\ completed' = completed \cup {e.community}
    PROVE  RuralInv'
<1> DEFINE E == ToSet(chain)
<1>1. /\ TypeOK /\ E \subseteq Events /\ Follows(E) /\ outcome = "running"
      /\ completed = Decided(E) /\ Offered(E) = NoOffer
  BY InProgress DEF RuralInv, Knows
<1>2. chain' \in Seq(Events) /\ IsRecord(chain') /\ ToSet(chain') = E \cup {e}
  BY Grows
<1>3. /\ Joined(E \cup {e}) = Joined(E) /\ Left(E \cup {e}) = Left(E)
      /\ Offered(E \cup {e}) = NoOffer /\ Decided(E \cup {e}) = completed'
  <2>1. CASE e.kind = "task"
    <3>1. e.kind # "decision"
      BY <2>1
    <3>2. completed' = completed
      BY <3>1
    <3> QED
      BY <1>1, <3>1, <3>2, Says
  <2>2. CASE e.kind = "decision" /\ e.id = "gap" /\ ~e.selected
    <3>1. completed' = completed \cup {e.community}
      BY <2>2
    <3>2. /\ Decided(E \cup {e}) = Decided(E) \cup {e.community}
          /\ Joined(E \cup {e}) = Joined(E) \cup (IF e.selected THEN {e.community} ELSE {})
          /\ Left(E \cup {e}) = Left(E) \ (IF e.id = "gap" THEN {} ELSE {e.community})
          /\ Offered(E \cup {e}) = Offered(E)
      BY <2>2, Says
    <3> QED
      BY <1>1, <2>2, <3>1, <3>2
  <2> QED
    BY <2>1, <2>2
<1> HIDE DEF E
<1>4. TypeOK'
  <2>1. E \cup {e} \subseteq Events
    BY <1>1
  <2>2. completed' \subseteq Communities
    BY <1>3, <2>1, DecisionsAreDecisions
  <2> QED
    BY <1>1, <1>2, <2>2 DEF TypeOK
<1>5. Follows(ToSet(chain))'
  BY <1>1, <1>2, <1>3 DEF Follows
<1>6. Knows'
  BY <1>1, <1>2, <1>3, <1>5 DEF Knows
<1> QED
  BY <1>2, <1>4, <1>6 DEF RuralInv

LEMMA RecordGapTaskKeeps ==
    ASSUME RuralInv, NEW c \in Communities, RecordGapTask(c)
    PROVE  RuralInv'
<1> DEFINE o == GapOffer(c)
           e == [kind |-> "task", community |-> c, offer |-> o]
<1>0. /\ pc = "gaps" /\ ~TaskRecorded(c) /\ chain' = Append(chain, e)
      /\ UNCHANGED <<pc, run, pending, accepted, completed, at, task, reread, actor, answer,
                     decision, outcome, crashes, forks>>
  BY DEF RecordGapTask, memory, planner
<1>1. o \in Offers /\ o.community = c
  <2>1. [id \in {"gap"} |-> Spine] \in [{"gap"} -> Targets] /\ {"gap"} \in SUBSET Ids
    BY DEF Targets, Ids
  <2> DEFINE f == [id \in {"gap"} |-> Spine]
  <2>2. DOMAIN f = {"gap"}
    OBVIOUS
  <2> HIDE DEF f
  <2>3. f \in UNION {[D -> Targets] : D \in SUBSET Ids} /\ DOMAIN f # {}
    BY <2>1, <2>2 DEF f
  <2>4. o = [community |-> c, candidates |-> f]
    BY DEF GapOffer, f
  <2> QED
    BY <2>3, <2>4 DEF Offers
<1>2. Offered(ToSet(chain)) = NoOffer
  BY <1>0, InProgress DEF Knows
<1> HIDE DEF o
<1>3. e \in Events /\ e.kind = "task" /\ Admits(chain, e)
  BY <1>0, <1>1, <1>2, TaskAdmitted DEF o
<1> HIDE DEF e
<1> QED
  BY <1>0, <1>3, GapsKeep

LEMMA RecordGapKeeps ==
    ASSUME RuralInv, NEW c \in Communities, RecordGap(c)
    PROVE  RuralInv'
<1> DEFINE e == LeaveUnresolved(GapOffer(c))
<1>0. /\ pc = "gaps" /\ c \notin completed /\ chain' = Append(chain, e)
      /\ completed' = completed \cup {c}
      /\ UNCHANGED <<pc, run, pending, accepted, at, task, reread, actor, answer,
                     decision, outcome, crashes, forks>>
  BY DEF RecordGap, NextGap, planner
<1>1. e = [kind |-> "decision", community |-> c, id |-> "gap", to |-> Spine,
           selected |-> FALSE, provisional |-> FALSE]
  <2> DEFINE f == [id \in {"gap"} |-> Spine]
  <2>1. DOMAIN f = {"gap"} /\ f["gap"] = Spine
    OBVIOUS
  <2> HIDE DEF f
  <2> DEFINE g == GapOffer(c)
  <2>2. g.community = c /\ g.candidates = f
    BY DEF GapOffer, f
  <2>3. g.community = c /\ "gap" \in DOMAIN g.candidates /\ g.candidates["gap"] = Spine
    BY <2>1, <2>2
  <2> HIDE DEF g
  <2>4. LeaveUnresolved(g) = [kind |-> "decision", community |-> c, id |-> "gap", to |-> Spine,
                              selected |-> FALSE, provisional |-> FALSE]
    BY <2>3 DEF LeaveUnresolved
  <2> QED
    BY <2>4 DEF g
<1>2. Offered(ToSet(chain)) = NoOffer /\ completed = Decided(ToSet(chain))
  BY <1>0, InProgress DEF Knows
<1>3. e \in Events /\ e.kind = "decision" /\ e.id = "gap" /\ ~e.selected /\ e.community = c
  BY <1>1 DEF Events, Decisions, Ids, Targets
<1> HIDE DEF e
<1>4. Admits(chain, e)
  BY <1>0, <1>2, <1>3 DEF Admits
<1> QED
  BY <1>0, <1>3, <1>4, GapsKeep

\* A run that has recorded all the gaps has decided every community.
LEMMA FinishKeeps ==
    ASSUME RuralInv, Finish
    PROVE  RuralInv'
<1>0. /\ pc = "gaps" /\ pending \subseteq completed /\ pc' = "idle" /\ outcome' = "returned"
      /\ Forget /\ chain' = chain /\ run' = run /\ crashes' = crashes /\ forks' = forks
  BY DEF Finish
<1>1. TypeOK /\ Follows(ToSet(chain)) /\ completed = Decided(ToSet(chain))
  BY <1>0, InProgress DEF RuralInv, Knows
<1>2. Decided(ToSet(chain)) = Communities
  <2>1. pending = Left(ToSet(chain))
    BY <1>1 DEF Follows
  <2>2. Decided(ToSet(chain)) \subseteq Communities
    BY InProgress, DecisionsAreDecisions
  <2>3. ASSUME NEW c \in Communities, c \notin Decided(ToSet(chain))
        PROVE  c \in Left(ToSet(chain))
    BY <2>3 DEF Left, Decided
  <2> QED
    BY <1>0, <1>1, <2>1, <2>2, <2>3
<1> QED
  BY <1>0, <1>1, <1>2, Stops DEF TypeOK

LEMMA KillKeeps ==
    ASSUME RuralInv, Kill
    PROVE  RuralInv'
<1>1. /\ pc' = "idle" /\ outcome' = "killed" /\ Forget /\ chain' = chain /\ run' = run
      /\ crashes' = crashes + 1 /\ crashes < MaxCrashes /\ forks' = forks
  BY DEF Kill
<1>2. crashes \in 0..MaxCrashes /\ forks \in 0..MaxForks /\ MaxCrashes \in Nat
  BY RuralConstants DEF RuralInv, TypeOK
<1>3. crashes' \in 0..MaxCrashes
  BY <1>1, <1>2
<1> QED
  BY <1>1, <1>2, <1>3, Stops

LEMMA ForkKeeps ==
    ASSUME RuralInv, NEW c \in Communities, Fork(c)
    PROVE  RuralInv'
<1>0. /\ pc = "idle" /\ outcome' = "none" /\ forks < MaxForks /\ forks' = forks + 1
      /\ UNCHANGED <<pc, run, pending, accepted, completed, at, task, reread, actor, answer,
                     decision, crashes>>
  BY DEF Fork, memory, planner
<1>1. TypeOK /\ Resting
  BY <1>0 DEF RuralInv
<1>2. chain' \in Seq(Events) /\ IsRecord(chain')
  <2>1. PICK i \in 1..Len(chain) : chain' = SubSeq(chain, 1, i - 1)
    BY InProgress DEF Fork
  <2>2. i - 1 \in Nat /\ i - 1 <= Len(chain)
    BY <2>1, InProgress
  <2> QED
    BY <2>1, <2>2, InProgress, Prefix, RecordBegins
<1>3. TypeOK'
  <2>1. forks' \in 0..MaxForks
    BY <1>0, <1>1, RuralConstants DEF TypeOK
  <2> QED
    BY <1>0, <1>1, <1>2, <2>1 DEF TypeOK
<1>4. Resting'
  BY <1>0, <1>1 DEF Resting
<1> QED
  BY <1>0, <1>2, <1>3, <1>4 DEF RuralInv

-----------------------------------------------------------------------------
(* Theorems *)

LEMMA InitInv ==
    ASSUME Init
    PROVE  RuralInv
<1>0. /\ chain = <<>> /\ pc = "idle" /\ run \in Settings
      /\ pending = Communities /\ accepted = {} /\ completed = {} /\ at = 1
      /\ task = NoOffer /\ reread \in BOOLEAN /\ actor \in Actors /\ answer \in Answers
      /\ decision = NoDecision /\ outcome = "none" /\ crashes = 0 /\ forks = 0
  BY DEF Init, Actors, Answers
<1>1. chain \in Seq(Events) /\ Len(chain) = 0 /\ 0 + 1 = 1
  BY <1>0
<1>2. TypeOK
  BY <1>0, <1>1, RuralConstants DEF TypeOK
<1>3. IsRecord(chain)
  <2>1. (\A i \in 1..0 : FALSE) /\ \A i \in 1..1 : \A j \in 1..(i - 1) : FALSE
    OBVIOUS
  <2> QED
    BY <1>1, <2>1 DEF IsRecord, OneTask, OneDecision, TasksStand, DecisionsFit, GapsLast
<1>4. Resting
  BY <1>0 DEF Resting
<1> QED
  BY <1>0, <1>2, <1>3, <1>4 DEF RuralInv

LEMMA StepInv ==
    ASSUME RuralInv, [Next]_vars
    PROVE  RuralInv'
<1>1. ASSUME NEW settings \in Settings, Begin(settings)
      PROVE  RuralInv'
  BY <1>1, BeginKeeps
<1>2. CASE Rebuild
  BY <1>2, RebuildKeeps
<1>3. CASE Rebuilt
  BY <1>3, RebuiltKeeps
<1>4. CASE TakeOffer
  BY <1>4, TakeOfferKeeps
<1>5. CASE ReuseAttempt
  BY <1>5, ReuseKeeps
<1>6. CASE StartAttempt
  BY <1>6, StartKeeps
<1>7. CASE FinishAttempt
  BY <1>7, FinishAttemptKeeps
<1>8. CASE Judge
  BY <1>8, JudgeKeeps
<1>9. CASE Decide
  BY <1>9, DecideKeeps
<1>10. CASE NoMoreOffers
  BY <1>10, NoMoreOffersKeeps
<1>11. ASSUME NEW c \in Communities, RecordGapTask(c)
       PROVE  RuralInv'
  BY <1>11, RecordGapTaskKeeps
<1>12. ASSUME NEW c \in Communities, RecordGap(c)
       PROVE  RuralInv'
  BY <1>12, RecordGapKeeps
<1>13. CASE Finish
  BY <1>13, FinishKeeps
<1>14. CASE Kill
  BY <1>14, KillKeeps
<1>15. ASSUME NEW c \in Communities, Fork(c)
       PROVE  RuralInv'
  BY <1>15, ForkKeeps
<1>16. CASE UNCHANGED vars
  <2>1. UNCHANGED <<chain, pc, run, pending, accepted, completed, at, task, reread, actor, answer,
                    decision, outcome, crashes, forks>>
    BY <1>16 DEF vars, memory, planner
  <2>2. TypeOK' = TypeOK
    BY <2>1 DEF TypeOK
  <2>3. Knows' = Knows
    BY <2>1 DEF Knows, Follows
  <2>4. Resting' = Resting
    BY <2>1 DEF Resting
  <2> QED
    BY <2>1, <2>2, <2>3, <2>4 DEF RuralInv
<1> QED
  BY <1>1, <1>2, <1>3, <1>4, <1>5, <1>6, <1>7, <1>8, <1>9, <1>10, <1>11, <1>12, <1>13, <1>14,
     <1>15, <1>16 DEF Next, Step

\* What the branch records, what a run knows of it, and what is left when none
\* runs, hold in every state, whatever was killed and forked before.
THEOREM Invariant == Spec => []RuralInv
<1>1. Init => RuralInv
  BY InitInv
<1>2. RuralInv /\ [Next]_vars => RuralInv'
  BY StepInv
<1> QED
  BY <1>1, <1>2, PTL DEF Spec

\* Every variable of the rural sequence keeps its type: the tasks and operations that are
\* appended, those that are found again, and what the planner is told.
THEOREM TypeCorrect == Spec => []TypeOK
<1>1. RuralInv => TypeOK
  BY DEF RuralInv
<1> QED
  BY <1>1, Invariant, PTL

\* A run that resumes a branch, or a fork of one, is never stopped because what
\* it finds disagrees with its planner: rebuilding offers the communities in the
\* order they were decided in, and no community is offered that was decided.
THEOREM ResumesAgree == Spec => []NothingDisagrees
<1>1. RuralInv => NothingDisagrees
  <2> SUFFICES ASSUME RuralInv PROVE outcome # "disagrees"
    BY DEF NothingDisagrees
  <2>1. CASE pc = "idle"
    BY <2>1 DEF RuralInv, Resting
  <2>2. CASE pc # "idle"
    BY <2>2 DEF RuralInv, Knows
  <2> QED
    BY <2>1, <2>2
<1> QED
  BY <1>1, Invariant, PTL

\* When the frontier is rebuilt, and from then on, the planner in memory has
\* accepted and rejected exactly what the branch records.
THEOREM PlannerIsRebuilt == Spec => []PlannerFollowsHistory
<1>1. RuralInv => PlannerFollowsHistory
  <2> SUFFICES ASSUME RuralInv, pc \notin {"idle", "rebuild"}
               PROVE  /\ accepted = {d.community : d \in {e \in RecordedDecisions : e.selected}}
                      /\ pending = Communities \ {d.community : d \in {e \in RecordedDecisions : e.id # "gap"}}
                      /\ completed = {d.community : d \in RecordedDecisions}
    BY DEF PlannerFollowsHistory
  <2>1. Follows(ToSet(chain)) /\ completed = Decided(ToSet(chain))
    BY DEF RuralInv, Knows
  <2>2. RecordedDecisions = DecisionsIn(ToSet(chain))
    BY DEF RecordedDecisions, DecisionsIn
  <2> QED
    BY <2>1, <2>2 DEF Follows, Joined, Left, Decided
<1> QED
  BY <1>1, Invariant, PTL

\* The parents of a community that was joined lead back to a spine: what it is
\* joined at was part of the frontier, so it was joined before.
THEOREM ParentsAreJoined == Spec => []AccessReachesSpine
<1>1. RuralInv => AccessReachesSpine
  <2> SUFFICES ASSUME RuralInv, NEW i \in DOMAIN chain,
                      chain[i].kind = "decision", chain[i].selected, chain[i].to # Spine
               PROVE  \E j \in 1..(i - 1) : /\ chain[j].kind = "decision" /\ chain[j].selected
                                            /\ chain[j].community = chain[i].to
    BY DEF AccessReachesSpine
  <2> DEFINE E == Past(chain, i)
  <2>1. i \in 1..Len(chain) /\ E \subseteq Events
    <3>1. i \in 1..Len(chain) /\ Len(chain) \in Nat
      BY InProgress
    <3>2. \A j \in 1..(i - 1) : j \in 1..Len(chain)
      BY <3>1
    <3> QED
      BY <3>1, <3>2, InProgress DEF Past
  <2>2. Chosen(chain[i], E)
    BY <2>1, InProgress DEF IsRecord, DecisionsFit
  <2>3. chain[i].to \in Joined(E)
    BY <2>1, <2>2, OfferedIs DEF Chosen
  <2> QED
    BY <2>3 DEF Joined, DecisionsIn, Past
<1> QED
  BY <1>1, Invariant, PTL

\* No community is decided twice on a branch, whatever runs worked on it, and a
\* run that returns leaves none undecided.
THEOREM DecidedOnce == Spec => []EveryCommunityOnce
<1>1. RuralInv => EveryCommunityOnce
  <2>1. ASSUME RuralInv
        PROVE  \A i, j \in DOMAIN chain :
                 chain[i].kind = "decision" /\ chain[j].kind = "decision"
                 /\ chain[i].community = chain[j].community => i = j
    BY <2>1, InProgress DEF IsRecord, OneDecision
  <2>2. ASSUME RuralInv, outcome = "returned"
        PROVE  {d.community : d \in RecordedDecisions} = Communities
    <3>1. pc = "idle"
      BY <2>2 DEF RuralInv, Knows
    <3>2. Decided(ToSet(chain)) = Communities
      BY <2>2, <3>1 DEF RuralInv, Resting
    <3> QED
      BY <3>2 DEF RecordedDecisions, Decided, DecisionsIn
  <2> QED
    BY <2>1, <2>2 DEF EveryCommunityOnce
<1> QED
  BY <1>1, Invariant, PTL

\* A community that was given up as a gap has no link to a spine, nor to any
\* community that was joined before it or after it.
THEOREM GapsStay == Spec => []GapsAreUnreachable
<1>1. RuralInv => GapsAreUnreachable
  <2> DEFINE E == ToSet(chain)
  <2> SUFFICES ASSUME RuralInv, NEW d \in RecordedDecisions, d.id = "gap"
               PROVE  LinksTo({d.community},
                              Frontier({e.community : e \in {s \in RecordedDecisions : s.selected}})) = {}
    BY DEF GapsAreUnreachable
  <2>1. /\ RecordedDecisions = DecisionsIn(E) /\ d \in E /\ d.kind = "decision"
        /\ E \subseteq Events /\ d.community \in Communities
    <3>1. RecordedDecisions = DecisionsIn(E) /\ d \in E /\ d.kind = "decision"
      BY DEF RecordedDecisions, DecisionsIn
    <3> QED
      BY <3>1, InProgress, Kinds DEF Decisions
  <2>2. {e.community : e \in {s \in RecordedDecisions : s.selected}} = Joined(E)
    BY <2>1 DEF Joined
  <2>3. PICK i \in 1..Len(chain) : chain[i] = d
    BY <2>1, InProgress
  <2>4. Offered(E) = NoOffer
    <3>1. Len(chain) + 1 \in 1..(Len(chain) + 1) /\ i \in 1..((Len(chain) + 1) - 1)
      BY <2>3, InProgress
    <3> QED
      BY <2>1, <2>3, <3>1, InProgress DEF IsRecord, GapsLast
  <2>5. d.community \in Left(E)
    <3>1. ASSUME NEW e \in DecisionsIn(E), e.community = d.community
          PROVE  e = d
      <4>1. PICK j \in 1..Len(chain) : chain[j] = e
        BY <3>1, InProgress DEF DecisionsIn
      <4> QED
        BY <2>1, <2>3, <3>1, <4>1, InProgress DEF IsRecord, OneDecision, DecisionsIn
    <3> QED
      BY <2>1, <3>1 DEF Left
  <2>6. LinksTo(Left(E), Frontier(Joined(E))) = {}
    <3>1. Joined(E) \subseteq Communities /\ Left(E) \subseteq Communities
      BY <2>1, DecisionsAreDecisions
    <3> QED
      BY <2>4, <3>1, OffersReachFrontier DEF Offered
  <2> QED
    BY <2>2, <2>5, <2>6 DEF LinksTo
<1> QED
  BY <1>1, Invariant, PTL

=============================================================================
