------------------------ MODULE EvidenceGraphProofs ------------------------
(***************************************************************************)
(* Proofs about EvidenceGraph.  The graph's operations work on one node at *)
(* a time, so most lemmas do too: what an operation gives is a good node   *)
(* again, follows the node it was given, and quotes current text only.     *)
(***************************************************************************)
EXTENDS EvidenceGraph, WellFoundedInduction, TLAPS

\* A node's state is the strongest of its active evidence.
Strongest(n) ==
  /\ \A k \in Active(n.evidence) : n.evidence[k].state <= n.state
  /\ \/ n.state = Unknown
     \/ \E k \in Active(n.evidence) : n.evidence[k].state = n.state

\* Its confidence is that of active evidence for its state.
Backed(n) ==
  /\ n.confidence # None =>
       \E k \in Active(n.evidence) :
         /\ n.evidence[k].state = n.state
         /\ n.evidence[k].confidence = n.confidence
  /\ n.confidence = None => n.state \in {Unknown, Claimed}

Good(n) == n \in Node /\ Strongest(n) /\ Backed(n)

\* Active semantic evidence quotes the text of revision rev[t], turn by turn.
Current(ev, rev) ==
  \A k \in Active(ev) : ev[k].semantic => ev[k].revision = rev[ev[k].turn]

Quotes(n, rev) == Current(n.evidence, rev)

\* Evidence is only added and deactivated, and only the judge's is deactivated.
Keeps(old, new) ==
  /\ Len(old) <= Len(new)
  /\ \A k \in 1..Len(old) :
       /\ new[k].turn = old[k].turn /\ new[k].state = old[k].state
       /\ new[k].revision = old[k].revision /\ new[k].semantic = old[k].semantic
       /\ new[k].active => old[k].active
       /\ old[k].active => new[k].active \/ old[k].semantic

\* A contradiction goes only with all the evidence for it.
GivesUp(old, new) ==
  old.state = Contradicted /\ new.state # Contradicted =>
    \A k \in Active(old.evidence) : old.evidence[k].state = Contradicted =>
      old.evidence[k].semantic /\ ~new.evidence[k].active

Follows(old, new) == Keeps(old.evidence, new.evidence) /\ GivesUp(old, new)
-----------------------------------------------------------------------------
(***************************************************************************)
(* Highest.                                                                *)
(***************************************************************************)

\* A bounded nonempty set of numbers has a greatest element: the least of its upper
\* bounds.  recompute_node takes such a maximum of states and of confidences.
LEMMA HighestExists ==
  ASSUME NEW m \in Nat, NEW S \in SUBSET (0..m), S # {}
  PROVE  Highest(S) \in S /\ \A x \in S : x <= Highest(S)
<1> DEFINE Bounds == {b \in Nat : \A x \in S : x <= b}
<1>1. Bounds \subseteq Nat /\ Bounds # {}
  <2>1. m \in Bounds
    OBVIOUS
  <2>2. QED
    BY <2>1
<1>2. \E b \in Bounds : \A y \in Bounds : ~(<<y, b>> \in OpToRel(<, Nat))
  <2> HIDE DEF Bounds
  <2>1. QED
    BY <1>1, NatLessThanWellFounded, WFMin
<1>3. PICK b \in Bounds : \A y \in Bounds : ~(<<y, b>> \in OpToRel(<, Nat))
  BY <1>2
<1>4. \A y \in Bounds : ~(y < b)
  <2>1. ASSUME NEW y \in Bounds, y < b
        PROVE  <<y, b>> \in OpToRel(<, Nat)
    BY <2>1 DEF OpToRel
  <2>2. QED
    BY <1>3, <2>1
<1>5. b \in S
  <2>1. SUFFICES ASSUME b \notin S
                 PROVE  FALSE
    OBVIOUS
  <2>2. PICK x \in S : TRUE
    OBVIOUS
  <2>3. b > 0 /\ b - 1 \in Nat
    BY <2>1, <2>2
  <2>4. \A y \in S : y <= b - 1
    BY <2>1, <2>3
  <2>5. QED
    BY <1>4, <2>3, <2>4
<1>6. \E x \in S : \A y \in S : y <= x
  BY <1>5
<1>7. QED
  BY <1>6 DEF Highest
-----------------------------------------------------------------------------
(***************************************************************************)
(* recompute_node.                                                         *)
(***************************************************************************)

\* What the assumption says of confidences (the floats from 0 to 1 of the code).
LEMMA ConfidencesAreBounded ==
  /\ Full \in Nat /\ Full \in Confidences
  /\ Confidences \subseteq 0..Full
  /\ None \notin Confidences /\ None \notin Nat
<1>1. Full \in Nat /\ Full \in Confidences /\ Confidences \subseteq 0..Full /\ None \notin Nat
  BY EvidenceAssumption, Zenon
<1>2. 0..Full \subseteq Nat
  OBVIOUS
<1>3. QED
  BY <1>1, <1>2

\* Whatever the evidence is, the recomputed node holds it and is good.
LEMMA RecomputedIsGood ==
  ASSUME NEW ev \in Seq(Item)
  PROVE  Good(Recomputed(ev)) /\ Recomputed(ev).evidence = ev
<1> DEFINE states == {ev[k].state : k \in Active(ev)}
           rank == Highest(states)
           strongest == {k \in Active(ev) : ev[k].state = rank}
           values == {ev[k].confidence : k \in strongest}
<1>1. \A k \in Active(ev) : k \in 1..Len(ev) /\ ev[k] \in Item
  BY DEF Active
<1>2. CASE Active(ev) = {}
  <2>1. Recomputed(ev) = CompetencyEvidence(Unknown, None, ev)
    BY <1>2 DEF Recomputed
  <2>2. CompetencyEvidence(Unknown, None, ev) \in Node
    BY DEF CompetencyEvidence, Node, Unknown, States
  <2>3. QED
    BY <1>2, <2>1, <2>2 DEF Good, Strongest, Backed, CompetencyEvidence
<1>3. CASE Active(ev) # {}
  <2>1. states \in SUBSET (0..5) /\ states # {}
    BY <1>1, <1>3 DEF Item, States
  <2>2. rank \in states /\ \A x \in states : x <= rank
    <3> HIDE DEF states
    <3>1. QED
      BY <2>1, HighestExists
  <2>3. rank \in States /\ \A k \in Active(ev) : ev[k].state <= rank
    BY <2>1, <2>2 DEF States
  <2>4. strongest # {} /\ strongest \subseteq Active(ev)
    BY <2>2
  <2>5. values \in SUBSET (0..Full) /\ values \subseteq Confidences /\ values # {}
    <3>1. \A k \in strongest : ev[k].confidence \in Confidences
      BY <1>1, <2>4 DEF Item
    <3> HIDE DEF strongest
    <3>2. QED
      BY <2>4, <3>1, ConfidencesAreBounded
  <2>6. Highest(values) \in values
    <3> HIDE DEF values
    <3>1. QED
      BY <2>5, HighestExists, ConfidencesAreBounded
  <2>7. PICK k \in Active(ev) : ev[k].state = rank /\ ev[k].confidence = Highest(values)
    <3> HIDE DEF rank
    <3>1. QED
      BY <2>6
  <2>8. Recomputed(ev) = CompetencyEvidence(rank, IF rank \in {Claimed, Unknown} THEN None
                                                  ELSE Highest(values), ev)
    BY <1>3 DEF Recomputed
  <2> HIDE DEF rank, values
  <2>9. CASE rank \in {Claimed, Unknown}
    <3>1. Recomputed(ev) = CompetencyEvidence(rank, None, ev)
      BY <2>8, <2>9
    <3>2. CompetencyEvidence(rank, None, ev) \in Node
      BY <2>3 DEF CompetencyEvidence, Node
    <3>3. QED
      BY <2>3, <2>7, <2>9, <3>1, <3>2 DEF Good, Strongest, Backed, CompetencyEvidence
  <2>10. CASE rank \notin {Claimed, Unknown}
    <3>1. Recomputed(ev) = CompetencyEvidence(rank, Highest(values), ev)
      BY <2>8, <2>10
    <3>2. Highest(values) \in Confidences /\ Highest(values) # None
      BY <2>5, <2>6, ConfidencesAreBounded
    <3>3. CompetencyEvidence(rank, Highest(values), ev) \in Node
      BY <2>3, <3>2 DEF CompetencyEvidence, Node
    <3>4. QED
      BY <2>3, <2>7, <2>10, <3>1, <3>2, <3>3 DEF Good, Strongest, Backed, CompetencyEvidence
  <2>11. QED
    BY <2>9, <2>10
<1>4. QED
  BY <1>2, <1>3
-----------------------------------------------------------------------------
(***************************************************************************)
(* Adding an item: record_candidate_claim and apply_observation.           *)
(***************************************************************************)

\* An active item that is appended is active, and the others are what they were.
LEMMA AppendedIsActive ==
  ASSUME NEW ev \in Seq(Item), NEW i \in Item, i.active
  PROVE  /\ Append(ev, i) \in Seq(Item) /\ Len(Append(ev, i)) = Len(ev) + 1
         /\ Append(ev, i)[Len(ev) + 1] = i
         /\ \A k \in 1..Len(ev) : Append(ev, i)[k] = ev[k]
         /\ Active(Append(ev, i)) = Active(ev) \cup {Len(ev) + 1}
<1>1. /\ Append(ev, i) \in Seq(Item) /\ Len(Append(ev, i)) = Len(ev) + 1
      /\ Append(ev, i)[Len(ev) + 1] = i
      /\ \A k \in 1..Len(ev) : Append(ev, i)[k] = ev[k]
  OBVIOUS
<1>2. 1..(Len(ev) + 1) = (1..Len(ev)) \cup {Len(ev) + 1}
  OBVIOUS
<1>3. Active(Append(ev, i)) = Active(ev) \cup {Len(ev) + 1}
  BY <1>1, <1>2 DEF Active
<1>4. QED
  BY <1>1, <1>3

\* An item that is appended leaves the others as they are.
LEMMA AppendKeeps ==
  ASSUME NEW ev \in Seq(Item), NEW i \in Item
  PROVE  Keeps(ev, Append(ev, i))
<1>1. Len(ev) <= Len(Append(ev, i)) /\ \A k \in 1..Len(ev) : Append(ev, i)[k] = ev[k]
  OBVIOUS
<1>2. QED
  BY <1>1 DEF Keeps

\* What is known of an item, and of a good node.
LEMMA ItemFacts ==
  ASSUME NEW ev \in Seq(Item), NEW k \in 1..Len(ev)
  PROVE  /\ ev[k] \in Item
         /\ ev[k].turn \in Turns /\ ev[k].state \in 0..5 /\ ev[k].confidence \in Confidences
         /\ ev[k].semantic \in BOOLEAN /\ ev[k].revision \in Nat /\ ev[k].active \in BOOLEAN
<1>1. ev[k] \in Item
  OBVIOUS
<1>2. QED
  BY <1>1 DEF Item, States

LEMMA GoodNodeFacts ==
  ASSUME NEW n, Good(n)
  PROVE  /\ n.evidence \in Seq(Item) /\ n.state \in 0..5
         /\ n.confidence \in Confidences \cup {None}
         /\ \A k \in Active(n.evidence) :
              /\ k \in 1..Len(n.evidence)
              /\ n.evidence[k].state \in 0..5 /\ n.evidence[k].state <= n.state
         /\ n.state # Unknown => \E k \in Active(n.evidence) : n.evidence[k].state = n.state
<1>1. /\ n.evidence \in Seq(Item) /\ n.state \in 0..5
      /\ n.confidence \in Confidences \cup {None}
  BY DEF Good, Node, States
<1>2. \A k \in Active(n.evidence) : k \in 1..Len(n.evidence)
  BY DEF Active
<1>3. \A k \in 1..Len(n.evidence) : n.evidence[k].state \in 0..5
  BY <1>1, ItemFacts
<1>4. /\ \A k \in Active(n.evidence) : n.evidence[k].state <= n.state
      /\ n.state # Unknown => \E k \in Active(n.evidence) : n.evidence[k].state = n.state
  BY DEF Good, Strongest
<1>5. QED
  BY <1>1, <1>2, <1>3, <1>4

\* An item that is no stronger than the node leaves its state and its confidence.
LEMMA WeakerItemIsGood ==
  ASSUME NEW n, Good(n), NEW i \in Item, i.active, i.state <= n.state
  PROVE  LET m == CompetencyEvidence(n.state, n.confidence, Append(n.evidence, i))
         IN  Good(m) /\ Follows(n, m)
<1> DEFINE ev == Append(n.evidence, i)
           m == CompetencyEvidence(n.state, n.confidence, ev)
<1>1. n.evidence \in Seq(Item) /\ n.state \in 0..5 /\ n.confidence \in Confidences \cup {None}
  BY GoodNodeFacts
<1>2. /\ ev \in Seq(Item) /\ Len(ev) = Len(n.evidence) + 1
      /\ ev[Len(n.evidence) + 1] = i
      /\ \A k \in 1..Len(n.evidence) : ev[k] = n.evidence[k]
      /\ Active(ev) = Active(n.evidence) \cup {Len(n.evidence) + 1}
      /\ Keeps(n.evidence, ev)
  BY <1>1, AppendedIsActive, AppendKeeps
<1>3. \A k \in Active(n.evidence) : ev[k] = n.evidence[k] /\ ev[k].state <= n.state
  BY <1>1, <1>2, GoodNodeFacts
<1> HIDE DEF ev
<1>4. m.state = n.state /\ m.confidence = n.confidence /\ m.evidence = ev
  BY DEF CompetencyEvidence
<1>5. m \in Node
  BY <1>1, <1>2 DEF CompetencyEvidence, Node, States
<1> HIDE DEF m
<1>6. Strongest(m)
  <2>1. \A k \in Active(ev) : ev[k].state <= n.state
    BY <1>2, <1>3
  <2>2. n.state # Unknown => \E k \in Active(ev) : ev[k].state = n.state
    BY <1>2, <1>3, GoodNodeFacts
  <2>3. QED
    BY <1>4, <2>1, <2>2 DEF Strongest
<1>7. Backed(m)
  BY <1>2, <1>3, <1>4 DEF Good, Backed
<1>8. Follows(n, m)
  BY <1>2, <1>4 DEF Follows, GivesUp
<1>9. QED
  BY <1>5, <1>6, <1>7, <1>8 DEF Good, m, ev

\* record_candidate_claim: a claim lifts a node that has less than a claim.
LEMMA ClaimIsGood ==
  ASSUME NEW n, Good(n), NEW t \in Turns
  PROVE  Good(WithClaim(n, t)) /\ Follows(n, WithClaim(n, t))
<1> DEFINE i == EvidenceItem(t, Claimed, Full, FALSE, 0, TRUE)
           ev == Append(n.evidence, i)
<1>1. n.evidence \in Seq(Item) /\ n.state \in 0..5 /\ n.confidence \in Confidences \cup {None}
  BY GoodNodeFacts
<1>2. i \in Item /\ i.active /\ i.state = Claimed
  BY ConfidencesAreBounded DEF EvidenceItem, Item, States, Claimed
<1> HIDE DEF i
<1>3. /\ ev \in Seq(Item) /\ Len(ev) = Len(n.evidence) + 1
      /\ ev[Len(n.evidence) + 1] = i
      /\ \A k \in 1..Len(n.evidence) : ev[k] = n.evidence[k]
      /\ Active(ev) = Active(n.evidence) \cup {Len(n.evidence) + 1}
      /\ Keeps(n.evidence, ev)
  BY <1>1, <1>2, AppendedIsActive, AppendKeeps
<1>4. \A k \in Active(n.evidence) : /\ ev[k] = n.evidence[k]
                                    /\ ev[k].state \in 0..5 /\ ev[k].state <= n.state
  BY <1>1, <1>3, GoodNodeFacts
<1> HIDE DEF ev
<1>5. CASE n.state < Claimed
  <2>1. WithClaim(n, t) = CompetencyEvidence(Claimed, None, ev)
    BY <1>5 DEF WithClaim, ev, i
  <2>2. CompetencyEvidence(Claimed, None, ev) \in Node
    BY <1>3 DEF CompetencyEvidence, Node, States, Claimed
  <2>3. Strongest(CompetencyEvidence(Claimed, None, ev))
    <3>1. \A k \in Active(ev) : ev[k].state <= Claimed
      <4>1. \A k \in Active(n.evidence) : ev[k].state <= Claimed
        BY <1>1, <1>4, <1>5 DEF Claimed
      <4>2. ev[Len(n.evidence) + 1].state <= Claimed
        BY <1>2, <1>3 DEF Claimed
      <4>3. QED
        BY <1>3, <4>1, <4>2
    <3>2. \E k \in Active(ev) : ev[k].state = Claimed
      BY <1>2, <1>3
    <3>3. QED
      BY <3>1, <3>2 DEF Strongest, CompetencyEvidence
  <2>4. Backed(CompetencyEvidence(Claimed, None, ev))
    BY Zenon DEF Backed, CompetencyEvidence
  <2>5. Follows(n, CompetencyEvidence(Claimed, None, ev))
    BY <1>3, <1>5 DEF Follows, GivesUp, CompetencyEvidence, Claimed, Contradicted
  <2>6. QED
    BY <2>1, <2>2, <2>3, <2>4, <2>5 DEF Good
<1>6. CASE ~(n.state < Claimed)
  <2>1. WithClaim(n, t) = CompetencyEvidence(n.state, n.confidence, ev)
    BY <1>6 DEF WithClaim, ev, i
  <2>2. i.state <= n.state
    BY <1>1, <1>2, <1>6 DEF Claimed
  <2>3. QED
    BY <1>2, <2>1, <2>2, WeakerItemIsGood DEF ev
<1>7. QED
  BY <1>5, <1>6

\* apply_observation: an observation that moves the node is the strongest, and one
\* that does not is no stronger than what is there.
LEMMA ObservationIsGood ==
  ASSUME NEW n, Good(n), NEW i \in Item, i.active
  PROVE  Good(WithObservation(n, i)) /\ Follows(n, WithObservation(n, i))
<1> DEFINE ev == Append(n.evidence, i)
<1>1. n.evidence \in Seq(Item) /\ n.state \in 0..5 /\ n.confidence \in Confidences \cup {None}
  BY GoodNodeFacts
<1>2. i.state \in 0..5 /\ i.confidence \in Confidences
  BY DEF Item, States
<1>3. /\ ev \in Seq(Item) /\ Len(ev) = Len(n.evidence) + 1
      /\ ev[Len(n.evidence) + 1] = i
      /\ \A k \in 1..Len(n.evidence) : ev[k] = n.evidence[k]
      /\ Active(ev) = Active(n.evidence) \cup {Len(n.evidence) + 1}
      /\ Keeps(n.evidence, ev)
  BY <1>1, AppendedIsActive, AppendKeeps
<1>4. \A k \in Active(n.evidence) : /\ ev[k] = n.evidence[k]
                                    /\ ev[k].state \in 0..5 /\ ev[k].state <= n.state
  BY <1>1, <1>3, GoodNodeFacts
<1> HIDE DEF ev
<1>5. CASE n.state # Contradicted /\ (i.state = Contradicted \/ i.state >= n.state)
  <2>1. WithObservation(n, i) = CompetencyEvidence(i.state, i.confidence, ev)
    BY <1>5 DEF WithObservation, ev
  <2>2. CompetencyEvidence(i.state, i.confidence, ev) \in Node
    BY <1>2, <1>3 DEF CompetencyEvidence, Node, States
  <2>3. Strongest(CompetencyEvidence(i.state, i.confidence, ev))
    <3>1. n.state <= i.state
      BY <1>1, <1>2, <1>5 DEF Contradicted
    <3>2. \A k \in Active(ev) : ev[k].state <= i.state
      <4>1. \A k \in Active(n.evidence) : ev[k].state <= i.state
        BY <1>1, <1>2, <1>4, <3>1
      <4>2. ev[Len(n.evidence) + 1].state <= i.state
        BY <1>2, <1>3
      <4>3. QED
        BY <1>3, <4>1, <4>2
    <3>3. \E k \in Active(ev) : ev[k].state = i.state
      BY <1>2, <1>3
    <3>4. QED
      BY <3>2, <3>3 DEF Strongest, CompetencyEvidence
  <2>4. Backed(CompetencyEvidence(i.state, i.confidence, ev))
    BY <1>2, <1>3, ConfidencesAreBounded DEF Backed, CompetencyEvidence
  <2>5. Follows(n, CompetencyEvidence(i.state, i.confidence, ev))
    BY <1>3, <1>5 DEF Follows, GivesUp, CompetencyEvidence
  <2>6. QED
    BY <2>1, <2>2, <2>3, <2>4, <2>5 DEF Good
<1>6. CASE ~(n.state # Contradicted /\ (i.state = Contradicted \/ i.state >= n.state))
  <2>1. WithObservation(n, i) = CompetencyEvidence(n.state, n.confidence, ev)
    BY <1>6 DEF WithObservation, ev
  <2>2. i.state <= n.state
    BY <1>1, <1>2, <1>6 DEF Contradicted
  <2>3. QED
    BY <2>1, <2>2, WeakerItemIsGood DEF ev
<1>7. QED
  BY <1>5, <1>6
-----------------------------------------------------------------------------
(***************************************************************************)
(* supersede_semantic_evidence_for_turn.                                   *)
(***************************************************************************)

\* The evidence ev once the judge's items for turn t are switched off.
SwitchedOff(ev, t) ==
  [k \in 1..Len(ev) |->
     IF IsSuperseded(ev[k], t)
     THEN EvidenceItem(ev[k].turn, ev[k].state, ev[k].confidence, ev[k].semantic,
                       ev[k].revision, FALSE)
     ELSE ev[k]]

\* Every item stays in its place and keeps what it says.
LEMMA SwitchedOffFacts ==
  ASSUME NEW ev \in Seq(Item), NEW t \in Turns
  PROVE  /\ SwitchedOff(ev, t) \in Seq(Item) /\ Len(SwitchedOff(ev, t)) = Len(ev)
         /\ Keeps(ev, SwitchedOff(ev, t))
         /\ \A k \in 1..Len(ev) :
              /\ SwitchedOff(ev, t)[k].turn = ev[k].turn
              /\ SwitchedOff(ev, t)[k].state = ev[k].state
              /\ SwitchedOff(ev, t)[k].semantic = ev[k].semantic
              /\ SwitchedOff(ev, t)[k].revision = ev[k].revision
              /\ SwitchedOff(ev, t)[k].active <=> ev[k].active /\ ~IsSuperseded(ev[k], t)
<1> DEFINE new == SwitchedOff(ev, t)
<1>1. DOMAIN new = 1..Len(ev) /\ Len(ev) \in Nat
  BY DEF SwitchedOff
<1>2. ASSUME NEW k \in 1..Len(ev)
      PROVE  /\ new[k] \in Item
             /\ new[k].turn = ev[k].turn /\ new[k].state = ev[k].state
             /\ new[k].semantic = ev[k].semantic /\ new[k].revision = ev[k].revision
             /\ new[k].active <=> ev[k].active /\ ~IsSuperseded(ev[k], t)
  <2>1. CASE IsSuperseded(ev[k], t)
    <3>1. new[k] = EvidenceItem(ev[k].turn, ev[k].state, ev[k].confidence, ev[k].semantic,
                                ev[k].revision, FALSE)
      BY <2>1 DEF SwitchedOff
    <3>2. EvidenceItem(ev[k].turn, ev[k].state, ev[k].confidence, ev[k].semantic,
                       ev[k].revision, FALSE) \in Item
      BY ItemFacts DEF EvidenceItem, Item, States
    <3>3. /\ new[k].turn = ev[k].turn /\ new[k].state = ev[k].state
          /\ new[k].semantic = ev[k].semantic /\ new[k].revision = ev[k].revision
          /\ ~new[k].active
      BY <3>1 DEF EvidenceItem
    <3> HIDE DEF new
    <3>4. QED
      BY <2>1, <3>1, <3>2, <3>3, Zenon
  <2>2. CASE ~IsSuperseded(ev[k], t)
    <3>1. new[k] = ev[k]
      BY <2>2 DEF SwitchedOff
    <3>2. ev[k] \in Item
      BY ItemFacts
    <3> HIDE DEF new
    <3>3. QED
      BY <2>2, <3>1, <3>2, Zenon
  <2>3. QED
    BY <2>1, <2>2
<1>3. new = [k \in 1..Len(ev) |-> new[k]]
  BY DEF SwitchedOff
<1> HIDE DEF new
<1>4. new \in Seq(Item) /\ Len(new) = Len(ev)
  BY <1>1, <1>2, <1>3
<1>5. Keeps(ev, new)
  BY <1>2, <1>4 DEF Keeps, IsSuperseded
<1>6. QED
  BY <1>2, <1>4, <1>5 DEF new

\* Superseding either leaves the node alone or recomputes it from what stays active.
LEMMA SupersededCases ==
  ASSUME NEW n, NEW t
  PROVE  \/ Superseded(n, t) = n /\ \A k \in 1..Len(n.evidence) : ~IsSuperseded(n.evidence[k], t)
         \/ Superseded(n, t) = Recomputed(SwitchedOff(n.evidence, t))
  BY DEF Superseded, SwitchedOff

\* What comes of a good node is good, and a contradiction stays unless all its evidence
\* was the judge's and is switched off.
LEMMA SupersededIsGood ==
  ASSUME NEW n, Good(n), NEW t \in Turns
  PROVE  Good(Superseded(n, t)) /\ Follows(n, Superseded(n, t))
<1>1. CASE Superseded(n, t) = n
  BY <1>1 DEF Follows, Keeps, GivesUp
<1>2. CASE Superseded(n, t) = Recomputed(SwitchedOff(n.evidence, t))
  <2> DEFINE ev == SwitchedOff(n.evidence, t)
             new == Superseded(n, t)
  <2>1. n.evidence \in Seq(Item)
    BY GoodNodeFacts
  <2>2. /\ ev \in Seq(Item) /\ Len(ev) = Len(n.evidence) /\ Keeps(n.evidence, ev)
        /\ \A k \in 1..Len(n.evidence) :
             /\ ev[k].state = n.evidence[k].state
             /\ ev[k].active <=> n.evidence[k].active /\ ~IsSuperseded(n.evidence[k], t)
    BY <2>1, SwitchedOffFacts
  <2> HIDE DEF ev
  <2>3. Good(new) /\ new.evidence = ev
    BY <1>2, <2>2, RecomputedIsGood DEF ev
  <2> HIDE DEF new
  <2>4. ASSUME n.state = Contradicted, new.state # Contradicted,
               NEW k \in Active(n.evidence), n.evidence[k].state = Contradicted
        PROVE  n.evidence[k].semantic /\ ~new.evidence[k].active
    <3>1. k \in 1..Len(n.evidence) /\ n.evidence[k].active
      BY DEF Active
    <3>2. ASSUME ev[k].active
          PROVE  FALSE
      <4>1. k \in Active(new.evidence) /\ new.evidence[k].state = Contradicted
        BY <2>2, <2>3, <2>4, <3>1, <3>2 DEF Active
      <4>2. new.state \in 0..5 /\ new.evidence[k].state <= new.state
        BY <2>3, <4>1, GoodNodeFacts
      <4>3. QED
        BY <2>4, <4>1, <4>2 DEF Contradicted
    <3>3. IsSuperseded(n.evidence[k], t)
      BY <2>2, <3>1, <3>2
    <3>4. QED
      BY <2>3, <3>2, <3>3 DEF IsSuperseded
  <2>5. Follows(n, new)
    BY <2>2, <2>3, <2>4 DEF Follows, GivesUp
  <2>6. QED
    BY <2>3, <2>5 DEF new
<1>3. QED
  BY <1>1, <1>2, SupersededCases
-----------------------------------------------------------------------------
(***************************************************************************)
(* Several operations in one call.                                         *)
(***************************************************************************)

\* Following is transitive: two observations, or observations after superseding, give
\* up a contradiction only as one operation may.
LEMMA FollowsIsTransitive ==
  ASSUME NEW a, NEW b, NEW c, Good(a), Good(b), Follows(a, b), Follows(b, c)
  PROVE  Follows(a, c)
<1>1. /\ Keeps(a.evidence, b.evidence) /\ GivesUp(a, b)
      /\ Keeps(b.evidence, c.evidence) /\ GivesUp(b, c)
  BY DEF Follows
<1>2. Len(a.evidence) \in Nat /\ Len(b.evidence) \in Nat
  BY GoodNodeFacts
<1>3. 1..Len(a.evidence) \subseteq 1..Len(b.evidence)
  BY <1>1, <1>2 DEF Keeps
<1>4. Len(a.evidence) <= Len(c.evidence)
  BY <1>1, <1>2 DEF Keeps
<1>5. Keeps(a.evidence, c.evidence)
  BY <1>1, <1>3, <1>4 DEF Keeps
<1>6. GivesUp(a, c)
  BY <1>1, <1>3 DEF GivesUp, Keeps, Active
<1>7. QED
  BY <1>5, <1>6 DEF Follows
-----------------------------------------------------------------------------
(***************************************************************************)
(* Quotes.                                                                 *)
(***************************************************************************)

\* An appended item quotes the current text, or is not the judge's.
LEMMA AppendQuotes ==
  ASSUME NEW ev \in Seq(Item), NEW i \in Item, i.active, NEW rev, Current(ev, rev),
         i.semantic => i.revision = rev[i.turn]
  PROVE  Current(Append(ev, i), rev)
<1> DEFINE new == Append(ev, i)
<1>1. /\ new[Len(ev) + 1] = i /\ \A k \in 1..Len(ev) : new[k] = ev[k]
      /\ Active(new) = Active(ev) \cup {Len(ev) + 1}
  BY AppendedIsActive
<1> HIDE DEF new
<1>2. \A k \in Active(ev) : new[k].semantic => new[k].revision = rev[new[k].turn]
  BY <1>1 DEF Active, Current
<1>3. new[Len(ev) + 1].semantic => new[Len(ev) + 1].revision = rev[new[Len(ev) + 1].turn]
  BY <1>1
<1>4. Current(new, rev)
  BY <1>1, <1>2, <1>3 DEF Current
<1>5. QED
  BY <1>4 DEF new

\* A claim is the candidate's, so it quotes nothing that could become stale.
LEMMA ClaimQuotes ==
  ASSUME NEW n, Good(n), NEW t \in Turns, NEW rev, Quotes(n, rev)
  PROVE  Quotes(WithClaim(n, t), rev)
<1> DEFINE i == EvidenceItem(t, Claimed, Full, FALSE, 0, TRUE)
<1>1. n.evidence \in Seq(Item)
  BY GoodNodeFacts
<1>2. i \in Item /\ i.active /\ ~i.semantic
  BY ConfidencesAreBounded DEF EvidenceItem, Item, States, Claimed
<1>3. WithClaim(n, t).evidence = Append(n.evidence, i)
  BY DEF WithClaim, CompetencyEvidence
<1> HIDE DEF i
<1>4. QED
  BY <1>1, <1>2, <1>3, AppendQuotes DEF Quotes

\* An observation quotes what its check found.
LEMMA ObservationQuotes ==
  ASSUME NEW n, Good(n), NEW i \in Item, i.active, NEW rev, Quotes(n, rev),
         i.semantic => i.revision = rev[i.turn]
  PROVE  Quotes(WithObservation(n, i), rev)
<1>1. n.evidence \in Seq(Item)
  BY GoodNodeFacts
<1>2. WithObservation(n, i).evidence = Append(n.evidence, i)
  BY DEF WithObservation, CompetencyEvidence
<1>3. QED
  BY <1>1, <1>2, AppendQuotes DEF Quotes

\* Once the evidence of turn t is superseded, nothing quotes that turn, and its text
\* may change.
LEMMA SupersededQuotes ==
  ASSUME NEW n, Good(n), NEW t \in Turns, NEW rev, Quotes(n, rev),
         NEW new, \A u \in Turns \ {t} : new[u] = rev[u]
  PROVE  Quotes(Superseded(n, t), new)
<1>1. n.evidence \in Seq(Item)
  BY GoodNodeFacts
<1>2. \A k \in 1..Len(n.evidence) : n.evidence[k].turn \in Turns
  BY <1>1, ItemFacts
<1>3. CASE /\ Superseded(n, t) = n
           /\ \A k \in 1..Len(n.evidence) : ~IsSuperseded(n.evidence[k], t)
  BY <1>2, <1>3 DEF Quotes, Current, Active, IsSuperseded
<1>4. CASE Superseded(n, t) = Recomputed(SwitchedOff(n.evidence, t))
  <2> DEFINE ev == SwitchedOff(n.evidence, t)
  <2>1. /\ ev \in Seq(Item) /\ Len(ev) = Len(n.evidence)
        /\ \A k \in 1..Len(n.evidence) :
             /\ ev[k].turn = n.evidence[k].turn
             /\ ev[k].semantic = n.evidence[k].semantic
             /\ ev[k].revision = n.evidence[k].revision
             /\ ev[k].active <=> n.evidence[k].active /\ ~IsSuperseded(n.evidence[k], t)
    BY <1>1, SwitchedOffFacts
  <2>2. Superseded(n, t).evidence = ev
    BY <1>4, <2>1, RecomputedIsGood
  <2> HIDE DEF ev
  <2>3. QED
    BY <1>2, <2>1, <2>2 DEF Quotes, Current, Active, IsSuperseded
<1>5. QED
  BY <1>3, <1>4, SupersededCases

\* Nothing quotes a turn that is not spoken yet.
LEMMA UnspokenIsUnquoted ==
  ASSUME NEW n, Good(n), NEW t \in Turns, NEW rev, Quotes(n, rev), rev[t] = None,
         NEW new, \A u \in Turns \ {t} : new[u] = rev[u]
  PROVE  Quotes(n, new)
<1>1. n.evidence \in Seq(Item)
  BY GoodNodeFacts
<1>2. \A k \in 1..Len(n.evidence) : n.evidence[k].turn \in Turns /\ n.evidence[k].revision # None
  BY <1>1, ItemFacts, ConfidencesAreBounded
<1>3. QED
  BY <1>2 DEF Quotes, Current, Active
-----------------------------------------------------------------------------
(***************************************************************************)
(* The judge's findings.                                                   *)
(***************************************************************************)

\* What an operation on a node must give.
Advances(old, new, rev) == Good(new) /\ Follows(old, new) /\ Quotes(new, rev)

\* An accepted finding is an item that quotes the revision the judge read.
LEMMA FoundIsItem ==
  ASSUME NEW f \in Findings, NEW t \in Turns, NEW r \in Nat
  PROVE  /\ Found(f, t, r) \in Item /\ Found(f, t, r).active
         /\ Found(f, t, r).turn = t /\ Found(f, t, r).revision = r
<1>1. f.state \in States /\ f.confidence \in Confidences
  BY EvidenceAssumption
<1>2. QED
  BY <1>1 DEF Found, EvidenceItem, Item

\* One more finding.
LEMMA FindingAdvances ==
  ASSUME NEW n, NEW m, NEW rev, Good(n), Advances(n, m, rev),
         NEW f \in Findings, NEW t \in Turns, NEW r \in Nat, r = rev[t]
  PROVE  Advances(n, WithObservation(m, Found(f, t, r)), rev)
<1> DEFINE i == Found(f, t, r)
<1>1. i \in Item /\ i.active /\ i.revision = rev[i.turn]
  BY FoundIsItem
<1> HIDE DEF i
<1>2. Good(m) /\ Follows(n, m) /\ Quotes(m, rev)
  BY DEF Advances
<1>3. Good(WithObservation(m, i)) /\ Follows(m, WithObservation(m, i))
  BY <1>1, <1>2, ObservationIsGood
<1>4. Quotes(WithObservation(m, i), rev)
  BY <1>1, <1>2, ObservationQuotes
<1>5. Follows(n, WithObservation(m, i))
  BY <1>2, <1>3, FollowsIsTransitive
<1>6. QED
  BY <1>3, <1>4, <1>5 DEF Advances, i

\* None, one or two of them.
LEMMA FindingsAdvance ==
  ASSUME NEW n, NEW m, NEW rev, Good(n), Advances(n, m, rev),
         NEW fs \in FindingLists, NEW t \in Turns, NEW r \in Nat, r = rev[t]
  PROVE  Advances(n, WithFindings(m, fs, t, r), rev)
<1>1. CASE fs = <<>>
  BY <1>1 DEF WithFindings
<1>2. ASSUME NEW f \in Findings, fs = <<f>>
      PROVE  Advances(n, WithFindings(m, fs, t, r), rev)
  <2>1. WithFindings(m, fs, t, r) = WithObservation(m, Found(f, t, r))
    BY <1>2 DEF WithFindings
  <2>2. QED
    BY <2>1, FindingAdvances
<1>3. ASSUME NEW f \in Findings, NEW g \in Findings, fs = <<f, g>>
      PROVE  Advances(n, WithFindings(m, fs, t, r), rev)
  <2>1. WithFindings(m, fs, t, r) =
          WithObservation(WithObservation(m, Found(f, t, r)), Found(g, t, r))
    BY <1>3 DEF WithFindings
  <2>2. Advances(n, WithObservation(m, Found(f, t, r)), rev)
    BY FindingAdvances
  <2>3. QED
    BY <2>1, <2>2, FindingAdvances
<1>4. QED
  BY <1>1, <1>2, <1>3 DEF FindingLists
-----------------------------------------------------------------------------
(***************************************************************************)
(* The inductive invariant.                                                *)
(***************************************************************************)

\* A judge whose session nobody has saved since reads the current text: what lets a
\* re-evaluation be saved without looking at the transcript again.
JudgesReadCurrent ==
  \A j \in Judges :
    pending[j] # None /\ ~pending[j].stale => pending[j].revision = revision[pending[j].turn]

EvidenceInv ==
  /\ TypeOK
  /\ \A c \in Competencies : Good(graph[c]) /\ Quotes(graph[c], revision)
  /\ JudgesReadCurrent

\* What every operation does to the graph.
Advanced ==
  /\ graph' \in [Competencies -> Node]
  /\ \A c \in Competencies : Advances(graph[c], graph'[c], revision')

\* A graph that comes from the old one node by node.
LEMMA NodeByNode ==
  ASSUME graph' = [c \in Competencies |-> graph'[c]],
         \A c \in Competencies : Advances(graph[c], graph'[c], revision')
  PROVE  Advanced
<1>1. \A c \in Competencies : graph'[c] \in Node
  BY DEF Advances, Good
<1>2. QED
  BY <1>1 DEF Advanced

\* A node that stays as it is, while what it quotes stays too.
LEMMA StayingAdvances ==
  ASSUME NEW n, NEW rev, Good(n), Quotes(n, rev)
  PROVE  Advances(n, n, rev)
  BY DEF Advances, Follows, Keeps, GivesUp

\* answer: the claims, then what the judge finds in it.
LEMMA AnswerAdvances ==
  ASSUME EvidenceInv, NEW t \in Turns, Answer(t)
  PROVE  Advanced
<1>1. revision[t] = None /\ revision'[t] = 0 /\ \A u \in Turns \ {t} : revision'[u] = revision[u]
  BY DEF EvidenceInv, TypeOK, Answer, Spoken
<1>2. PICK fs \in Responses(t) :
        graph' = [c \in Competencies |->
                   IF c \in Tags[t] THEN WithFindings(WithClaim(graph[c], t), fs[c], t, 0)
                                    ELSE graph[c]]
  BY DEF Answer
<1>3. ASSUME NEW c \in Competencies
      PROVE  Advances(graph[c], graph'[c], revision')
  <2>1. Good(graph[c]) /\ Quotes(graph[c], revision')
    BY <1>1, UnspokenIsUnquoted DEF EvidenceInv
  <2>2. CASE c \in Tags[t]
    <3>1. graph'[c] = WithFindings(WithClaim(graph[c], t), fs[c], t, 0)
      BY <1>2, <2>2
    <3>2. fs[c] \in FindingLists
      BY <2>2 DEF Responses
    <3>3. Advances(graph[c], WithClaim(graph[c], t), revision')
      BY <2>1, ClaimIsGood, ClaimQuotes DEF Advances
    <3>4. QED
      BY <1>1, <2>1, <3>1, <3>2, <3>3, FindingsAdvance
  <2>3. CASE c \notin Tags[t]
    <3>1. graph'[c] = graph[c]
      BY <1>2, <2>3
    <3>2. QED
      BY <2>1, <3>1, StayingAdvances
  <2>4. QED
    BY <2>2, <2>3
<1>4. graph' = [c \in Competencies |-> graph'[c]]
  BY <1>2
<1>5. QED
  BY <1>3, <1>4, NodeByNode

\* submit_tool: the evaluator's verdict on the tool's competencies.
LEMMA SubmitToolAdvances ==
  ASSUME EvidenceInv, NEW t \in Turns, NEW verdict, SubmitTool(t, verdict)
  PROVE  Advanced
<1>1. revision[t] = None /\ revision'[t] = 0 /\ \A u \in Turns \ {t} : revision'[u] = revision[u]
  BY DEF EvidenceInv, TypeOK, SubmitTool, Spoken
<1> DEFINE i == EvidenceItem(t, verdict, Full, FALSE, 0, TRUE)
<1>2. i \in Item /\ i.active /\ ~i.semantic
  BY ConfidencesAreBounded DEF SubmitTool, EvidenceItem, Item, States, Demonstrated, Insufficient,
                               Unknown
<1>3. graph' = [c \in Competencies |->
                 IF c \in ToolTags[t] /\ verdict # Unknown THEN WithObservation(graph[c], i)
                                                           ELSE graph[c]]
  BY DEF SubmitTool
<1> HIDE DEF i
<1>4. ASSUME NEW c \in Competencies
      PROVE  Advances(graph[c], graph'[c], revision')
  <2>1. Good(graph[c]) /\ Quotes(graph[c], revision')
    BY <1>1, UnspokenIsUnquoted DEF EvidenceInv
  <2>2. graph'[c] \in {graph[c], WithObservation(graph[c], i)}
    BY <1>3
  <2>3. Advances(graph[c], WithObservation(graph[c], i), revision')
    BY <1>2, <2>1, ObservationIsGood, ObservationQuotes DEF Advances
  <2>4. QED
    BY <2>1, <2>2, <2>3, StayingAdvances
<1>5. graph' = [c \in Competencies |-> graph'[c]]
  BY <1>3
<1>6. QED
  BY <1>4, <1>5, NodeByNode

\* observe_evidence: an evaluator's observation, whose quote was checked against the
\* text as it is.
LEMMA ObserveAdvances ==
  ASSUME EvidenceInv, NEW c \in Competencies, NEW t \in Turns, NEW o \in Observations,
         Observe(c, t, o)
  PROVE  Advanced
<1> DEFINE i == EvidenceItem(t, o.state, o.confidence, o.semantic, revision[t], TRUE)
<1>1. revision[t] \in Nat /\ revision' = revision
  BY DEF EvidenceInv, TypeOK, Observe, Spoken
<1>2. o.state \in States /\ o.confidence \in Confidences /\ o.semantic \in BOOLEAN
  BY EvidenceAssumption
<1>3. i \in Item /\ i.active /\ i.revision = revision'[i.turn]
  BY <1>1, <1>2 DEF EvidenceItem, Item
<1>4. /\ graph' = [graph EXCEPT ![c] = WithObservation(graph[c], i)]
      /\ graph \in [Competencies -> Node]
  BY DEF Observe, EvidenceInv, TypeOK
<1> HIDE DEF i
<1>5. ASSUME NEW d \in Competencies
      PROVE  Advances(graph[d], graph'[d], revision')
  <2>1. Good(graph[d]) /\ Quotes(graph[d], revision')
    BY <1>1 DEF EvidenceInv
  <2>2. graph'[d] \in {graph[d], WithObservation(graph[d], i)}
    BY <1>4
  <2>3. Advances(graph[d], WithObservation(graph[d], i), revision')
    BY <1>3, <2>1, ObservationIsGood, ObservationQuotes DEF Advances
  <2>4. QED
    BY <2>1, <2>2, <2>3, StayingAdvances
<1>6. graph' = [d \in Competencies |-> graph'[d]]
  BY <1>4
<1>7. QED
  BY <1>5, <1>6, NodeByNode

\* correct_transcript: the text changes and what the judge found in it goes.
LEMMA CorrectAdvances ==
  ASSUME EvidenceInv, NEW t \in Turns, Correct(t)
  PROVE  Advanced
<1>1. \A u \in Turns \ {t} : revision'[u] = revision[u]
  BY DEF EvidenceInv, TypeOK, Correct
<1>2. graph' = [c \in Competencies |-> Superseded(graph[c], t)]
  BY DEF Correct
<1>3. ASSUME NEW c \in Competencies
      PROVE  Advances(graph[c], graph'[c], revision')
  <2>1. Good(graph[c]) /\ Quotes(graph[c], revision)
    BY DEF EvidenceInv
  <2>2. Advances(graph[c], Superseded(graph[c], t), revision')
    BY <1>1, <2>1, SupersededIsGood, SupersededQuotes DEF Advances
  <2>3. QED
    BY <1>2, <2>2
<1>4. graph' = [c \in Competencies |-> graph'[c]]
  BY <1>2
<1>5. QED
  BY <1>3, <1>4, NodeByNode

\* reevaluate_evidence: the judge read the text that is still the current one, since the
\* save found the version that was loaded.
LEMMA ReevaluatedAdvances ==
  ASSUME EvidenceInv, NEW j \in Judges, Reevaluated(j)
  PROVE  Advanced
<1> DEFINE t == pending[j].turn
           r == pending[j].revision
<1>1. t \in Turns /\ r \in Nat /\ r = revision[t] /\ revision' = revision
  BY DEF EvidenceInv, TypeOK, JudgesReadCurrent, Reevaluated, MaySave
<1>2. PICK fs \in Responses(t) :
        graph' = [c \in Competencies |->
                   IF c \in Tags[t] THEN WithFindings(Superseded(graph[c], t), fs[c], t, r)
                                    ELSE Superseded(graph[c], t)]
  BY DEF Reevaluated
<1> HIDE DEF t, r
<1>3. ASSUME NEW c \in Competencies
      PROVE  Advances(graph[c], graph'[c], revision')
  <2>1. Good(graph[c]) /\ Quotes(graph[c], revision')
    BY <1>1 DEF EvidenceInv
  <2>2. Advances(graph[c], Superseded(graph[c], t), revision')
    BY <1>1, <2>1, SupersededIsGood, SupersededQuotes DEF Advances
  <2>3. CASE c \in Tags[t]
    <3>1. graph'[c] = WithFindings(Superseded(graph[c], t), fs[c], t, r)
      BY <1>2, <2>3
    <3>2. fs[c] \in FindingLists
      BY <2>3 DEF Responses
    <3>3. QED
      BY <1>1, <2>1, <2>2, <3>1, <3>2, FindingsAdvance
  <2>4. CASE c \notin Tags[t]
    BY <1>2, <2>2, <2>4
  <2>5. QED
    BY <2>3, <2>4
<1>4. graph' = [c \in Competencies |-> graph'[c]]
  BY <1>2
<1>5. QED
  BY <1>3, <1>4, NodeByNode

\* The other steps leave graph and texts alone.
LEMMA UnchangedAdvances ==
  ASSUME EvidenceInv, UNCHANGED <<graph, revision>>
  PROVE  Advanced
<1>1. \A c \in Competencies : Advances(graph[c], graph[c], revision)
  BY StayingAdvances DEF EvidenceInv
<1>2. QED
  BY <1>1 DEF Advanced, EvidenceInv, TypeOK
-----------------------------------------------------------------------------
(***************************************************************************)
(* Judges and saves.                                                       *)
(***************************************************************************)

Runs == [turn : Turns, revision : Nat, stale : BOOLEAN]

\* After any save every other judge's session is stale.
LEMMA MovedFacts ==
  ASSUME TypeOK
  PROVE  /\ Moved \in [Judges -> Runs \cup {None}]
         /\ \A j \in Judges : Moved[j] # None => Moved[j].stale
<1>1. ASSUME NEW j \in Judges
      PROVE  Moved[j] \in Runs \cup {None} /\ (Moved[j] # None => Moved[j].stale)
  <2>1. CASE pending[j] = None
    BY <2>1 DEF Moved
  <2>2. CASE pending[j] # None
    <3>1. pending[j].turn \in Turns /\ pending[j].revision \in Nat
      BY <2>2 DEF TypeOK
    <3>2. Moved[j] = Run(pending[j].turn, pending[j].revision, TRUE)
      BY <2>2 DEF Moved
    <3>3. QED
      BY <3>1, <3>2 DEF Run, Runs
  <2>3. QED
    BY <2>1, <2>2
<1>2. Moved = [j \in Judges |-> Moved[j]]
  BY DEF Moved
<1>3. QED
  BY <1>1, <1>2

\* What a save leaves of the judges is typed and reads current text.
LEMMA SavedJudges ==
  ASSUME TypeOK, NEW p, \/ p = Moved \/ \E j \in Judges : p = Done(j)
  PROVE  /\ p \in [Judges -> Runs \cup {None}]
         /\ \A j \in Judges : p[j] # None => p[j].stale
  BY MovedFacts DEF Done
-----------------------------------------------------------------------------
(***************************************************************************)
(* The invariant is inductive.                                             *)
(***************************************************************************)

\* From the graph, the texts and the judges after a step to the invariant.
LEMMA StepKeepsInv ==
  ASSUME Advanced, revision' \in [Turns -> Nat \cup {None}],
         pending' \in [Judges -> Runs \cup {None}], JudgesReadCurrent'
  PROVE  EvidenceInv'
<1>1. TypeOK'
  BY DEF Advanced, TypeOK, Runs
<1>2. \A c \in Competencies : Good(graph'[c]) /\ Quotes(graph'[c], revision')
  BY DEF Advanced, Advances
<1>3. QED
  BY <1>1, <1>2 DEF EvidenceInv

\* A step that saves leaves only stale judges.
LEMMA SavingKeepsInv ==
  ASSUME EvidenceInv, Advanced, revision' \in [Turns -> Nat \cup {None}],
         \/ pending' = Moved \/ \E j \in Judges : pending' = Done(j)
  PROVE  EvidenceInv'
<1>1. TypeOK
  BY DEF EvidenceInv
<1>2. /\ pending' \in [Judges -> Runs \cup {None}]
      /\ \A j \in Judges : pending'[j] # None => pending'[j].stale
  BY <1>1, SavedJudges
<1>3. JudgesReadCurrent'
  BY <1>2 DEF JudgesReadCurrent
<1>4. QED
  BY <1>2, <1>3, StepKeepsInv

LEMMA EvidenceInvInitially == Init => EvidenceInv
<1> SUFFICES ASSUME Init PROVE EvidenceInv
  OBVIOUS
<1> DEFINE n0 == CompetencyEvidence(Unknown, None, <<>>)
<1>1. n0 \in Node
  BY DEF CompetencyEvidence, Node, States, Unknown
<1>2. n0.evidence = <<>> /\ n0.state = Unknown /\ n0.confidence = None
  BY DEF CompetencyEvidence
<1> HIDE DEF n0
<1>3. Active(n0.evidence) = {}
  BY <1>2 DEF Active
<1>4. Good(n0) /\ Quotes(n0, revision)
  BY <1>1, <1>2, <1>3 DEF Good, Strongest, Backed, Quotes, Current
<1>5. graph = [c \in Competencies |-> n0]
  BY DEF Init, n0
<1>6. TypeOK
  BY <1>1, <1>5 DEF Init, TypeOK
<1>7. \A c \in Competencies : Good(graph[c]) /\ Quotes(graph[c], revision)
  BY <1>4, <1>5
<1>8. JudgesReadCurrent
  BY DEF Init, JudgesReadCurrent
<1>9. QED
  BY <1>6, <1>7, <1>8 DEF EvidenceInv

\* Every step advances the graph and keeps the invariant.
LEMMA EvidenceStep ==
  ASSUME EvidenceInv, [Next]_vars
  PROVE  EvidenceInv' /\ Advanced
<1>1. /\ revision \in [Turns -> Nat \cup {None}] /\ MaxRevision \in Nat
      /\ pending \in [Judges -> Runs \cup {None}]
  BY EvidenceAssumption DEF EvidenceInv, TypeOK, Runs
<1>2. ASSUME NEW t \in Turns, Answer(t)
      PROVE  EvidenceInv' /\ Advanced
  <2>1. Advanced
    BY <1>2, AnswerAdvances
  <2>2. revision' \in [Turns -> Nat \cup {None}] /\ pending' = Moved
    BY <1>1, <1>2 DEF Answer
  <2>3. QED
    BY <2>1, <2>2, SavingKeepsInv
<1>3. ASSUME NEW t \in Turns, Correct(t)
      PROVE  EvidenceInv' /\ Advanced
  <2>1. Advanced
    BY <1>3, CorrectAdvances
  <2>2. revision[t] \in Nat
    BY <1>1, <1>3 DEF Correct, Spoken
  <2>3. revision' \in [Turns -> Nat \cup {None}] /\ pending' = Moved
    BY <1>1, <1>3, <2>2 DEF Correct
  <2>4. QED
    BY <2>1, <2>3, SavingKeepsInv
<1>4. ASSUME NEW t \in Turns, NEW verdict, SubmitTool(t, verdict)
      PROVE  EvidenceInv' /\ Advanced
  <2>1. Advanced
    BY <1>4, SubmitToolAdvances
  <2>2. revision' \in [Turns -> Nat \cup {None}] /\ pending' = Moved
    BY <1>1, <1>4 DEF SubmitTool
  <2>3. QED
    BY <2>1, <2>2, SavingKeepsInv
<1>5. ASSUME NEW c \in Competencies, NEW t \in Turns, NEW o \in Observations, Observe(c, t, o)
      PROVE  EvidenceInv' /\ Advanced
  <2>1. Advanced
    BY <1>5, ObserveAdvances
  <2>2. revision' = revision /\ pending' = Moved
    BY <1>5 DEF Observe
  <2>3. QED
    BY <1>1, <2>1, <2>2, SavingKeepsInv
<1>6. ASSUME NEW j \in Judges, NEW t \in Turns, BeginReevaluation(j, t)
      PROVE  EvidenceInv' /\ Advanced
  <2>1. UNCHANGED <<graph, revision>> /\ pending' = [pending EXCEPT ![j] = Run(t, revision[t], FALSE)]
    BY <1>6 DEF BeginReevaluation
  <2>2. Advanced
    BY <2>1, UnchangedAdvances
  <2>3. Run(t, revision[t], FALSE) \in Runs
    BY <1>1, <1>6 DEF BeginReevaluation, Spoken, Run, Runs
  <2>4. pending' \in [Judges -> Runs \cup {None}]
    BY <1>1, <2>1, <2>3
  <2>5. Run(t, revision[t], FALSE).turn = t /\ Run(t, revision[t], FALSE).revision = revision[t]
    BY DEF Run
  <2>6. JudgesReadCurrent'
    BY <1>1, <2>1, <2>5 DEF EvidenceInv, JudgesReadCurrent
  <2>7. QED
    BY <1>1, <2>1, <2>2, <2>4, <2>6, StepKeepsInv
<1>7. ASSUME NEW j \in Judges, Reevaluated(j)
      PROVE  EvidenceInv' /\ Advanced
  <2>1. Advanced
    BY <1>7, ReevaluatedAdvances
  <2>2. revision' = revision /\ pending' = Done(j)
    BY <1>7 DEF Reevaluated
  <2>3. QED
    BY <1>1, <2>1, <2>2, SavingKeepsInv
<1>8. ASSUME NEW j \in Judges, ReevaluationFailed(j)
      PROVE  EvidenceInv' /\ Advanced
  <2>1. UNCHANGED <<graph, revision>> /\ pending' = Done(j)
    BY <1>8 DEF ReevaluationFailed
  <2>2. Advanced
    BY <2>1, UnchangedAdvances
  <2>3. QED
    BY <1>1, <2>1, <2>2, SavingKeepsInv
<1>9. ASSUME NEW j \in Judges, ReevaluationConflict(j)
      PROVE  EvidenceInv' /\ Advanced
  <2>1. UNCHANGED <<graph, revision>> /\ pending' = [pending EXCEPT ![j] = None]
    BY <1>9 DEF ReevaluationConflict
  <2>2. Advanced
    BY <2>1, UnchangedAdvances
  <2>3. pending' \in [Judges -> Runs \cup {None}]
    BY <1>1, <2>1
  <2>4. JudgesReadCurrent'
    BY <1>1, <2>1 DEF EvidenceInv, JudgesReadCurrent
  <2>5. QED
    BY <1>1, <2>1, <2>2, <2>3, <2>4, StepKeepsInv
<1>10. CASE UNCHANGED vars
  <2>1. UNCHANGED <<graph, revision>> /\ pending' = pending
    BY <1>10 DEF vars
  <2>2. Advanced
    BY <2>1, UnchangedAdvances
  <2>3. JudgesReadCurrent'
    BY <2>1 DEF EvidenceInv, JudgesReadCurrent
  <2>4. QED
    BY <1>1, <2>1, <2>2, <2>3, StepKeepsInv
<1>11. QED
  BY <1>2, <1>3, <1>4, <1>5, <1>6, <1>7, <1>8, <1>9, <1>10 DEF Next

LEMMA EvidenceInvHolds == Spec => []EvidenceInv
<1>1. EvidenceInv /\ [Next]_vars => EvidenceInv'
  BY EvidenceStep
<1>2. QED
  BY EvidenceInvInitially, <1>1, PTL DEF Spec
-----------------------------------------------------------------------------
(***************************************************************************)
(* The theorems.                                                           *)
(***************************************************************************)

\* A competency's state is the strongest of its active evidence, for any job, any
\* questions, any judges and evaluators and any order of their calls: the state that
\* apply_observation keeps step by step is the one that recompute_node would give.
THEOREM StatesAreStrongest == Spec => []StateIsStrongest
<1>1. EvidenceInv => StateIsStrongest
  BY DEF EvidenceInv, Good, Strongest, StateIsStrongest
<1>2. QED
  BY <1>1, EvidenceInvHolds, PTL

\* A confidence is always that of active evidence for the state beside it: neither
\* apply_observation nor recompute_node lets another item lend it.
THEOREM ConfidencesAreBacked == Spec => []ConfidenceIsBacked
<1>1. EvidenceInv => ConfidenceIsBacked
  BY DEF EvidenceInv, Good, Backed, ConfidenceIsBacked
<1>2. QED
  BY <1>1, EvidenceInvHolds, PTL

\* Active evidence of the semantic judge quotes the current text of its turn, although
\* reevaluate_evidence awaits the judge between load and save and does not look at the
\* transcript again: the version it loaded being the stored one is enough.
THEOREM SemanticEvidenceStaysCurrent == Spec => []SemanticEvidenceIsCurrent
<1>1. EvidenceInv => SemanticEvidenceIsCurrent
  BY DEF EvidenceInv, Quotes, Current, SemanticEvidenceIsCurrent
<1>2. QED
  BY <1>1, EvidenceInvHolds, PTL

\* A contradiction goes only when all evidence for it was the judge's and was superseded
\* in that step, by a correction or a re-evaluation.
THEOREM ContradictionsAreSticky == Spec => ContradictionIsSticky
<1>1. EvidenceInv /\ [Next]_vars =>
        [\A c \in Competencies :
           graph[c].state = Contradicted /\ graph'[c].state # Contradicted =>
             \A k \in Active(graph[c].evidence) : graph[c].evidence[k].state = Contradicted =>
               graph[c].evidence[k].semantic /\ ~graph'[c].evidence[k].active]_vars
  BY EvidenceStep DEF Advanced, Advances, Follows, GivesUp
<1>2. QED
  BY <1>1, EvidenceInvHolds, PTL DEF Spec, ContradictionIsSticky

\* No operation drops or rewrites an item of evidence, and what was superseded never
\* becomes active again.
THEOREM EvidenceIsNeverDropped == Spec => EvidenceIsKept
<1>1. EvidenceInv /\ [Next]_vars =>
        [\A c \in Competencies :
           LET old == graph[c].evidence
               new == graph'[c].evidence
           IN  /\ Len(old) <= Len(new)
               /\ \A k \in 1..Len(old) :
                    /\ new[k].turn = old[k].turn /\ new[k].state = old[k].state
                    /\ new[k].revision = old[k].revision
                    /\ new[k].active => old[k].active]_vars
  BY EvidenceStep DEF Advanced, Advances, Follows, Keeps
<1>2. QED
  BY <1>1, EvidenceInvHolds, PTL DEF Spec, EvidenceIsKept
=============================================================================
