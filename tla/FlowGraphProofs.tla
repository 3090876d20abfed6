---------------------------- MODULE FlowGraphProofs ----------------------------
(***************************************************************************)
(* Lemmas about flow definitions, for FlowPlan and FlowExecutor: the       *)
(* choices that the code makes by sorting are choices of one node, and     *)
(* what execution may reach is runnable.                                   *)
(***************************************************************************)
EXTENDS FlowGraph, FiniteSets, WellFoundedInduction, TLAPS

\* A nonempty set of indices has a least one, and Least is it.
LEMMA LeastIsLeast ==
  ASSUME NEW S, S \subseteq Nat, S # {}
  PROVE  Least(S) \in S /\ \A m \in S : Least(S) <= m
<1> DEFINE Less == OpToRel(<, Nat)
<1>1. \A x, y \in S : y < x => <<y, x>> \in Less
  BY DEF OpToRel
<1>2. IsWellFoundedOn(Less, Nat)
  BY NatLessThanWellFounded
<1> HIDE DEF Less
<1>3. PICK x \in S : \A y \in S : ~(<<y, x>> \in Less)
  BY <1>2, WFMin, Zenon
<1>4. ASSUME NEW y \in S PROVE x <= y
  <2>1. ~(y < x)
    BY <1>1, <1>3, Zenon
  <2> QED
    BY <2>1
<1> QED
  BY <1>4 DEF Least

\* Sorting by trigger, position and index always leaves one node first.
LEMMA FirstIsFirst ==
  ASSUME NEW f, IsFlow(f), NEW S, S \subseteq NodesOf(f), S # {}
  PROVE  First(f, S) \in S /\ \A b \in S \ {First(f, S)} : Before(f, First(f, S), b)
<1>1. \A n \in S : Rank(f, n) \in Nat /\ f.place[n] \in Nat /\ n \in Nat
  BY DEF IsFlow, NodesOf, Rank
<1> DEFINE Ranks == {Rank(f, n) : n \in S}
           r     == Least(Ranks)
           Top   == {n \in S : Rank(f, n) = r}
           Places == {f.place[n] : n \in Top}
           p     == Least(Places)
           Left  == {n \in Top : f.place[n] = p}
           a     == Least(Left)
<1>2. r \in Ranks /\ \A m \in Ranks : r <= m
  <2>1. Ranks \subseteq Nat /\ Ranks # {}
    BY <1>1
  <2> QED
    BY <2>1, LeastIsLeast
<1>3. p \in Places /\ \A m \in Places : p <= m
  <2>1. Places \subseteq Nat /\ Places # {}
    BY <1>1, <1>2
  <2> QED
    BY <2>1, LeastIsLeast
<1>4. a \in Left /\ \A m \in Left : a <= m
  <2>1. Left \subseteq Nat /\ Left # {}
    BY <1>1, <1>3
  <2> QED
    BY <2>1, LeastIsLeast
<1> HIDE DEF r, p, a
<1>5. a \in S
  BY <1>4
<1>6. ASSUME NEW b \in S \ {a} PROVE Before(f, a, b)
  <2>1. CASE Rank(f, b) # r
    <3>1. Rank(f, a) = r /\ r <= Rank(f, b)
      BY <1>2, <1>4
    <3>2. Rank(f, a) < Rank(f, b)
      BY <1>1, <1>5, <2>1, <3>1
    <3> QED
      BY <3>2 DEF Before
  <2>2. CASE Rank(f, b) = r /\ f.place[b] # p
    <3>1. Rank(f, a) = Rank(f, b) /\ f.place[a] = p /\ p <= f.place[b]
      BY <1>3, <1>4, <2>2
    <3>2. f.place[a] < f.place[b]
      BY <1>1, <1>5, <2>2, <3>1
    <3> QED
      BY <3>1, <3>2 DEF Before
  <2>3. CASE Rank(f, b) = r /\ f.place[b] = p
    <3>1. Rank(f, a) = Rank(f, b) /\ f.place[a] = f.place[b] /\ a <= b
      BY <1>4, <2>3
    <3>2. a < b
      BY <1>1, <1>5, <3>1
    <3> QED
      BY <3>1, <3>2 DEF Before
  <2> QED
    BY <2>1, <2>2, <2>3
<1>7. \E x \in S : \A b \in S \ {x} : Before(f, x, b)
  BY <1>5, <1>6
<1> QED
  BY <1>7 DEF First

\* What execution starts from, and where it goes after a failure, is runnable.
LEMMA FlowFacts ==
  ASSUME NEW f, IsFlow(f)
  PROVE  /\ Runnable(f) \subseteq NodesOf(f) /\ NodesOf(f) \subseteq Nat
         /\ StartIDs(f) \subseteq Runnable(f)
         /\ Runnable(f) # {} => StartIDs(f) # {}
         /\ ErrorTriggers(f) # {} =>
              /\ ErrorTrigger(f) \in Runnable(f)
              /\ f.kind[ErrorTrigger(f)] = "errorTrigger"
<1>1. Runnable(f) \subseteq NodesOf(f) /\ NodesOf(f) \subseteq Nat
  BY DEF Runnable, NodesOf, IsFlow
<1>2. Triggers(f) \subseteq Runnable(f) /\ Roots(f) \subseteq Runnable(f)
  BY DEF Triggers, Roots, Runnable
<1>3. Runnable(f) # {} => First(f, Runnable(f)) \in Runnable(f)
  BY <1>1, FirstIsFirst
<1>4. StartIDs(f) \subseteq Runnable(f) /\ (Runnable(f) # {} => StartIDs(f) # {})
  BY <1>2, <1>3 DEF StartIDs
<1>5. ErrorTriggers(f) # {} => ErrorTrigger(f) \in ErrorTriggers(f)
  BY <1>1, LeastIsLeast DEF ErrorTrigger, ErrorTriggers
<1>6. \A n \in ErrorTriggers(f) : n \in Runnable(f) /\ f.kind[n] = "errorTrigger"
  BY DEF ErrorTriggers, Runnable
<1> QED
  BY <1>1, <1>4, <1>5, <1>6

\* The start node that is taken next is one of those that are left.
LEMMA NextStartFacts ==
  ASSUME NEW f, IsFlow(f), NEW S, S \subseteq Runnable(f), S # {}
  PROVE  NextStartID(f, S) \in S
<1>1. S \subseteq NodesOf(f) /\ S \subseteq Nat
  BY FlowFacts
<1> QED
  BY <1>1, LeastIsLeast, FirstIsFirst DEF NextStartID
==============================================================================
