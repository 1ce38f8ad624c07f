-------------------------- MODULE AdjacencyProofs --------------------------
(***************************************************************************)
(* What check_adjacency() returns, for every sorted list of channels and   *)
(* every tolerance: without tolerance the longest run of hit wires, with   *)
(* it the size of a track whose gaps the tolerance paid for.               *)
(***************************************************************************)
EXTENDS AdjacencyLoop, FiniteSetTheorems, WellFoundedInduction, TLAPS

\* The entry compared with the i-th one is in the list: the wrap of the index
\* never leaves it.
LEMMA NextIsInTheList ==
  ASSUME NEW l, DOMAIN l = 1 .. Len(l), Len(l) \in Nat,
         NEW k \in 1 .. Len(l)
  PROVE  \E j \in 1 .. Len(l) : next_in(l, k) = l[j]
<1>1. (k % Len(l)) + 1 \in 1 .. Len(l)  OBVIOUS
<1> QED  BY <1>1 DEF next_in

\* The distance to the next wire is a natural number, whichever of the two
\* wires comes first.
LEMMA GapIsNatural ==
  ASSUME NEW c \in 0 .. ChannelModulus - 1, NEW d \in 0 .. ChannelModulus - 1
  PROVE  wire_gap(c, d) \in Nat
BY AdjacencyAssumption DEF wire_gap

\* The loop's numbers are natural numbers, and a track has no more wires than
\* hits were read.
LoopInv ==
  /\ i \in 0 .. Len(chanList)
  /\ v \in [adj : Nat, max : Nat, tol_count : Nat]
  /\ 1 <= v.adj /\ v.adj <= i + 1
  /\ v.max <= i

\* One iteration raises the track by at most one wire and records no more than
\* the track.
LEMMA IterateBounds ==
  ASSUME NEW w \in [adj : Nat, max : Nat, tol_count : Nat],
         NEW gap \in Nat, NEW tol \in Nat,
         NEW n \in Nat,
         1 <= w.adj, w.adj <= n + 1, w.max <= n
  PROVE  LET u == iterate(w, gap, tol)
         IN  /\ u \in [adj : Nat, max : Nat, tol_count : Nat]
             /\ 1 <= u.adj /\ u.adj <= n + 2
             /\ u.max <= n + 1
<1> DEFINE u == iterate(w, gap, tol)
<1>1. CASE gap = 0
  <2>1. u = w  BY <1>1 DEF iterate, bridges
  <2> QED  BY <2>1
<1>2. CASE gap = 1
  <2>1. u = [w EXCEPT !.adj = @ + 1]  BY <1>2 DEF iterate, bridges
  <2> QED  BY <2>1
<1>3. CASE gap \notin {0, 1} /\ bridges(w, gap, tol)
  <2>1. u = [adj |-> w.adj + 1, max |-> w.max, tol_count |-> w.tol_count + gap]
    BY <1>3 DEF iterate, bridges
  <2> QED  BY <2>1
<1>4. CASE gap \notin {0, 1} /\ ~ bridges(w, gap, tol)
  <2>1. u = restart(w)  BY <1>4 DEF iterate, bridges
  <2> QED  BY <2>1 DEF restart
<1> QED  BY <1>1, <1>2, <1>3, <1>4

\* LoopInv is inductive together with what the list and the tolerance are.
LoopIInv ==
  /\ chanList \in ChanLists
  /\ m_adj_tolerance \in Tolerances
  /\ LoopInv

LEMMA LoopInit == Init => LoopIInv
<1> USE AdjacencyLoopAssumption
<1> SUFFICES ASSUME Init PROVE LoopIInv
  OBVIOUS
<1>1. m_adj_tolerance \in Nat /\ Len(chanList) \in Nat  BY DEF Init
<1> QED  BY <1>1 DEF Init, Start, LoopIInv, LoopInv

LEMMA LoopNext == LoopIInv /\ [Next]_vars => LoopIInv'
<1> USE AdjacencyLoopAssumption
<1> SUFFICES ASSUME LoopIInv, [Next]_vars PROVE LoopIInv'
  OBVIOUS
<1>1. CASE Iteration
  <2> DEFINE c == chanList[i + 1]
             d == next_in(chanList, i + 1)
  <2>1. /\ i \in Nat /\ Len(chanList) \in Nat /\ m_adj_tolerance \in Nat
        /\ i + 1 \in 1 .. Len(chanList)
    BY <1>1 DEF Iteration, LoopIInv, LoopInv
  <2>2. c \in 0 .. ChannelModulus - 1
    BY <2>1 DEF LoopIInv
  <2>3. d \in 0 .. ChannelModulus - 1
    BY <2>1, NextIsInTheList DEF LoopIInv
  <2>4. wire_gap(c, d) \in Nat
    BY <2>2, <2>3, GapIsNatural
  <2>5. v' = iterate(v, wire_gap(c, d), m_adj_tolerance)
    BY <1>1 DEF Iteration
  <2>6. /\ v' \in [adj : Nat, max : Nat, tol_count : Nat]
        /\ 1 <= v'.adj /\ v'.adj <= i + 2
        /\ v'.max <= i + 1
    BY <2>1, <2>4, <2>5, IterateBounds DEF LoopIInv, LoopInv
  <2>7. i' = i + 1 /\ UNCHANGED <<chanList, m_adj_tolerance>>
    BY <1>1 DEF Iteration
  <2> QED  BY <2>1, <2>6, <2>7 DEF LoopIInv, LoopInv
<1>2. CASE UNCHANGED vars
  BY <1>2 DEF vars, LoopIInv, LoopInv
<1> QED  BY <1>1, <1>2 DEF Next

-----------------------------------------------------------------------------
(* The loop computes the function *)

\* Induction, with a set in the place of a predicate: a set of naturals with 0
\* and all successors is all of them.
LEMMA NaturalsBySuccessor ==
  ASSUME NEW T, T \subseteq Nat, 0 \in T, \A n \in T : n + 1 \in T
  PROVE  T = Nat
<1> DEFINE R == { ss \in Nat \X Nat : ss[1] < ss[2] }
           Rest == Nat \ T
<1>1. IsWellFoundedOn(R, Nat)  BY NatLessThanWellFounded DEF OpToRel
<1> SUFFICES ASSUME Rest # {} PROVE FALSE
  OBVIOUS
<1> HIDE DEF R
<1>2. PICK m \in Rest : \A k \in Rest : ~ (<<k, m>> \in R)
  BY <1>1, WFMin
<1>3. m - 1 \in Rest /\ m - 1 < m /\ m \in Nat /\ m - 1 \in Nat  OBVIOUS
<1>4. <<m - 1, m>> \in R
  <2>1. <<m - 1, m>> \in Nat \X Nat /\ <<m - 1, m>>[1] = m - 1 /\ <<m - 1, m>>[2] = m
    BY <1>3
  <2> QED  BY <1>3, <2>1 DEF R
<1> QED  BY <1>2, <1>3, <1>4

\* The recursive definition has a solution, which begins with Start and goes on
\* by one iteration at a time.
Step(l, tol, n, w) == iterate(w, wire_gap(l[n], next_in(l, n)), tol)

LEMMA AfterIterations ==
  ASSUME NEW l, Len(l) \in Nat, NEW tol
  PROVE  LET after == after_iterations(l, tol)
         IN  /\ after[0] = Start
             /\ \A n \in 1 .. Len(l) : after[n] = Step(l, tol, n, after[n - 1])
<1> DEFINE Solves(f, k) ==
             f = [n \in 0 .. k |-> IF n = 0 THEN Start ELSE Step(l, tol, n, f[n - 1])]
           T == { k \in Nat : \E f : Solves(f, k) }
<1>1. 0 \in T
  <2>1. Solves([n \in 0 .. 0 |-> Start], 0)  OBVIOUS
  <2> QED  BY <2>1
<1>2. ASSUME NEW k \in T PROVE k + 1 \in T
  <2>1. PICK f : Solves(f, k)  OBVIOUS
  <2> DEFINE g == [n \in 0 .. (k + 1) |->
                     IF n = k + 1 THEN Step(l, tol, k + 1, f[k]) ELSE f[n]]
  <2>2. ASSUME NEW n \in 0 .. (k + 1)
        PROVE  g[n] = IF n = 0 THEN Start ELSE Step(l, tol, n, g[n - 1])
    <3>1. CASE n = k + 1
      <4>1. n # 0 /\ n - 1 = k /\ k \in 0 .. (k + 1) /\ k # k + 1  BY <3>1
      <4>2. g[k] = f[k]  BY <4>1
      <4> QED  BY <3>1, <4>1, <4>2
    <3>2. CASE n # k + 1
      <4>1. n \in 0 .. k /\ g[n] = f[n]  BY <3>2
      <4>2. CASE n = 0  BY <2>1, <4>1, <4>2
      <4>3. CASE n # 0
        <5>1. n - 1 \in 0 .. (k + 1) /\ n - 1 # k + 1  BY <4>1, <4>3
        <5>2. g[n - 1] = f[n - 1]  BY <5>1
        <5> QED  BY <2>1, <4>1, <4>3, <5>2
      <4> QED  BY <4>2, <4>3
    <3> QED  BY <3>1, <3>2
  <2>3. Solves(g, k + 1)
    <3> HIDE DEF g
    <3>1. g = [n \in 0 .. (k + 1) |-> g[n]]  BY DEF g
    <3> QED  BY <2>2, <3>1
  <2>4. k + 1 \in Nat  OBVIOUS
  <2> HIDE DEF g, Solves
  <2> QED  BY <2>3, <2>4
<1>3. Len(l) \in T
  <2> HIDE DEF T
  <2>1. T \subseteq Nat  BY DEF T
  <2> QED  BY <1>1, <1>2, <2>1, NaturalsBySuccessor
<1>4. PICK f : Solves(f, Len(l))  BY <1>3
<1> DEFINE after == after_iterations(l, tol)
<1>5. after = CHOOSE g : Solves(g, Len(l))  BY DEF after_iterations, Step
<1> HIDE DEF after, Solves
<1>6. Solves(after, Len(l))  BY <1>4, <1>5
<1> USE DEF Solves
<1>7. after[0] = Start  BY <1>6
<1>8. ASSUME NEW n \in 1 .. Len(l) PROVE after[n] = Step(l, tol, n, after[n - 1])
  BY <1>6
<1> QED  BY <1>7, <1>8 DEF after

\* The recursive function that stands for the loop in the maker's module is the
\* loop of this one, for all lists and tolerances: a link between two forms of
\* one definition.
LEMMA LoopComputes == Spec => [](Done => v.max = check_adjacency(chanList, m_adj_tolerance))
<1> USE AdjacencyLoopAssumption
<1> DEFINE Agrees == v = after_iterations(chanList, m_adj_tolerance)[i]
           AInv == LoopIInv /\ Agrees
<1>1. Init => AInv
  <2> SUFFICES ASSUME Init PROVE AInv
    OBVIOUS
  <2>1. Len(chanList) \in Nat  BY DEF Init
  <2> QED  BY <2>1, AfterIterations, LoopInit DEF Init
<1>2. AInv /\ [Next]_vars => AInv'
  <2> SUFFICES ASSUME AInv, [Next]_vars PROVE AInv'
    OBVIOUS
  <2>1. LoopIInv'  BY LoopNext
  <2>2. CASE Iteration
    <3>1. /\ i \in Nat /\ Len(chanList) \in Nat /\ i + 1 \in 1 .. Len(chanList)
          /\ i' = i + 1 /\ UNCHANGED <<chanList, m_adj_tolerance>> /\ (i + 1) - 1 = i
      BY <2>2 DEF Iteration, LoopIInv, LoopInv
    <3>2. v' = Step(chanList, m_adj_tolerance, i + 1, v)  BY <2>2 DEF Iteration, Step
    <3> QED  BY <2>1, <3>1, <3>2, AfterIterations
  <2>3. CASE UNCHANGED vars  BY <2>1, <2>3 DEF vars
  <2> QED  BY <2>2, <2>3 DEF Next
<1>3. AInv => (Done => v.max = check_adjacency(chanList, m_adj_tolerance))
  BY DEF Done, check_adjacency
<1> QED  BY <1>1, <1>2, <1>3, PTL DEF Spec

-----------------------------------------------------------------------------
(* The result is the size of a track *)

\* The hit wires of W between lo and hi, and whether they are a track: as
\* WiresIn and IsTrack, for any set of wires.
HitsIn(W, lo, hi) == Cardinality(W \cap (lo .. hi))

TrackOf(W, lo, hi) ==
  /\ lo \in W /\ hi \in W /\ lo <= hi
  /\ \A w \in W : w \in lo .. (hi - 1) => \E x \in W : x \in (w + 1) .. (w + 5)

\* As GapsIn, and the gaps and the missing wires counted together.
GapsOf(W, lo, hi) == { w \in W \cap (lo .. (hi - 1)) : w + 1 \notin W }
ChargeOf(W, lo, hi) == ((hi - lo + 1) - HitsIn(W, lo, hi)) + Cardinality(GapsOf(W, lo, hi))

\* Each gap was entered while there was tolerance left; without tolerance
\* tracks are runs of consecutive wires.
PaidFor(W, tol, lo, hi) ==
  /\ \A w \in GapsOf(W, lo, hi) : ChargeOf(W, lo, w) < tol
  /\ tol = 0 => lo .. hi \subseteq W

\* What the loop knows when it has come to the wire `cur' with u in its
\* variables: the track it follows began at lo, with no hit on the wire before;
\* the counter holds what its gaps are charged with; max is the size of a track,
\* and no run of consecutive wires before lo is longer.
Following(W, tol, lo, cur, u) ==
  /\ TrackOf(W, lo, cur) /\ lo - 1 \notin W
  /\ u.adj = HitsIn(W, lo, cur)
  /\ u.tol_count = ChargeOf(W, lo, cur)
  /\ PaidFor(W, tol, lo, cur)
  /\ \A a, b \in W : (a <= b /\ b < lo /\ a .. b \subseteq W) => b - a + 1 <= u.max
  /\ u.max = 0 \/ \E a, b \in W : /\ TrackOf(W, a, b) /\ HitsIn(W, a, b) = u.max
                                  /\ PaidFor(W, tol, a, b)

\* What it ends with.
Found(W, tol, u) ==
  /\ \E a, b \in W : /\ TrackOf(W, a, b) /\ HitsIn(W, a, b) = u.max
                     /\ PaidFor(W, tol, a, b)
  /\ \A a, b \in W : (a <= b /\ a .. b \subseteq W) => b - a + 1 <= u.max

LEMMA HitsInType ==
  ASSUME NEW W \in SUBSET Nat, NEW lo \in Nat, NEW hi \in Nat
  PROVE  IsFiniteSet(W \cap (lo .. hi)) /\ HitsIn(W, lo, hi) \in Nat
<1>1. IsFiniteSet(lo .. hi)  BY FS_Interval
<1>2. IsFiniteSet(W \cap (lo .. hi))  BY <1>1, FS_Intersection
<1> QED  BY <1>2, FS_CardinalityType DEF HitsIn

LEMMA HitsInRun ==
  ASSUME NEW W \in SUBSET Nat, NEW lo \in Nat, NEW hi \in Nat, lo .. hi \subseteq W, lo <= hi
  PROVE  HitsIn(W, lo, hi) = hi - lo + 1
<1>1. W \cap (lo .. hi) = lo .. hi  OBVIOUS
<1>2. Cardinality(lo .. hi) = hi - lo + 1  BY FS_Interval
<1> QED  BY <1>1, <1>2, Zenon DEF HitsIn

\* A run of consecutive wires has at most the hits around it.
LEMMA RunWithin ==
  ASSUME NEW W \in SUBSET Nat, NEW lo \in Nat, NEW hi \in Nat,
         NEW a \in W, NEW b \in W, a .. b \subseteq W, lo <= a, a <= b, b <= hi
  PROVE  b - a + 1 <= HitsIn(W, lo, hi)
<1>1. a .. b \in SUBSET (W \cap (lo .. hi))  OBVIOUS
<1>2. Cardinality(a .. b) = b - a + 1  BY FS_Interval
<1>3. Cardinality(a .. b) <= Cardinality(W \cap (lo .. hi))  BY <1>1, HitsInType, FS_Subset
<1> QED  BY <1>2, <1>3 DEF HitsIn

\* A single wire is a track of one.
LEMMA OneWire ==
  ASSUME NEW W \in SUBSET Nat, NEW lo \in W
  PROVE  /\ TrackOf(W, lo, lo) /\ HitsIn(W, lo, lo) = 1
         /\ ChargeOf(W, lo, lo) = 0 /\ \A tol : PaidFor(W, tol, lo, lo)
<1>1. lo \in Nat /\ lo .. lo = {lo}  OBVIOUS
<1>2. lo .. lo \subseteq W  BY <1>1
<1>5. HitsIn(W, lo, lo) = lo - lo + 1  BY <1>1, <1>2, HitsInRun
<1>3. HitsIn(W, lo, lo) = 1  BY <1>1, <1>5
<1>4. lo .. (lo - 1) = {}  BY <1>1
<1>6. GapsOf(W, lo, lo) = {}  BY <1>4 DEF GapsOf
<1>7. ChargeOf(W, lo, lo) = 0
  <2>1. Cardinality(GapsOf(W, lo, lo)) = 0  BY <1>6, FS_EmptySet
  <2>2. (lo - lo + 1) - 1 + 0 = 0  BY <1>1
  <2> QED  BY <1>3, <2>1, <2>2, Zenon DEF ChargeOf
<1>8. \A tol : PaidFor(W, tol, lo, lo)  BY <1>2, <1>6 DEF PaidFor
<1>9. TrackOf(W, lo, lo)  BY <1>1, <1>4 DEF TrackOf
<1> QED  BY <1>3, <1>7, <1>8, <1>9

\* A wire in reach joins the track.
LEMMA TrackGrows ==
  ASSUME NEW W \in SUBSET Nat, NEW tol, NEW lo \in W, NEW cur \in W, NEW next \in W,
         NEW u \in [adj : Nat, max : Nat, tol_count : Nat],
         NEW w \in [adj : Nat, max : Nat, tol_count : Nat],
         Following(W, tol, lo, cur, u),
         cur < next, next <= cur + 5,
         \A x \in W : x <= cur \/ next <= x,
         w.adj = u.adj + 1, w.max = u.max,
         \/ next = cur + 1 /\ w.tol_count = u.tol_count
         \/ /\ next # cur + 1 /\ u.tol_count < tol /\ tol # 0
            /\ w.tol_count = u.tol_count + (next - cur)
  PROVE  Following(W, tol, lo, next, w)
<1>0. lo \in Nat /\ cur \in Nat /\ next \in Nat /\ lo <= cur
  BY DEF Following, TrackOf
<1>1. TrackOf(W, lo, next)
  <2>1. ASSUME NEW x \in W, x \in lo .. (next - 1) PROVE \E y \in W : y \in (x + 1) .. (x + 5)
    <3>1. x <= cur  BY <1>0, <2>1
    <3>2. CASE x = cur
      <4>1. next \in (x + 1) .. (x + 5)  BY <1>0, <3>2
      <4> QED  BY <4>1
    <3>3. CASE x # cur
      <4>1. x \in lo .. (cur - 1)  BY <1>0, <2>1, <3>1, <3>3
      <4> QED  BY <4>1 DEF Following, TrackOf
    <3> QED  BY <3>2, <3>3
  <2>2. lo <= next  BY <1>0
  <2> QED  BY <2>1, <2>2 DEF TrackOf
<1>2. HitsIn(W, lo, next) = HitsIn(W, lo, cur) + 1
  <2>1. W \cap (lo .. next) = (W \cap (lo .. cur)) \cup {next}
    BY <1>0
  <2>2. next \notin W \cap (lo .. cur)  BY <1>0
  <2>3. IsFiniteSet(W \cap (lo .. cur))  BY <1>0, HitsInType
  <2>4. Cardinality((W \cap (lo .. cur)) \cup {next}) = Cardinality(W \cap (lo .. cur)) + 1
    BY <2>2, <2>3, FS_AddElement
  <2> QED  BY <2>1, <2>4, Zenon DEF HitsIn
<1>3. w.tol_count = ChargeOf(W, lo, next) /\ PaidFor(W, tol, lo, next)
  <2>0. PICK h \in Nat : h = HitsIn(W, lo, cur)  BY <1>0, HitsInType
  <2>1. HitsIn(W, lo, next) = h + 1  BY <1>2, <2>0
  <2>2. PICK G : G = GapsOf(W, lo, cur)  OBVIOUS
  <2>3. IsFiniteSet(G)
    <3>1. G \in SUBSET (W \cap (lo .. cur))
      BY <1>0, <2>2 DEF GapsOf
    <3> QED  BY <1>0, <3>1, HitsInType, FS_Subset
  <2>4. PICK g \in Nat : g = Cardinality(G)  BY <2>3, FS_CardinalityType
  <2>5. u.tol_count = ((cur - lo + 1) - h) + g
    BY <2>0, <2>2, <2>4 DEF Following, ChargeOf
  <2>6. PICK t \in Nat : t = u.tol_count  OBVIOUS
  <2>7. ASSUME NEW x \in W, x # cur
        PROVE  x \in GapsOf(W, lo, next) <=> x \in G
    <3>1. x \in lo .. (next - 1) <=> x \in lo .. (cur - 1)  BY <1>0, <2>7
    <3> QED  BY <2>2, <3>1 DEF GapsOf
  <2>8. cur \in lo .. (next - 1) /\ cur \notin G  BY <1>0, <2>2 DEF GapsOf
  <2>9. \A x \in G : ChargeOf(W, lo, x) < tol  BY <2>2 DEF Following, PaidFor
  <2>10. CASE next = cur + 1
    <3>1. cur \notin GapsOf(W, lo, next)  BY <2>10 DEF GapsOf
    <3>2. GapsOf(W, lo, next) = G  BY <2>2, <2>7, <2>8, <3>1 DEF GapsOf
    <3>3. ChargeOf(W, lo, next) = ((next - lo + 1) - (h + 1)) + g
      BY <2>1, <2>4, <3>2 DEF ChargeOf
    <3>4. w.tol_count = t /\ t = ((cur - lo + 1) - h) + g  BY <2>5, <2>6, <2>10
    <3>5. ((next - lo + 1) - (h + 1)) + g = ((cur - lo + 1) - h) + g  BY <1>0, <2>10
    <3>6. tol = 0 => lo .. next \subseteq W
      <4> SUFFICES ASSUME tol = 0, NEW x \in lo .. next PROVE x \in W
        OBVIOUS
      <4>1. x \in lo .. cur \/ x = next  BY <1>0, <2>10
      <4> QED  BY <4>1 DEF Following, PaidFor
    <3> QED  BY <2>9, <3>2, <3>3, <3>4, <3>5, <3>6 DEF PaidFor
  <2>11. CASE next # cur + 1
    <3>1. cur + 1 \notin W
      <4>1. ~ (cur + 1 <= cur) /\ ~ (next <= cur + 1)  BY <1>0, <2>11
      <4> QED  BY <4>1
    <3>2. GapsOf(W, lo, next) = G \cup {cur}
      <4>1. cur \in GapsOf(W, lo, next)  BY <2>8, <3>1 DEF GapsOf
      <4>2. G \subseteq W /\ GapsOf(W, lo, next) \subseteq W  BY <2>2 DEF GapsOf
      <4> QED  BY <2>7, <4>1, <4>2
    <3>3. Cardinality(G \cup {cur}) = g + 1  BY <2>3, <2>4, <2>8, FS_AddElement
    <3>4. ChargeOf(W, lo, next) = ((next - lo + 1) - (h + 1)) + (g + 1)
      BY <2>1, <3>2, <3>3 DEF ChargeOf
    <3>5. w.tol_count = t + (next - cur) /\ t = ((cur - lo + 1) - h) + g
      BY <2>5, <2>6, <2>11
    <3>6. ((next - lo + 1) - (h + 1)) + (g + 1) = (((cur - lo + 1) - h) + g) + (next - cur)
      BY <1>0
    <3>7. ChargeOf(W, lo, cur) < tol /\ tol # 0  BY <2>11 DEF Following
    <3> QED  BY <2>9, <3>2, <3>4, <3>5, <3>6, <3>7 DEF PaidFor
  <2> QED  BY <2>10, <2>11
<1>4. /\ lo - 1 \notin W
      /\ \A a, b \in W : (a <= b /\ b < lo /\ a .. b \subseteq W) => b - a + 1 <= u.max
      /\ u.max = 0 \/ \E a, b \in W : /\ TrackOf(W, a, b) /\ HitsIn(W, a, b) = u.max
                                      /\ PaidFor(W, tol, a, b)
      /\ u.adj = HitsIn(W, lo, cur)
  BY DEF Following
<1> QED  BY <1>1, <1>2, <1>3, <1>4 DEF Following

\* Where a track ends, max is the size of one, and no run of consecutive wires
\* up to there is longer: none crosses the beginning of the track.
LEMMA TrackEnds ==
  ASSUME NEW W \in SUBSET Nat, NEW tol, NEW lo \in W, NEW cur \in W,
         NEW u \in [adj : Nat, max : Nat, tol_count : Nat],
         Following(W, tol, lo, cur, u)
  PROVE  LET w == restart(u)
         IN  /\ w \in [adj : Nat, max : Nat, tol_count : Nat]
             /\ w.adj = 1 /\ w.tol_count = 0
             /\ \E a, b \in W : /\ TrackOf(W, a, b) /\ HitsIn(W, a, b) = w.max
                                /\ PaidFor(W, tol, a, b)
             /\ \A a, b \in W :
                  (a <= b /\ b <= cur /\ a .. b \subseteq W) => b - a + 1 <= w.max
<1>0. lo \in Nat /\ cur \in Nat /\ lo <= cur /\ lo - 1 \notin W
      /\ TrackOf(W, lo, cur) /\ u.adj = HitsIn(W, lo, cur)
      /\ PaidFor(W, tol, lo, cur)
  BY DEF Following, TrackOf
<1>1. PICK w : w = restart(u)  OBVIOUS
<1>2. /\ w \in [adj : Nat, max : Nat, tol_count : Nat] /\ w.adj = 1 /\ w.tol_count = 0
      /\ w.max = IF u.adj > u.max THEN u.adj ELSE u.max
  BY <1>1 DEF restart
<1>3. \E a, b \in W : /\ TrackOf(W, a, b) /\ HitsIn(W, a, b) = w.max
                      /\ PaidFor(W, tol, a, b)
  <2>1. CASE u.adj > u.max  BY <1>0, <1>2, <2>1
  <2>2. CASE ~ (u.adj > u.max)
    <3>1. u.max # 0
      <4>1. 1 <= HitsIn(W, lo, cur)
        <5>1. lo .. lo \subseteq W /\ lo - lo + 1 = 1  BY <1>0
        <5>3. lo \in W /\ lo <= lo  BY <1>0
        <5>2. lo - lo + 1 <= HitsIn(W, lo, cur)
          BY <1>0, <5>1, <5>3, RunWithin, Zenon
        <5> QED  BY <5>1, <5>2, Zenon
      <4> QED  BY <1>0, <2>2, <4>1
    <3>2. w.max = u.max  BY <1>2, <2>2
    <3> QED  BY <3>1, <3>2 DEF Following
  <2> QED  BY <2>1, <2>2
<1>4. ASSUME NEW a \in W, NEW b \in W, a <= b, b <= cur, a .. b \subseteq W
      PROVE  b - a + 1 <= w.max
  <2>0. a \in Nat /\ b \in Nat /\ u.adj \in Nat /\ u.max \in Nat  OBVIOUS
  <2>1. CASE b < lo
    <3>1. b - a + 1 <= u.max  BY <1>4, <2>1 DEF Following
    <3>2. u.max <= w.max  BY <1>2, <2>0
    <3> QED  BY <1>2, <2>0, <3>1, <3>2
  <2>2. CASE lo <= b
    <3>1. lo <= a
      <4>1. lo - 1 \notin a .. b  BY <1>0, <1>4
      <4> QED  BY <1>0, <2>0, <2>2, <4>1
    <3>4. b - a + 1 <= HitsIn(W, lo, cur)  BY <1>0, <1>4, <3>1, RunWithin
    <3>2. b - a + 1 <= u.adj  BY <1>0, <3>4
    <3>3. u.adj <= w.max  BY <1>2, <2>0
    <3> QED  BY <1>2, <2>0, <3>2, <3>3
  <2> QED  BY <1>0, <2>0, <2>1, <2>2
<1> QED  BY <1>1, <1>2, <1>3, <1>4

\* The next wire, out of reach or without tolerance left, begins a track.
LEMMA TrackBegins ==
  ASSUME NEW W \in SUBSET Nat, NEW tol, NEW lo \in W, NEW cur \in W, NEW next \in W,
         NEW u \in [adj : Nat, max : Nat, tol_count : Nat],
         Following(W, tol, lo, cur, u),
         \A x \in W : x <= cur \/ next <= x,
         next = 0 \/ cur + 1 < next
  PROVE  Following(W, tol, next, next, restart(u))
<1>0. lo \in Nat /\ cur \in Nat /\ next \in Nat  OBVIOUS
<1>1. PICK w \in [adj : Nat, max : Nat, tol_count : Nat] :
        /\ w = restart(u) /\ w.adj = 1 /\ w.tol_count = 0
        /\ \E a, b \in W : /\ TrackOf(W, a, b) /\ HitsIn(W, a, b) = w.max
                           /\ PaidFor(W, tol, a, b)
        /\ \A a, b \in W : (a <= b /\ b <= cur /\ a .. b \subseteq W) => b - a + 1 <= w.max
  BY TrackEnds
<1>2. next - 1 \notin W
  <2>1. CASE next = 0
    <3>1. next - 1 \notin Nat  BY <2>1
    <3> QED  BY <3>1
  <2>2. CASE cur + 1 < next
    <3>1. ~ (next - 1 <= cur) /\ ~ (next <= next - 1)  BY <1>0, <2>2
    <3> QED  BY <3>1
  <2> QED  BY <2>1, <2>2
<1>3. \A a, b \in W : (a <= b /\ b < next /\ a .. b \subseteq W) => b - a + 1 <= w.max
  <2>1. \A b \in W : b < next => b <= cur  BY <1>0
  <2> QED  BY <1>1, <2>1
<1>4. /\ TrackOf(W, next, next) /\ HitsIn(W, next, next) = 1
      /\ ChargeOf(W, next, next) = 0 /\ PaidFor(W, tol, next, next)
  BY OneWire
<1> QED  BY <1>1, <1>2, <1>3, <1>4 DEF Following

\* A number below m is its own remainder; one from 1 to m below 0 has the
\* remainder m above it.
LEMMA RemainderOfSmall ==
  ASSUME NEW m \in Nat \ {0}, NEW d \in Int, -m <= d, d < m
  PROVE  d % m = IF d < 0 THEN d + m ELSE d
<1>1. PICK q \in Int, r \in 0 .. m - 1 : r = d % m /\ d = m * q + r
  <2>1. d % m \in 0 .. m - 1  OBVIOUS
  <2>2. d = m * (d \div m) + (d % m) /\ d \div m \in Int  OBVIOUS
  <2> QED  BY <2>1, <2>2
<1>2. m * q \in Int  OBVIOUS
<1>3. CASE q >= 1
  <2>1. m * q >= m  BY <1>3
  <2> QED  BY <1>1, <1>2, <2>1
<1>4. CASE q = 0
  <2>1. m * q = 0  BY <1>4
  <2> QED  BY <1>1, <2>1
<1>5. CASE q = -1
  <2>1. m * q = -m  BY <1>5
  <2> QED  BY <1>1, <2>1
<1>6. CASE q <= -2
  <2>1. m * q <= (-2) * m  BY <1>6
  <2>2. (-2) * m = -(m + m)  OBVIOUS
  <2> QED  BY <1>1, <1>2, <2>1, <2>2
<1> QED  BY <1>3, <1>4, <1>5, <1>6

\* One iteration before the last: the track goes on to the next wire, or ends
\* and another begins there.
LEMMA IterationFollows ==
  ASSUME NEW W \in SUBSET (0 .. ChannelModulus - 1), NEW tol \in Nat,
         NEW lo \in W, NEW cur \in W, NEW next \in W,
         NEW u \in [adj : Nat, max : Nat, tol_count : Nat],
         Following(W, tol, lo, cur, u),
         cur <= next, \A x \in W : x <= cur \/ next <= x
  PROVE  \E new \in W : Following(W, tol, new, next, iterate(u, wire_gap(cur, next), tol))
<1>0. /\ lo \in Nat /\ cur \in Nat /\ next \in Nat /\ W \in SUBSET Nat
      /\ ChannelModulus \in Nat /\ ChannelModulus > 8
      /\ cur < ChannelModulus /\ next < ChannelModulus
  BY AdjacencyAssumption
<1>1. PICK gap : gap = wire_gap(cur, next)  OBVIOUS
<1>2. gap \in Nat /\ (next = 0 => gap = ChannelModulus - 1) /\ (next # 0 => gap = next - cur)
  <2>1. next # 0 => gap = next - cur
    <3>1. next - cur \in Int /\ -ChannelModulus <= next - cur /\ next - cur < ChannelModulus
          /\ ~ (next - cur < 0)
      BY <1>0
    <3>2. (next - cur) % ChannelModulus = next - cur  BY <1>0, <3>1, RemainderOfSmall
    <3> QED  BY <1>1, <3>2 DEF wire_gap
  <2>2. next = 0 => gap = ChannelModulus - 1  BY <1>1 DEF wire_gap
  <2> QED  BY <1>0, <2>1, <2>2
<1>3. CASE gap = 0
  <2>1. next = cur  BY <1>0, <1>2, <1>3
  <2>2. iterate(u, gap, tol) = u  BY <1>3 DEF iterate, bridges
  <2> QED  BY <1>1, <2>1, <2>2
<1>4. CASE gap = 1 \/ (gap # 0 /\ bridges(u, gap, tol))
  <2>1. PICK w : w = iterate(u, gap, tol)  OBVIOUS
  <2>2. w \in [adj : Nat, max : Nat, tol_count : Nat] /\ w.adj = u.adj + 1 /\ w.max = u.max
    <3>1. CASE gap = 1
      <4>1. w = [u EXCEPT !.adj = @ + 1]  BY <2>1, <3>1 DEF iterate, bridges
      <4> QED  BY <4>1
    <3>2. CASE gap # 1 /\ gap # 0 /\ bridges(u, gap, tol)
      <4>1. w = [u EXCEPT !.adj = @ + 1, !.tol_count = @ + gap]
        BY <2>1, <3>2 DEF iterate, bridges
      <4>2. w = [adj |-> u.adj + 1, max |-> u.max, tol_count |-> u.tol_count + gap]
        BY <4>1
      <4> QED  BY <1>2, <4>2
    <3> QED  BY <1>4, <3>1, <3>2
  <2>3. /\ gap \in 1 .. 5
        /\ \/ gap = 1 /\ w.tol_count = u.tol_count
           \/ /\ gap # 1 /\ u.tol_count < tol /\ tol # 0
              /\ w.tol_count = u.tol_count + gap
    <3>1. u.tol_count \in Nat  OBVIOUS
    <3>2. CASE gap = 1
      <4>1. w = [u EXCEPT !.adj = @ + 1]  BY <2>1, <3>2 DEF iterate, bridges
      <4> QED  BY <3>2, <4>1
    <3>3. CASE gap # 1
      <4>1. w = [u EXCEPT !.adj = @ + 1, !.tol_count = @ + gap]
        BY <1>4, <2>1, <3>3 DEF iterate, bridges
      <4>2. w.tol_count = u.tol_count + gap  BY <4>1
      <4>3. gap \in 2 .. 5 /\ u.tol_count < tol  BY <1>4, <3>3 DEF bridges
      <4> QED  BY <3>1, <3>3, <4>2, <4>3
    <3> QED  BY <3>2, <3>3
  <2>4. next # 0  BY <1>0, <1>2, <2>3
  <2>5. /\ cur < next /\ next <= cur + 5
        /\ \/ next = cur + 1 /\ w.tol_count = u.tol_count
           \/ /\ next # cur + 1 /\ u.tol_count < tol /\ tol # 0
              /\ w.tol_count = u.tol_count + (next - cur)
    BY <1>0, <1>2, <2>3, <2>4
  <2>6. Following(W, tol, lo, next, w)  BY <1>0, <2>2, <2>5, TrackGrows
  <2> QED  BY <1>1, <2>1, <2>6
<1>5. CASE gap \notin {0, 1} /\ ~ bridges(u, gap, tol)
  <2>1. iterate(u, gap, tol) = restart(u)  BY <1>5 DEF iterate, bridges
  <2>2. next = 0 \/ cur + 1 < next  BY <1>0, <1>2, <1>5
  <2>3. Following(W, tol, next, next, restart(u))  BY <1>0, <2>2, TrackBegins
  <2> QED  BY <1>1, <2>1, <2>3
<1> QED  BY <1>3, <1>4, <1>5

\* The last iteration compares with the first wire of the list: it ends the
\* track, unless it bridges, with tolerance, from one end of the channel
\* numbers to the other.
LEMMA LastIteration ==
  ASSUME NEW W \in SUBSET (0 .. ChannelModulus - 1), NEW tol \in Nat,
         NEW lo \in W, NEW cur \in W, NEW first \in W,
         NEW u \in [adj : Nat, max : Nat, tol_count : Nat],
         Following(W, tol, lo, cur, u),
         first < cur, \A x \in W : x <= cur,
         tol = 0 \/ cur - first < ChannelModulus - 5
  PROVE  Found(W, tol, iterate(u, wire_gap(cur, first), tol))
<1>0. /\ lo \in Nat /\ cur \in Nat /\ first \in Nat /\ W \in SUBSET Nat
      /\ ChannelModulus \in Nat /\ ChannelModulus > 8
      /\ cur < ChannelModulus
  BY AdjacencyAssumption
<1>1. PICK gap : gap = wire_gap(cur, first)  OBVIOUS
<1>2. CASE first = 0
  <2>1. gap = ChannelModulus - 1  BY <1>1, <1>2 DEF wire_gap
  <2>2. gap \notin {0, 1} /\ gap \notin 2 .. 5  BY <1>0, <2>1
  <2>3. iterate(u, gap, tol) = restart(u)  BY <2>2 DEF iterate, bridges
  <2> QED  BY <1>0, <1>1, <2>3, TrackEnds DEF Found
<1>3. CASE first # 0
  <2>1. gap = first - cur + ChannelModulus
    <3>1. first - cur \in Int /\ -ChannelModulus <= first - cur /\ first - cur < ChannelModulus
          /\ first - cur < 0
      BY <1>0
    <3>3. PICK d \in Int : d = first - cur  BY <3>1
    <3>5. d < 0 /\ d < ChannelModulus /\ -ChannelModulus <= d /\ ChannelModulus \in Nat \ {0}
      BY <1>0, <3>1, <3>3
    <3>4. d % ChannelModulus = d + ChannelModulus  BY <3>5, RemainderOfSmall
    <3>2. (first - cur) % ChannelModulus = first - cur + ChannelModulus
      BY <3>3, <3>4
    <3> QED  BY <1>1, <1>3, <3>2 DEF wire_gap
  <2>2. gap \notin {0, 1}  BY <1>0, <1>3, <2>1
  <2>3. ~ bridges(u, gap, tol)
    <3>1. CASE tol = 0
      <4>1. u.tol_count \in Nat  OBVIOUS
      <4> QED  BY <3>1, <4>1 DEF bridges
    <3>2. CASE cur - first < ChannelModulus - 5
      <4>1. gap \notin 2 .. 5  BY <1>0, <2>1, <3>2
      <4> QED  BY <4>1 DEF bridges
    <3> QED  BY <3>1, <3>2
  <2>4. iterate(u, gap, tol) = restart(u)  BY <2>2, <2>3 DEF iterate, bridges
  <2> QED  BY <1>0, <1>1, <2>4, TrackEnds DEF Found
<1> QED  BY <1>2, <1>3

-----------------------------------------------------------------------------
(* The loop as a whole *)

\* The wires of a list in order: each is between the first and the last, and
\* none is between two neighbours of the list.
LEMMA WiresInOrder ==
  ASSUME LoopIInv
  PROVE  /\ Wires \in SUBSET (0 .. ChannelModulus - 1)
         /\ Len(chanList) \in Nat /\ m_adj_tolerance \in Nat
         /\ \A k \in 1 .. Len(chanList) :
              /\ chanList[k] \in Wires
              /\ \A w \in Wires : /\ chanList[1] <= w /\ w <= chanList[Len(chanList)]
                                  /\ k < Len(chanList) => /\ chanList[k] <= chanList[k + 1]
                                                          /\ w <= chanList[k] \/ chanList[k + 1] <= w
<1>1. PICK l \in ChanLists : l = chanList  BY DEF LoopIInv
<1>2. /\ DOMAIN l = 1 .. Len(l) /\ Len(l) \in Nat
      /\ \A j \in 1 .. Len(l) : l[j] \in 0 .. ChannelModulus - 1
      /\ \A j, k \in 1 .. Len(l) : j <= k => l[j] <= l[k]
  BY AdjacencyLoopAssumption
<1>3. PICK n \in Nat : n = Len(l)  BY <1>2, Zenon
<1>4. Wires = { l[j] : j \in 1 .. n }  BY <1>1, <1>2, <1>3 DEF Wires
<1>5. Wires \in SUBSET (0 .. ChannelModulus - 1)  BY <1>2, <1>3, <1>4
<1>6. m_adj_tolerance \in Nat  BY AdjacencyLoopAssumption DEF LoopIInv
<1>7. ASSUME NEW k \in 1 .. n, NEW w \in Wires
      PROVE  /\ l[k] \in Wires /\ l[1] <= w /\ w <= l[n]
             /\ k < n => /\ l[k] <= l[k + 1]
                         /\ w <= l[k] \/ l[k + 1] <= w
  <2>1. PICK j \in 1 .. n : w = l[j]  BY <1>4
  <2>2. l[k] \in Wires  BY <1>4
  <2>3. 1 \in 1 .. n /\ n \in 1 .. n /\ 1 <= j /\ j <= n  OBVIOUS
  <2>4. l[1] <= w /\ w <= l[n]  BY <1>2, <1>3, <2>1, <2>3
  <2>5. ASSUME k < n
        PROVE  l[k] <= l[k + 1] /\ (w <= l[k] \/ l[k + 1] <= w)
    <3>1. k + 1 \in 1 .. n /\ k <= k + 1 /\ (j <= k \/ k + 1 <= j)  BY <2>5
    <3> QED  BY <1>2, <1>3, <2>1, <3>1
  <2> QED  BY <2>2, <2>4, <2>5
<1>8. \A k \in 1 .. n : l[k] \in Wires  BY <1>4
<1> QED  BY <1>1, <1>3, <1>5, <1>6, <1>7, <1>8

\* As long as there are wires to come the loop follows a track; at the end it
\* has found one, provided that, with tolerance, the last wire is not within
\* five of the first counted round the end of the channel numbers.
NoBridgeBack(l, tol) ==
  tol = 0 \/ Len(l) = 0 \/ l[Len(l)] - l[1] < ChannelModulus - 5

FollowsATrack ==
  i < Len(chanList) =>
    \E lo \in Wires : Following(Wires, m_adj_tolerance, lo, chanList[i + 1], v)

HasFound ==
  (/\ Done /\ Len(chanList) > 0 /\ chanList[1] # chanList[Len(chanList)]
   /\ NoBridgeBack(chanList, m_adj_tolerance)) =>
    Found(Wires, m_adj_tolerance, v)

TrackInv == LoopIInv /\ FollowsATrack /\ HasFound

LEMMA TrackInit == Init => TrackInv
<1> SUFFICES ASSUME Init PROVE TrackInv
  OBVIOUS
<1>1. LoopIInv  BY LoopInit
<1>2. PICK n \in Nat : n = Len(chanList)  BY <1>1, WiresInOrder
<1>3. i = 0 /\ v = Start  BY DEF Init
<1>4. FollowsATrack
  <2> SUFFICES ASSUME 0 < n
               PROVE  \E lo \in Wires : Following(Wires, m_adj_tolerance, lo, chanList[1], v)
    BY <1>2, <1>3 DEF FollowsATrack
  <2>1. PICK W \in SUBSET Nat : W = Wires
    BY <1>1, WiresInOrder, AdjacencyAssumption
  <2>2. PICK first \in W : first = chanList[1] /\ \A w \in W : first <= w
    <3>1. 1 \in 1 .. Len(chanList)  BY <1>2
    <3>2. chanList[1] \in Wires /\ \A w \in Wires : chanList[1] <= w
      BY <1>1, <3>1, WiresInOrder
    <3> QED  BY <2>1, <3>2
  <2>3. /\ TrackOf(W, first, first) /\ HitsIn(W, first, first) = 1
        /\ ChargeOf(W, first, first) = 0 /\ PaidFor(W, m_adj_tolerance, first, first)
    BY OneWire
  <2>4. first - 1 \notin W
    <3>1. ~ (first <= first - 1)  OBVIOUS
    <3> QED  BY <2>2, <3>1
  <2>5. \A a, b \in W : ~ (a <= b /\ b < first)  BY <2>2
  <2>6. v.adj = 1 /\ v.max = 0 /\ v.tol_count = 0  BY <1>3 DEF Start
  <2>7. Following(W, m_adj_tolerance, first, first, v)
    BY <2>3, <2>4, <2>5, <2>6 DEF Following
  <2> QED  BY <2>1, <2>2, <2>7
<1>5. HasFound  BY <1>2, <1>3 DEF HasFound, Done
<1> QED  BY <1>1, <1>4, <1>5 DEF TrackInv

LEMMA TrackNext == TrackInv /\ [Next]_vars => TrackInv'
<1> SUFFICES ASSUME TrackInv, [Next]_vars PROVE TrackInv'
  OBVIOUS
<1>0. LoopIInv /\ LoopIInv'  BY LoopNext DEF TrackInv
<1>1. CASE Iteration
  <2>1. PICK l \in ChanLists : l = chanList  BY <1>0 DEF LoopIInv
  <2>2. PICK n \in Nat : n = Len(l)  BY <1>0, <2>1, WiresInOrder
  <2>3. PICK k \in 1 .. n : k = i + 1 /\ i' = k /\ i < n /\ i \in Nat
    BY <1>0, <1>1, <2>1, <2>2 DEF Iteration, LoopIInv, LoopInv
  <2>4. PICK tol \in Nat : tol = m_adj_tolerance  BY <1>0, WiresInOrder
  <2>5. chanList' = l /\ m_adj_tolerance' = tol  BY <1>1, <2>1, <2>4 DEF Iteration
  <2>6. PICK W \in SUBSET (0 .. ChannelModulus - 1) : W = Wires  BY <1>0, WiresInOrder
  <2>7. W = Wires'  BY <2>1, <2>5, <2>6 DEF Wires
  <2>8. PICK u \in [adj : Nat, max : Nat, tol_count : Nat] : u = v
    BY <1>0 DEF LoopIInv, LoopInv
  <2>9. v' = iterate(u, wire_gap(l[k], next_in(l, k)), tol)
    BY <1>1, <2>1, <2>3, <2>4, <2>8 DEF Iteration
  <2>10. PICK lo \in W : Following(W, tol, lo, l[k], u)
    BY <2>1, <2>2, <2>3, <2>4, <2>6, <2>8 DEF TrackInv, FollowsATrack
  <2>11. \A j \in 1 .. n : l[j] \in W /\ \A w \in W :
           /\ l[1] <= w /\ w <= l[n]
           /\ j < n => l[j] <= l[j + 1] /\ (w <= l[j] \/ l[j + 1] <= w)
    BY <1>0, <2>1, <2>2, <2>6, WiresInOrder
  <2>12. CASE k < n
    <3>1. next_in(l, k) = l[k + 1]
      <4>1. k % n = k  BY <2>12, RemainderOfSmall
      <4> QED  BY <2>2, <4>1 DEF next_in
    <3>2. k \in 1 .. n /\ k + 1 \in 1 .. n  BY <2>12
    <3>3. l[k] \in W /\ l[k + 1] \in W  BY <2>11, <3>2
    <3>4. l[k] <= l[k + 1] /\ \A w \in W : w <= l[k] \/ l[k + 1] <= w
      BY <2>11, <2>12, <3>3
    <3>5. PICK new \in W :
            Following(W, tol, new, l[k + 1], iterate(u, wire_gap(l[k], l[k + 1]), tol))
      BY <2>10, <3>3, <3>4, IterationFollows
    <3>6. FollowsATrack'
      BY <2>3, <2>5, <2>7, <2>9, <3>1, <3>5 DEF FollowsATrack
    <3>7. HasFound'  BY <2>2, <2>3, <2>5, <2>12 DEF HasFound, Done
    <3> QED  BY <1>0, <3>6, <3>7 DEF TrackInv
  <2>13. CASE k = n
    <3>1. next_in(l, k) = l[1]
      <4>1. n % n = 0  BY <2>13
      <4> QED  BY <2>2, <2>13, <4>1 DEF next_in
    <3>2. 1 \in 1 .. n /\ n \in 1 .. n  BY <2>13
    <3>3. l[1] \in W /\ l[n] \in W /\ \A w \in W : w <= l[n]  BY <2>11, <3>2
    <3>4. FollowsATrack'
      <4>1. i' = n /\ Len(chanList') = n  BY <2>2, <2>3, <2>5, <2>13
      <4> QED  BY <4>1 DEF FollowsATrack
    <3>5. ASSUME l[1] # l[n], NoBridgeBack(l, tol)
          PROVE  Found(W, tol, iterate(u, wire_gap(l[n], l[1]), tol))
      <4>1. l[1] < l[n]
        <5>1. PICK first \in W : first = l[1]  BY <3>3
        <5>2. PICK last \in W : last = l[n]  BY <3>3
        <5>3. first <= last /\ first \in Nat /\ last \in Nat
          BY <3>3, <5>1, <5>2, AdjacencyAssumption
        <5> QED  BY <3>5, <5>1, <5>2, <5>3
      <4>2. tol = 0 \/ l[n] - l[1] < ChannelModulus - 5
        <5>1. n # 0  BY <3>2
        <5> QED  BY <2>2, <3>5, <5>1 DEF NoBridgeBack
      <4> QED  BY <2>10, <2>13, <3>3, <4>1, <4>2, LastIteration
    <3>6. HasFound'
      BY <2>2, <2>5, <2>7, <2>9, <2>13, <3>1, <3>5 DEF HasFound
    <3> QED  BY <1>0, <3>4, <3>6 DEF TrackInv
  <2> QED  BY <2>12, <2>13
<1>2. CASE UNCHANGED vars
  <2>1. Wires' = Wires /\ Done' = Done  BY <1>2 DEF vars, Wires, Done
  <2> QED  BY <1>0, <1>2, <2>1 DEF vars, TrackInv, FollowsATrack, HasFound
<1> QED  BY <1>1, <1>2 DEF Next

\* What the loop has found, in the words of the properties.
LEMMA FoundIs ==
  ASSUME LoopIInv, HasFound, Done, Cardinality(Wires) > 1,
         NoBridgeBack(chanList, m_adj_tolerance)
  PROVE  /\ \E e \in Ends :
              /\ WiresIn(e[1], e[2]) = v.max
              /\ \A w \in GapsIn(e[1], e[2]) : Charged(e[1], w) < m_adj_tolerance
              /\ m_adj_tolerance = 0 => Missing(e[1], e[2]) = 0
         /\ \A e \in Ends : Missing(e[1], e[2]) = 0 => WiresIn(e[1], e[2]) <= v.max
<1>1. PICK W \in SUBSET Nat : W = Wires  BY WiresInOrder, AdjacencyAssumption
<1>2. PICK n \in Nat : n = Len(chanList)  BY WiresInOrder
<1>3. Cardinality(W) # 0 /\ Cardinality(W) # 1  BY <1>1
<1>4. W # {}  BY <1>3, FS_EmptySet
<1>5. PICK l \in ChanLists : l = chanList  BY DEF LoopIInv
<1>6. n > 0
  <2>1. DOMAIN l = 1 .. n  BY <1>2, <1>5, AdjacencyLoopAssumption
  <2>2. n # 0  BY <1>1, <1>4, <1>5, <2>1 DEF Wires
  <2> QED  BY <2>2
<1>7. chanList[1] # chanList[n]
  <2> SUFFICES ASSUME chanList[1] = chanList[n] PROVE FALSE
    OBVIOUS
  <2>1. 1 \in 1 .. n  BY <1>6
  <2>2. chanList[1] \in W /\ \A w \in W : chanList[1] <= w /\ w <= chanList[1]
    BY <1>1, <1>2, <2>1, WiresInOrder
  <2>3. W = {chanList[1]}
    <3>1. PICK x \in W : x = chanList[1]  BY <2>2
    <3>2. \A w \in W : x <= w /\ w <= x /\ w \in Nat /\ x \in Nat  BY <2>2, <3>1
    <3>3. \A w \in W : w = x  BY <3>2
    <3>4. W = {x}  BY <3>3
    <3> QED  BY <3>1, <3>4
  <2> QED  BY <1>3, <2>3, FS_Singleton
<1>8. Found(W, m_adj_tolerance, v)  BY <1>1, <1>2, <1>6, <1>7 DEF HasFound
<1>9. \A a, b \in W : /\ WiresIn(a, b) = HitsIn(W, a, b)
                      /\ IsTrack(a, b) <=> TrackOf(W, a, b)
  BY <1>1 DEF WiresIn, HitsIn, IsTrack, TrackOf
<1>10. ASSUME NEW a \in W, NEW b \in W, a <= b
       PROVE  Missing(a, b) = 0 <=> a .. b \subseteq W
  <2>1. a \in Nat /\ b \in Nat /\ HitsIn(W, a, b) \in Nat  BY HitsInType
  <2>2. Missing(a, b) = (b - a + 1) - HitsIn(W, a, b)  BY <1>9 DEF Missing
  <2>3. ASSUME a .. b \subseteq W PROVE Missing(a, b) = 0
    <3>1. HitsIn(W, a, b) = b - a + 1  BY <1>10, <2>1, <2>3, HitsInRun
    <3> QED  BY <2>1, <2>2, <3>1
  <2>4. ASSUME Missing(a, b) = 0 PROVE a .. b \subseteq W
    <3>1. HitsIn(W, a, b) = b - a + 1  BY <2>1, <2>2, <2>4
    <3>2. IsFiniteSet(a .. b) /\ Cardinality(a .. b) = b - a + 1  BY <1>10, <2>1, FS_Interval
    <3>3. W \cap (a .. b) \in SUBSET (a .. b)  OBVIOUS
    <3>4. Cardinality(a .. b) = Cardinality(W \cap (a .. b))  BY <3>1, <3>2 DEF HitsIn
    <3>5. a .. b = W \cap (a .. b)  BY <3>2, <3>3, <3>4, FS_Subset
    <3> QED  BY <3>5
  <2> QED  BY <2>3, <2>4
<1>11. \A a, b \in W : TrackOf(W, a, b) => <<a, b>> \in Ends /\ a <= b
  BY <1>1, <1>9 DEF Ends, TrackOf
<1>12. \E e \in Ends :
         /\ WiresIn(e[1], e[2]) = v.max
         /\ \A w \in GapsIn(e[1], e[2]) : Charged(e[1], w) < m_adj_tolerance
         /\ m_adj_tolerance = 0 => Missing(e[1], e[2]) = 0
  <2>1. PICK a \in W, b \in W :
          /\ TrackOf(W, a, b) /\ HitsIn(W, a, b) = v.max
          /\ PaidFor(W, m_adj_tolerance, a, b)
    BY <1>8 DEF Found
  <2>2. <<a, b>> \in Ends /\ <<a, b>>[1] = a /\ <<a, b>>[2] = b /\ a <= b  BY <1>11, <2>1
  <2>3. WiresIn(a, b) = v.max /\ (m_adj_tolerance = 0 => Missing(a, b) = 0)
    BY <1>9, <1>10, <2>1, <2>2 DEF PaidFor
  <2>4. GapsIn(a, b) = GapsOf(W, a, b)  BY <1>1 DEF GapsIn, GapsOf
  <2>5. ASSUME NEW w \in GapsIn(a, b) PROVE Charged(a, w) < m_adj_tolerance
    <3>1. GapsIn(a, w) = GapsOf(W, a, w)  BY <1>1 DEF GapsIn, GapsOf
    <3>2. w \in W  BY <1>1, <2>5 DEF GapsIn
    <3>3. Charged(a, w) = ChargeOf(W, a, w)
      BY <1>9, <3>1, <3>2 DEF Charged, Missing, ChargeOf
    <3> QED  BY <2>1, <2>4, <2>5, <3>3 DEF PaidFor
  <2> QED  BY <2>2, <2>3, <2>5
<1>13. ASSUME NEW e \in Ends, Missing(e[1], e[2]) = 0 PROVE WiresIn(e[1], e[2]) <= v.max
  <2>1. PICK a \in W, b \in W : a = e[1] /\ b = e[2] /\ a <= b
    BY <1>1 DEF Ends, IsTrack
  <2>2. a .. b \subseteq W  BY <1>10, <1>13, <2>1
  <2>3. b - a + 1 <= v.max  BY <1>8, <2>1, <2>2 DEF Found
  <2>4. WiresIn(a, b) = b - a + 1  BY <1>9, <2>1, <2>2, HitsInRun
  <2> QED  BY <2>1, <2>3, <2>4
<1> QED  BY <1>12, <1>13

\* Without tolerance the result is the length of the longest run of consecutive
\* hit wires, on every list with two different wires.
THEOREM StrictResultIsLongest == Spec => []StrictResult
<1>1. TrackInv => StrictResult
  <2> SUFFICES ASSUME TrackInv, Done, m_adj_tolerance = 0, Cardinality(Wires) > 1
               PROVE  v.max = Largest({ WiresIn(e[1], e[2]) :
                                          e \in { f \in Ends : Missing(f[1], f[2]) = 0 } })
    BY DEF StrictResult
  <2>1. PICK S : S = { WiresIn(e[1], e[2]) : e \in { f \in Ends : Missing(f[1], f[2]) = 0 } }
    OBVIOUS
  <2>2. /\ \E e \in Ends : WiresIn(e[1], e[2]) = v.max /\ Missing(e[1], e[2]) = 0
        /\ \A e \in Ends : Missing(e[1], e[2]) = 0 => WiresIn(e[1], e[2]) <= v.max
    BY FoundIs DEF TrackInv, NoBridgeBack
  <2>3. v.max \in S /\ \A m \in S : m <= v.max  BY <2>1, <2>2
  <2>4. \A m \in S : m \in Nat
    <3>1. ASSUME NEW e \in Ends PROVE WiresIn(e[1], e[2]) \in Nat
      <4>1. PICK W \in SUBSET Nat : W = Wires
        BY WiresInOrder, AdjacencyAssumption DEF TrackInv
      <4>2. e[1] \in Nat /\ e[2] \in Nat  BY <4>1 DEF Ends
      <4>3. HitsIn(W, e[1], e[2]) \in Nat  BY <4>2, HitsInType
      <4> QED  BY <4>1, <4>3 DEF WiresIn, HitsIn
    <3> QED  BY <2>1, <3>1
  <2>5. \A m \in S : (\A k \in S : k <= m) => m = v.max  BY <2>3, <2>4
  <2>6. Largest(S) = v.max  BY <2>3, <2>5 DEF Largest
  <2> QED  BY <2>1, <2>6
<1> QED  BY <1>1, TrackInit, TrackNext, PTL DEF Spec

\* With any tolerance the result is the size of a real track whose gaps were
\* paid for and no less than the longest run, on every list whose wires do not reach from one end of the
\* 32-bit numbers to the other: there the last comparison, with the first wire,
\* could bridge, and the last track would not be recorded.
THEOREM ResultIsOfATrack ==
  ASSUME \A l \in ChanLists : Len(l) > 0 => l[Len(l)] - l[1] < ChannelModulus - 5
  PROVE  Spec => []ResultIsATrack
<1>1. TrackInv => ResultIsATrack
  <2> SUFFICES ASSUME TrackInv, Done, Cardinality(Wires) > 1
               PROVE  /\ \E e \in Ends :
                           /\ WiresIn(e[1], e[2]) = v.max
                           /\ \A w \in GapsIn(e[1], e[2]) : Charged(e[1], w) < m_adj_tolerance
                      /\ \A e \in Ends : Missing(e[1], e[2]) = 0 => WiresIn(e[1], e[2]) <= v.max
    BY DEF ResultIsATrack
  <2>1. chanList \in ChanLists /\ Len(chanList) \in Nat
    BY AdjacencyLoopAssumption DEF TrackInv, LoopIInv
  <2>2. NoBridgeBack(chanList, m_adj_tolerance)  BY <2>1 DEF NoBridgeBack
  <2> QED  BY <2>2, FoundIs DEF TrackInv
<1> QED  BY <1>1, TrackInit, TrackNext, PTL DEF Spec

=============================================================================
