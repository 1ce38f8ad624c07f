---------------------------- MODULE AdjacencyLoop ----------------------------
(***************************************************************************)
(* The loop of check_adjacency() one iteration at a time, over every list  *)
(* in ChanLists and every tolerance in Tolerances.                         *)
(***************************************************************************)
EXTENDS Adjacency, FiniteSets

CONSTANTS
  ChanLists,    \* the sorted channel lists to run the loop on
  Tolerances    \* the values of m_adj_tolerance

ASSUME AdjacencyLoopAssumption ==
  /\ \A l \in ChanLists :
       /\ DOMAIN l = 1 .. Len(l) /\ Len(l) \in Nat
       /\ \A j \in 1 .. Len(l) : l[j] \in 0 .. ChannelModulus - 1
       /\ \A j, k \in 1 .. Len(l) : j <= k => l[j] <= l[k]
  /\ Tolerances \subseteq Nat

VARIABLES
  chanList, m_adj_tolerance,   \* what the loop works on
  i,                           \* the iterations done
  v                            \* adj, max and tol_count

vars == <<chanList, m_adj_tolerance, i, v>>

Init ==
  /\ chanList \in ChanLists
  /\ m_adj_tolerance \in Tolerances
  /\ i = 0
  /\ v = Start

Iteration ==
  /\ i < Len(chanList)
  /\ i' = i + 1
  /\ v' = iterate(v, wire_gap(chanList[i + 1], next_in(chanList, i + 1)), m_adj_tolerance)
  /\ UNCHANGED <<chanList, m_adj_tolerance>>

Next == Iteration

Spec == Init /\ [][Next]_vars

Done == i = Len(chanList)

-----------------------------------------------------------------------------

Wires == { chanList[j] : j \in DOMAIN chanList }

Largest(S) == CHOOSE n \in S : \A m \in S : m <= n

\* A track: all the hit wires between lo and hi, no two neighbours of them
\* more than five wires apart.
IsTrack(lo, hi) ==
  /\ lo \in Wires /\ hi \in Wires /\ lo <= hi
  /\ \A w \in Wires : w \in lo .. (hi - 1) => \E x \in Wires : x \in (w + 1) .. (w + 5)

WiresIn(lo, hi) == Cardinality(Wires \cap (lo .. hi))

\* How many wires between lo and hi have no hit.
Missing(lo, hi) == (hi - lo + 1) - WiresIn(lo, hi)

Ends == { e \in Wires \X Wires : IsTrack(e[1], e[2]) }

\* Without tolerance the result is the textbook one, the longest run of
\* consecutive wires, whenever two different wires are hit.
StrictResult ==
  (Done /\ m_adj_tolerance = 0 /\ Cardinality(Wires) > 1) =>
    v.max = Largest({ WiresIn(e[1], e[2]) : e \in { f \in Ends : Missing(f[1], f[2]) = 0 } })

\* The wires between lo and hi after which a gap begins, and what the gaps up
\* to hi are charged with: each with its length, one more than its missing wires.
GapsIn(lo, hi) == { w \in Wires \cap (lo .. (hi - 1)) : w + 1 \notin Wires }
Charged(lo, hi) == Missing(lo, hi) + Cardinality(GapsIn(lo, hi))

\* With any tolerance the result is the size of a real track, each gap of which
\* was entered before the earlier ones had used the tolerance up, and is never
\* less than the longest run without a missing wire.
ResultIsATrack ==
  (Done /\ Cardinality(Wires) > 1) =>
    /\ \E e \in Ends :
         /\ WiresIn(e[1], e[2]) = v.max
         /\ \A w \in GapsIn(e[1], e[2]) : Charged(e[1], w) < m_adj_tolerance
    /\ \A e \in Ends : Missing(e[1], e[2]) = 0 => WiresIn(e[1], e[2]) <= v.max

=============================================================================
