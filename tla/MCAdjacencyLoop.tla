-------------------------- MODULE MCAdjacencyLoop --------------------------
EXTENDS AdjacencyLoop, SequencesExt

\* Every choice of up to MaxWires of the given wires, in order, and each of
\* them once more with its first hit repeated.
CONSTANTS WireIds, MaxWires

Sorted(S) == SetToSortSeq(S, LAMBDA a, b : a < b)
WireSets == { S \in SUBSET WireIds : S # {} /\ Cardinality(S) <= MaxWires }
MCChanLists ==
  { Sorted(S) : S \in WireSets } \cup
  { <<Sorted(S)[1]>> \o Sorted(S) : S \in WireSets }
=============================================================================
