------------------------- MODULE SegmentationProofs -------------------------
(***************************************************************************)
(* The abstract windowing discipline keeps its invariant: proved here once *)
(* for every maker that is shown to implement it.                          *)
(***************************************************************************)
EXTENDS Segmentation, TLAPS

\* A sequence of subsets of 1 .. n is one of subsets of 1 .. n + 1.
LEMMA SegmentsWiden ==
  ASSUME NEW n \in Nat, NEW s \in Seq(SUBSET (1 .. n))
  PROVE  s \in Seq(SUBSET (1 .. (n + 1)))
<1>1. SUBSET (1 .. n) \subseteq SUBSET (1 .. (n + 1))  OBVIOUS
<1>2. s \in [1 .. Len(s) -> SUBSET (1 .. n)]  OBVIOUS
<1>3. s \in [1 .. Len(s) -> SUBSET (1 .. (n + 1))]  BY <1>1, <1>2
<1> QED  BY <1>3

\* Giving out a set keeps the discipline when the set comes after what was
\* given out before, and what is held from now on comes after the set.
LEMMA GivingOut ==
  ASSUME Inv,
         NEW given \in SUBSET (1 .. received'), given # {},
         received' \in {received, received + 1},
         segments' = Append(segments, given),
         held' \in SUBSET (1 .. received'),
         \A x \in given, y \in held' : x < y,
         \A k \in DOMAIN segments :
           \A x \in segments[k], y \in given \cup held' : x < y
  PROVE  Inv'
<1> USE DEF Inv, TypeOK
<1>1. received \in Nat /\ received' \in Nat  OBVIOUS
<1>2. segments \in Seq(SUBSET (1 .. received'))  BY <1>1, SegmentsWiden
<1>3. TypeOK'  BY <1>1, <1>2
<1>4. /\ DOMAIN segments = 1 .. Len(segments)
      /\ DOMAIN segments' = 1 .. (Len(segments) + 1)
      /\ \A k \in DOMAIN segments : segments'[k] = segments[k]
      /\ segments'[Len(segments) + 1] = given
      /\ Len(segments) \in Nat
  BY <1>2
<1>5. \A k \in DOMAIN segments' : k \notin DOMAIN segments => k = Len(segments) + 1
  BY <1>4
<1>6. ASSUME NEW j \in DOMAIN segments', NEW k \in DOMAIN segments', j < k
      PROVE  \A x \in segments'[j], y \in segments'[k] : x < y
  <2>1. j \in DOMAIN segments  BY <1>4, <1>6
  <2>2. CASE k \in DOMAIN segments  BY <1>4, <1>6, <2>1, <2>2 DEF SegmentsInOrder
  <2>3. CASE k \notin DOMAIN segments  BY <1>4, <1>5, <2>1, <2>3
  <2> QED  BY <2>2, <2>3
<1>7. HeldAfterSegments'
  BY <1>4, <1>5 DEF HeldAfterSegments
<1>8. SegmentsNonEmpty'
  BY <1>4, <1>5 DEF SegmentsNonEmpty
<1> QED  BY <1>3, <1>6, <1>7, <1>8 DEF SegmentsInOrder

\* Nothing given out, and only the arriving element added to what is held.
LEMMA HoldingBack ==
  ASSUME Inv,
         received' = received + 1,
         held' \in SUBSET (held \cup {received + 1}),
         segments' = segments
  PROVE  Inv'
<1> USE DEF Inv, TypeOK
<1>1. received \in Nat /\ segments \in Seq(SUBSET (1 .. (received + 1)))
  BY SegmentsWiden
<1>2. TypeOK'  BY <1>1
<1>3. DOMAIN segments = 1 .. Len(segments) /\ \A k \in DOMAIN segments : segments[k] \in SUBSET (1 .. received)
  OBVIOUS
<1>4. HeldAfterSegments'  BY <1>1, <1>3 DEF HeldAfterSegments
<1> QED  BY <1>2, <1>4 DEF SegmentsInOrder, SegmentsNonEmpty

\* The invariant is inductive: output objects come from disjoint, successive
\* stretches of the stream, and what is held is younger than all of them.
THEOREM SegmentationInvariant == Spec => []Inv
<1>1. Init => Inv
  BY DEF Init, Inv, TypeOK, SegmentsInOrder, HeldAfterSegments, SegmentsNonEmpty
<1>2. Inv /\ [Next]_segmentVars => Inv'
  <2> SUFFICES ASSUME Inv, [Next]_segmentVars PROVE Inv'
    OBVIOUS
  <2> USE DEF Inv, TypeOK
  <2>0. /\ received \in Nat
        /\ DOMAIN segments = 1 .. Len(segments)
        /\ \A k \in DOMAIN segments : segments[k] \in SUBSET (1 .. received)
    OBVIOUS
  <2>1. ASSUME NEW kept \in SUBSET held, Hold(kept) PROVE Inv'
    BY <2>1, HoldingBack DEF Hold
  <2>2. ASSUME NEW kept \in SUBSET held, JoinAndGive(kept) PROVE Inv'
    <3>1. kept \cup {received + 1} \in SUBSET (1 .. received') BY <2>2 DEF JoinAndGive
    <3>2. \A k \in DOMAIN segments :
            \A x \in segments[k], y \in (kept \cup {received + 1}) \cup {} : x < y
      BY <2>0 DEF HeldAfterSegments
    <3> QED  BY <2>2, <3>1, <3>2, GivingOut DEF JoinAndGive
  <2>3. CASE GiveAndStart
    <3>1. held \in SUBSET (1 .. received') /\ held' \in SUBSET (1 .. received')
      BY <2>3 DEF GiveAndStart
    <3>2. \A k \in DOMAIN segments :
            \A x \in segments[k], y \in held \cup {received + 1} : x < y
      BY <2>0 DEF HeldAfterSegments
    <3>3. \A x \in held, y \in {received + 1} : x < y
      OBVIOUS
    <3>4. held' \subseteq {received + 1}
      BY <2>3 DEF GiveAndStart
    <3> QED  BY <2>3, <3>1, <3>2, <3>3, <3>4, GivingOut DEF GiveAndStart
  <2>4. ASSUME NEW kept \in SUBSET held, Skip(kept) PROVE Inv'
    BY <2>4, HoldingBack DEF Skip
  <2>5. CASE GiveAll
    <3>1. \A k \in DOMAIN segments : \A x \in segments[k], y \in held \cup {} : x < y
      BY DEF HeldAfterSegments
    <3> QED  BY <2>5, <3>1, GivingOut DEF GiveAll
  <2>6. CASE UNCHANGED segmentVars
    BY <2>6 DEF segmentVars, SegmentsInOrder, HeldAfterSegments, SegmentsNonEmpty
  <2> QED  BY <2>1, <2>2, <2>3, <2>4, <2>5, <2>6 DEF Next
<1> QED  BY <1>1, <1>2, PTL DEF Spec

=============================================================================
