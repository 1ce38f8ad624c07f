---------------------------- MODULE Segmentation ----------------------------
(***************************************************************************)
(* What every window-based maker promises, with its thresholds, times and  *)
(* payloads abstracted away: it reads a stream of elements numbered in     *)
(* arrival order, holds some of them back, and now and then puts what it   *)
(* holds into an output object (a TA or a TC).  An element it has let go   *)
(* of, or given out, never comes back.                                     *)
(***************************************************************************)
EXTENDS Integers, Sequences

VARIABLES received,   \* how many elements have arrived
          held,       \* the arrival numbers in the current window
          segments    \* the sets of arrival numbers given out, oldest first

segmentVars == <<received, held, segments>>

Init ==
  /\ received = 0
  /\ held = {}
  /\ segments = <<>>

\* The arriving element joins what is kept of the window.
Hold(kept) ==
  /\ received' = received + 1
  /\ held' = kept \cup {received + 1}
  /\ UNCHANGED segments

\* The window is given out; the arriving element starts the next one, or is
\* of no use to it.
GiveAndStart ==
  /\ held # {}
  /\ received' = received + 1
  /\ segments' = Append(segments, held)
  /\ held' \in SUBSET {received + 1}

\* The arriving element joins what is kept and the whole is given out.
JoinAndGive(kept) ==
  /\ received' = received + 1
  /\ segments' = Append(segments, kept \cup {received + 1})
  /\ held' = {}

\* The stream is over and what is held is given out.
GiveAll ==
  /\ held # {}
  /\ segments' = Append(segments, held)
  /\ held' = {}
  /\ UNCHANGED received

\* The arriving element is not used, and some of those held may go too.
Skip(kept) ==
  /\ received' = received + 1
  /\ held' = kept
  /\ UNCHANGED segments

Next ==
  \/ \E kept \in SUBSET held : Hold(kept) \/ JoinAndGive(kept) \/ Skip(kept)
  \/ GiveAndStart
  \/ GiveAll

Spec == Init /\ [][Next]_segmentVars

-----------------------------------------------------------------------------

TypeOK ==
  /\ received \in Nat
  /\ held \in SUBSET (1 .. received)
  /\ segments \in Seq(SUBSET (1 .. received))

\* Output objects take their elements from disjoint, successive stretches of
\* the stream: nothing in a later object arrived before anything in an
\* earlier one, so no element is in two of them.
SegmentsInOrder ==
  \A j, k \in DOMAIN segments :
    j < k => \A x \in segments[j], y \in segments[k] : x < y

\* What is held arrived after everything already given out.
HeldAfterSegments ==
  \A k \in DOMAIN segments : \A x \in segments[k], y \in held : x < y

\* An output object is never empty.
SegmentsNonEmpty == \A k \in DOMAIN segments : segments[k] # {}

Inv ==
  /\ TypeOK
  /\ SegmentsInOrder
  /\ HeldAfterSegments
  /\ SegmentsNonEmpty

=============================================================================
