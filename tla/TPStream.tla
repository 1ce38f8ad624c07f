------------------------------ MODULE TPStream ------------------------------
(***************************************************************************)
(* The trigger primitives a TriggerActivityMaker reads.  The caller feeds  *)
(* a maker one TP at a time, in order of time_start; many TPs may carry    *)
(* the same time.  A TP's identity is its arrival number: two TPs with     *)
(* equal payloads are still two hits.                                      *)
(***************************************************************************)
EXTENDS InputLists

CONSTANTS
  Gaps,       \* how much later than its predecessor a TP may be
  Payloads,   \* its adc_integral, the channel it was seen on and its
              \* time_over_threshold
  MaxTPs      \* bound: how many TPs the caller feeds to the maker

ASSUME TPAssumption ==
  /\ Gaps \subseteq Nat
  /\ Payloads \subseteq [adc_integral : Nat, channel : Nat, time_over_threshold : Nat]
  /\ MaxTPs \in Nat

AdcValues == { p.adc_integral : p \in Payloads }
Channels == { p.channel : p \in Payloads }
Tots == { p.time_over_threshold : p \in Payloads }

TriggerPrimitive ==
  [id : Nat \ {0}, time_start : Timestamps, adc_integral : AdcValues,
   channel : Channels, time_over_threshold : Tots]

\* The TPs that may arrive after those in stream.
NextTPs(stream) ==
  LET last == IF stream = <<>> THEN 0 ELSE stream[Len(stream)].time_start
      after(gap, p) ==
        [id |-> Len(stream) + 1, time_start |-> last + gap,
         adc_integral |-> p.adc_integral, channel |-> p.channel,
         time_over_threshold |-> p.time_over_threshold]
  IN  { tp \in { after(gap, p) : gap \in Gaps, p \in Payloads } :
          /\ Len(stream) < MaxTPs
          /\ tp.time_start \in Timestamps }

=============================================================================
