------------------------------ MODULE TPWindow ------------------------------
(***************************************************************************)
(* class TPWindow: the TPs of a sliding time window, with the sum of their *)
(* charge and the number of hits on each channel kept alongside.  Its      *)
(* methods are operators from a window to the window they leave behind.    *)
(***************************************************************************)
EXTENDS TPStream, ChannelStates

CONSTANT AdcModulus   \* 2^32: adc_integral is an uint32_t

ASSUME TPWindowAssumption ==
  AdcModulus \in Nat \ {0} /\ AdcValues \subseteq 0 .. AdcModulus - 1

EmptyWindow ==
  [time_start |-> 0, adc_integral |-> 0, channel_states |-> <<>>, inputs |-> <<>>]

is_empty(w) == w.inputs = <<>>

n_channels_hit(w) == n_channels(w.channel_states)

\* A plausible slip: the sum is kept in a wider type than the one it is for.
add_untruncated(w, tp) ==
  [time_start |-> w.time_start,
   adc_integral |-> w.adc_integral + tp.adc_integral,
   channel_states |-> hit(w.channel_states, tp.channel),
   inputs |-> Append(w.inputs, tp)]

add(w, tp) ==
  [time_start |-> w.time_start,
   adc_integral |-> UIntPlus(w.adc_integral, tp.adc_integral, AdcModulus),
   channel_states |-> hit(w.channel_states, tp.channel),
   inputs |-> Append(w.inputs, tp)]

clear(w) == EmptyWindow

reset(w, tp) ==
  [time_start |-> tp.time_start,
   adc_integral |-> tp.adc_integral,
   channel_states |-> hit(<<>>, tp.channel),
   inputs |-> <<tp>>]

\* channel_states once the first n TPs have been taken out of it
unhit_front(w, n) ==
  LET upto[k \in 0 .. n] ==
        IF k = 0 THEN w.channel_states ELSE unhit(upto[k - 1], w.inputs[k].channel)
  IN  upto[n]

\* Plausible slips: the old charge, or the old start time, survives the move.
erase_front_keeping_adc(w, n) ==
  [time_start |-> w.inputs[n + 1].time_start,
   adc_integral |-> w.adc_integral,
   channel_states |-> unhit_front(w, n),
   inputs |-> SubSeq(w.inputs, n + 1, Len(w.inputs))]

erase_front_keeping_start(w, n) ==
  [time_start |-> w.time_start,
   adc_integral |-> (w.adc_integral - TotalAdc(SubSeq(w.inputs, 1, n))) % AdcModulus,
   channel_states |-> unhit_front(w, n),
   inputs |-> SubSeq(w.inputs, n + 1, Len(w.inputs))]

\* What is left of a window when the n < Len(inputs) TPs at its front go.
erase_front(w, n) ==
  [time_start |-> w.inputs[n + 1].time_start,
   adc_integral |-> (w.adc_integral - TotalAdc(SubSeq(w.inputs, 1, n))) % AdcModulus,
   channel_states |-> unhit_front(w, n),
   inputs |-> SubSeq(w.inputs, n + 1, Len(w.inputs))]

\* A plausible slip: the window is started afresh rather than moved.
move_by_reset(w, tp, window_length) == reset(w, tp)

move(w, tp, window_length) ==
  LET n == n_to_erase(w.inputs, tp.time_start, window_length)
  IN  IF n < Len(w.inputs) THEN add(erase_front(w, n), tp) ELSE reset(w, tp)

-----------------------------------------------------------------------------
(* What a well-kept window is *)

Windows ==
  [time_start : Timestamps, adc_integral : 0 .. AdcModulus - 1,
   channel_states : CountMaps(Channels), inputs : Seq(TriggerPrimitive)]

\* The cached charge is that of the TPs in the window.
ChargeAgrees(w) == w.adc_integral = TotalAdc(w.inputs) % AdcModulus

\* The cached counts are the numbers of hits of the TPs in the window, and a
\* channel is in the map exactly when one of them is on it.
CountsAgree(w) ==
  LET on(ch) == { i \in DOMAIN w.inputs : w.inputs[i].channel = ch }
  IN  /\ DOMAIN w.channel_states = { w.inputs[i].channel : i \in DOMAIN w.inputs }
      /\ \A ch \in DOMAIN w.channel_states :
           w.channel_states[ch] = Cardinality(on(ch)) % CountModulus

\* time_start is the time of the oldest TP; the others are within length of it.
SpanAgrees(w, length) ==
  w.inputs # <<>> =>
    /\ w.time_start = w.inputs[1].time_start
    /\ \A i \in 2 .. Len(w.inputs) : fits(w.inputs[i].time_start, w.time_start, length)

=============================================================================
