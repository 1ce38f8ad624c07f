------------------------------ MODULE TAWindow ------------------------------
(***************************************************************************)
(* class TAWindow: the TAs of a sliding time window, kept in order of      *)
(* time_start, with the sum of their charge and the number of hits on each *)
(* channel.  Its methods are operators from a window to the window they    *)
(* leave behind.                                                           *)
(***************************************************************************)
EXTENDS TAStream, ChannelStates

CONSTANT AdcModulus   \* 2^64: adc_integral is an uint64_t

ASSUME TAWindowAssumption ==
  AdcModulus \in Nat \ {0} /\ AdcValues \subseteq 0 .. AdcModulus - 1

EmptyWindow ==
  [time_start |-> 0, adc_integral |-> 0, channel_states |-> <<>>, inputs |-> <<>>]

is_empty(w) == w.inputs = <<>>

n_channels_hit(w) == n_channels(w.channel_states)

\* channel_states[tp.channel]++ and -- for every TP of a TA
hit_all(states, channels) ==
  LET upto[k \in 0 .. Len(channels)] ==
        IF k = 0 THEN states ELSE hit(upto[k - 1], channels[k])
  IN  upto[Len(channels)]

\* A plausible slip: each channel of the TA is taken off once, however many
\* TPs the TA has on it.
unhit_all_once(states, channels) ==
  LET chs == { channels[k] : k \in DOMAIN channels }
      left(c) == hits(states, c) - (IF c \in chs THEN 1 ELSE 0)
  IN  [c \in { d \in DOMAIN states : left(d) > 0 } |-> left(c)]

unhit_all(states, channels) ==
  LET upto[k \in 0 .. Len(channels)] ==
        IF k = 0 THEN states ELSE unhit(upto[k - 1], channels[k])
  IN  upto[Len(channels)]

\* Plausible slips: a new TA always goes to the end, or to the front.
insert_at_end(inputs, t) == Len(inputs)
insert_at_front(inputs, t) == 0

\* How many TAs of the list stay in front of a new one at time t.
insert_at(inputs, t) ==
  CHOOSE n \in 0 .. Len(inputs) :
    /\ \A i \in 1 .. n : inputs[i].time_start <= t
    /\ n < Len(inputs) => t < inputs[n + 1].time_start

insert(inputs, ta) ==
  LET n == insert_at(inputs, ta.time_start)
  IN  SubSeq(inputs, 1, n) \o <<ta>> \o SubSeq(inputs, n + 1, Len(inputs))

add(w, ta) ==
  [time_start |-> w.time_start,
   adc_integral |-> UIntPlus(w.adc_integral, ta.adc_integral, AdcModulus),
   channel_states |-> hit_all(w.channel_states, ta.channels),
   inputs |-> insert(w.inputs, ta)]

clear(w) == EmptyWindow

reset(w, ta) ==
  [time_start |-> ta.time_start,
   adc_integral |-> ta.adc_integral,
   channel_states |-> hit_all(<<>>, ta.channels),
   inputs |-> <<ta>>]

\* channel_states once the first n TAs have been taken out of it
unhit_front(w, n) ==
  LET upto[k \in 0 .. n] ==
        IF k = 0 THEN w.channel_states ELSE unhit_all(upto[k - 1], w.inputs[k].channels)
  IN  upto[n]

\* Plausible slips: the old charge, or the old start time, survives the move.
erase_front_keeping_adc(w, n) ==
  [time_start |-> w.inputs[n + 1].time_start,
   adc_integral |-> w.adc_integral,
   channel_states |-> unhit_front(w, n),
   inputs |-> SubSeq(w.inputs, n + 1, Len(w.inputs))]

erase_front_keeping_start(w, n) ==
  [time_start |-> w.time_start,
   adc_integral |-> (w.adc_integral - TotalAdc(SubSeq(w.inputs, 1, n))) % AdcModulus,
   channel_states |-> unhit_front(w, n),
   inputs |-> SubSeq(w.inputs, n + 1, Len(w.inputs))]

\* What is left of a window when the n < Len(inputs) TAs at its front go.
erase_front(w, n) ==
  [time_start |-> w.inputs[n + 1].time_start,
   adc_integral |-> (w.adc_integral - TotalAdc(SubSeq(w.inputs, 1, n))) % AdcModulus,
   channel_states |-> unhit_front(w, n),
   inputs |-> SubSeq(w.inputs, n + 1, Len(w.inputs))]

\* A plausible slip: the window is started afresh rather than moved.
move_by_reset(w, ta, window_length) == reset(w, ta)

move(w, ta, window_length) ==
  LET n == n_to_erase(w.inputs, ta.time_start, window_length)
  IN  IF n < Len(w.inputs) THEN add(erase_front(w, n), ta) ELSE reset(w, ta)

-----------------------------------------------------------------------------
(* What a well-kept window is *)

Channels == UNION { { l[j] : j \in DOMAIN l } : l \in ChannelLists }

Windows ==
  [time_start : Times \cup {0}, adc_integral : 0 .. AdcModulus - 1,
   channel_states : CountMaps(Channels),
   inputs : Seq(TriggerActivity)]

ChargeAgrees(w) == w.adc_integral = TotalAdc(w.inputs) % AdcModulus

\* The TPs a list of TAs has on a channel: the place of the TA, and of the TP.
TPsOn(inputs, ch) ==
  UNION { {i} \X { j \in DOMAIN inputs[i].channels : inputs[i].channels[j] = ch } :
            i \in DOMAIN inputs }

CountsAgree(w) ==
  /\ DOMAIN w.channel_states = HitChannels(w.inputs)
  /\ \A ch \in DOMAIN w.channel_states :
       w.channel_states[ch] = Cardinality(TPsOn(w.inputs, ch)) % CountModulus

\* The list is in time order, time_start is its first time, and all of it is
\* within length of that.
SpanAgrees(w, length) ==
  w.inputs # <<>> =>
    /\ w.time_start = w.inputs[1].time_start
    /\ \A i, j \in DOMAIN w.inputs : i < j => w.inputs[i].time_start <= w.inputs[j].time_start
    /\ \A i \in 2 .. Len(w.inputs) : fits(w.inputs[i].time_start, w.time_start, length)

=============================================================================
