---------------- MODULE TriggerActivityMakerADCSimpleWindow ----------------
(***************************************************************************)
(* The ADC-sum maker: it slides a window of m_window_length over the TPs   *)
(* and, when the TP that does not fit any more arrives, gives the window   *)
(* out as a TA if its summed charge is over m_adc_threshold.               *)
(*                                                                         *)
(* The caller builds the maker, configures it, then calls it once for each *)
(* TP.  output_ta is the vector the caller passes to every call: the maker *)
(* only appends to it.                                                     *)
(***************************************************************************)
EXTENDS TPStream

CONSTANTS
  AdcModulus,   \* 2^32: adc_integral is an uint32_t
  Defaults,     \* the configuration a new maker has
  Configs       \* the JSON objects configure() may be given

ConfigKeys == {"adc_threshold", "window_length"}

ASSUME ADCSimpleWindowAssumption ==
  /\ AdcModulus \in Nat \ {0}
  /\ AdcValues \subseteq 0 .. AdcModulus - 1
  /\ Defaults \in [ConfigKeys -> Nat]
  /\ \A config \in Configs : \E keys \in SUBSET ConfigKeys : config \in [keys -> Nat]

VARIABLES
  m_config,          \* m_adc_threshold and m_window_length
  m_current_window,  \* time_start, adc_integral and tp_list
  output_ta,         \* every TA given out so far
  received           \* every TP received so far

vars == <<m_config, m_current_window, output_ta, received>>

-----------------------------------------------------------------------------
(* class Window *)

EmptyWindow == [time_start |-> 0, adc_integral |-> 0, tp_list |-> <<>>]

is_empty(w) == w.tp_list = <<>>

\* A plausible slip: the sum is kept in a wider type than the one it is for.
add_untruncated(w, tp) ==
  [w EXCEPT !.adc_integral = @ + tp.adc_integral, !.tp_list = Append(@, tp)]

add(w, tp) ==
  [w EXCEPT !.adc_integral = UIntPlus(@, tp.adc_integral, AdcModulus),
            !.tp_list = Append(@, tp)]

reset(w, tp) ==
  [time_start |-> tp.time_start, adc_integral |-> tp.adc_integral,
   tp_list |-> <<tp>>]

\* Plausible slips: the charge, or the start time, of the old window survives.
erase_front_keeping_adc(w, n) ==
  [time_start |-> w.tp_list[n + 1].time_start,
   adc_integral |-> w.adc_integral,
   tp_list |-> SubSeq(w.tp_list, n + 1, Len(w.tp_list))]

erase_front_keeping_start(w, n) ==
  [time_start |-> w.time_start,
   adc_integral |-> (w.adc_integral - TotalAdc(SubSeq(w.tp_list, 1, n))) % AdcModulus,
   tp_list |-> SubSeq(w.tp_list, n + 1, Len(w.tp_list))]

\* What is left of a window when the n TPs at its front are erased.
erase_front(w, n) ==
  [time_start |-> w.tp_list[n + 1].time_start,
   adc_integral |-> (w.adc_integral - TotalAdc(SubSeq(w.tp_list, 1, n))) % AdcModulus,
   tp_list |-> SubSeq(w.tp_list, n + 1, Len(w.tp_list))]

\* A plausible slip: the window is started afresh rather than moved.
move_by_reset(w, tp, window_length) == reset(w, tp)

move(w, tp, window_length) ==
  LET n == n_to_erase(w.tp_list, tp.time_start, window_length)
  IN  IF n < Len(w.tp_list) THEN add(erase_front(w, n), tp) ELSE reset(w, tp)

construct_ta(w) ==
  [time_start |-> w.time_start, adc_integral |-> w.adc_integral, inputs |-> w.tp_list]

-----------------------------------------------------------------------------

Init ==
  /\ m_config = Defaults
  /\ m_current_window = EmptyWindow
  /\ output_ta = <<>>
  /\ received = <<>>

\* configure(): called at most once, before the first TP.  The keys the object
\* has replace the values held.
configure(config) ==
  /\ received = <<>>
  /\ m_config = Defaults
  /\ m_config' = [k \in ConfigKeys |-> IF k \in DOMAIN config THEN config[k]
                                                             ELSE m_config[k]]
  /\ UNCHANGED <<m_current_window, output_ta, received>>

in_window(tp) ==
  fits(tp.time_start, m_current_window.time_start, m_config["window_length"])

over_threshold == m_current_window.adc_integral > m_config["adc_threshold"]

\* Plausible slips: the TA goes out but the window is moved, not reset; or it
\* goes out as soon as it is over the threshold, before it is complete.
emit_ta_and_move(tp) ==
  /\ ~ is_empty(m_current_window)
  /\ ~ in_window(tp)
  /\ over_threshold
  /\ output_ta' = Append(output_ta, construct_ta(m_current_window))
  /\ m_current_window' = move(m_current_window, tp, m_config["window_length"])

emit_ta_unfilled(tp) ==
  /\ ~ is_empty(m_current_window)
  /\ over_threshold
  /\ output_ta' = Append(output_ta, construct_ta(m_current_window))
  /\ m_current_window' = reset(m_current_window, tp)

\* operator(), one disjunct for each way through it.
first_tp(tp) ==
  /\ is_empty(m_current_window)
  /\ m_current_window' = reset(m_current_window, tp)
  /\ UNCHANGED output_ta

fill_window(tp) ==
  /\ ~ is_empty(m_current_window)
  /\ in_window(tp)
  /\ m_current_window' = add(m_current_window, tp)
  /\ UNCHANGED output_ta

emit_ta(tp) ==
  /\ ~ is_empty(m_current_window)
  /\ ~ in_window(tp)
  /\ over_threshold
  /\ output_ta' = Append(output_ta, construct_ta(m_current_window))
  /\ m_current_window' = reset(m_current_window, tp)

slide_window(tp) ==
  /\ ~ is_empty(m_current_window)
  /\ ~ in_window(tp)
  /\ ~ over_threshold
  /\ m_current_window' = move(m_current_window, tp, m_config["window_length"])
  /\ UNCHANGED output_ta

receive(tp) ==
  /\ first_tp(tp) \/ fill_window(tp) \/ emit_ta(tp) \/ slide_window(tp)
  /\ received' = Append(received, tp)
  /\ UNCHANGED m_config

Next ==
  \/ \E config \in Configs : configure(config)
  \/ \E tp \in NextTPs(received) : receive(tp)

Spec == Init /\ [][Next]_vars

-----------------------------------------------------------------------------
(* Properties *)

Window ==
  [time_start : Timestamps, adc_integral : 0 .. AdcModulus - 1,
   tp_list : Seq(TriggerPrimitive)]

TriggerActivity ==
  [time_start : Timestamps, adc_integral : 0 .. AdcModulus - 1,
   inputs : Seq(TriggerPrimitive)]

\* The type invariant; in particular the two cached numbers of the window
\* stay within their C++ types.
TypeOK ==
  /\ m_config \in [ConfigKeys -> Nat]
  /\ m_current_window \in Window
  /\ output_ta \in Seq(TriggerActivity)
  /\ received \in Seq(TriggerPrimitive)

\* adc_integral is kept up to date by hand in add, move and reset: it must
\* always be the charge of the TPs that are in the window.
ChargeIsThatOfTheWindow ==
  m_current_window.adc_integral = TotalAdc(m_current_window.tp_list) % AdcModulus

\* time_start is also kept by hand: it is the time of the oldest TP in the
\* window, and every later TP of the window is within window_length of it.
WindowSpan ==
  LET tps == m_current_window.tp_list
  IN  tps # <<>> =>
        /\ m_current_window.time_start = tps[1].time_start
        /\ \A i \in 2 .. Len(tps) : in_window(tps[i])

\* The maker is an instance of the abstract windowing discipline: TPs go in
\* once, come out at most once, and never after a younger one has.
Segments ==
  INSTANCE Segmentation WITH
    received <- Len(received),
    held <- Ids(m_current_window.tp_list),
    segments <- [k \in DOMAIN output_ta |-> Ids(output_ta[k].inputs)]

SegmentsSpec == Segments!Spec

\* Consequently no TP is in two TAs, and TAs come out in stream order.
TAsInOrder == Segments!SegmentsInOrder

Emitted == UNION { Ids(output_ta[k].inputs) : k \in DOMAIN output_ta }

\* A TP the maker has neither given out nor still holds was overtaken by the
\* stream: a TP at least window_length younger has arrived.
NoTPLostEarly ==
  \A i \in DOMAIN received :
    \/ i \in Emitted \cup Ids(m_current_window.tp_list)
    \/ ~ fits(received[Len(received)].time_start, received[i].time_start,
              m_config["window_length"])

\* A TA has everything its window should have: all the TPs that arrived from
\* its first one on and within window_length of it.
TAsAreComplete ==
  \A k \in DOMAIN output_ta :
    LET ta == output_ta[k]
    IN  \A i \in DOMAIN received :
          (/\ i >= ta.inputs[1].id
           /\ fits(received[i].time_start, ta.time_start, m_config["window_length"]))
          => i \in Ids(ta.inputs)

\* The trigger condition, stated over the stream and not over the window: no
\* stretch of TPs shorter than window_length and over the threshold goes
\* unnoticed, as long as the charge does not wrap in its 32 bits.  One of its
\* TPs is in a TA, or all are still in the window.
NoActivityMissed ==
  TotalAdc(received) < AdcModulus =>
    \A i \in DOMAIN received : \A j \in i .. Len(received) :
      (/\ fits(received[j].time_start, received[i].time_start, m_config["window_length"])
       /\ TotalAdc(SubSeq(received, i, j)) > m_config["adc_threshold"])
      => \/ (i .. j) \cap Emitted # {}
         \/ (i .. j) \subseteq Ids(m_current_window.tp_list)

=============================================================================
