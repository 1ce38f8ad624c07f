----------------- MODULE TriggerActivityMakerHorizontalMuon -----------------
(***************************************************************************)
(* The HorizontalMuon TA maker: a TPWindow that is given out, when the TP  *)
(* that does not fit it arrives, for its charge, its number of hit         *)
(* channels, the length of its longest track, or that TP's own length; the *)
(* first three only every m_prescale-th time.                              *)
(***************************************************************************)
EXTENDS TriggerActivityMaker, Adjacency

adjacency(w) ==
  check_adjacency(ChannelList(by_channel(w.inputs)), m_config["adj_tolerance"])

construct_ta_hm(w) ==
  ta_of(FoldLeft(LAMBDA t, tp : IF tp.time_start < t THEN tp.time_start ELSE t,
                 w.inputs[Len(w.inputs)].time_start, w.inputs),
        w.adc_integral, w.inputs)

over_adc(w) ==
  m_config["trigger_on_adc"] /\ w.adc_integral > m_config["adc_threshold"]

over_n_channels(w) ==
  m_config["trigger_on_n_channels"] /\ n_channels_hit(w) > m_config["n_channels_threshold"]

\* A plausible slip: the threshold need only be reached.
over_adjacency_reached(w) ==
  m_config["trigger_on_adjacency"] /\ adjacency(w) >= m_config["adjacency_threshold"]

over_adjacency(w) ==
  m_config["trigger_on_adjacency"] /\ adjacency(w) > m_config["adjacency_threshold"]

over_any(w) == over_adc(w) \/ over_n_channels(w) \/ over_adjacency(w)

long_tp(tp) ==
  m_config["trigger_on_tot"] /\ tp.time_over_threshold > m_config["tot_threshold"]

\* A plausible slip: the trigger is counted after the test, not before it.
emits_uncounted == m_ta_count % m_config["prescale"] = 0

\* Branches 1 to 3 in turn, which do the same: every m_prescale-th time the
\* window goes out and the TP starts the next one; the other times nothing
\* is done with the TP.
emits == UIntPlus(m_ta_count, 1, CountModulus) % m_config["prescale"] = 0

first_tp(tp) ==
  /\ is_empty(m_current_window)
  /\ m_current_window' = reset(m_current_window, tp)
  /\ UNCHANGED <<m_ta_count, output_ta>>

fill_window(tp) ==
  /\ ~ is_empty(m_current_window)
  /\ fits_window(tp, m_current_window)
  /\ m_current_window' = add(m_current_window, tp)
  /\ UNCHANGED <<m_ta_count, output_ta>>

\* A TP has come that does not fit the window.
window_closed(tp) ==
  ~ is_empty(m_current_window) /\ ~ fits_window(tp, m_current_window)

\* A plausible slip: the TA goes out but the window is moved, not reset.
emit_ta_and_move(tp) ==
  /\ window_closed(tp)
  /\ over_any(m_current_window)
  /\ emits
  /\ m_ta_count' = UIntPlus(m_ta_count, 1, CountModulus)
  /\ output_ta' = Append(output_ta, construct_ta_hm(m_current_window))
  /\ m_current_window' = move(m_current_window, tp, m_config["window_length"])

emit_ta(tp) ==
  /\ window_closed(tp)
  /\ over_any(m_current_window)
  /\ emits
  /\ m_ta_count' = UIntPlus(m_ta_count, 1, CountModulus)
  /\ output_ta' = Append(output_ta, construct_ta_hm(m_current_window))
  /\ m_current_window' = reset(m_current_window, tp)

prescale_out(tp) ==
  /\ window_closed(tp)
  /\ over_any(m_current_window)
  /\ ~ emits
  /\ m_ta_count' = UIntPlus(m_ta_count, 1, CountModulus)
  /\ UNCHANGED <<m_current_window, output_ta>>

emit_ta_on_tot(tp) ==
  /\ window_closed(tp)
  /\ ~ over_any(m_current_window)
  /\ long_tp(tp)
  /\ output_ta' = Append(output_ta, construct_ta_hm(m_current_window))
  /\ m_current_window' = reset(m_current_window, tp)
  /\ UNCHANGED m_ta_count

slide_window(tp) ==
  /\ window_closed(tp)
  /\ ~ over_any(m_current_window)
  /\ ~ long_tp(tp)
  /\ m_current_window' = move(m_current_window, tp, m_config["window_length"])
  /\ UNCHANGED <<m_ta_count, output_ta>>

\* operator()
receive_hm(tp) ==
  /\ \/ first_tp(tp)
     \/ fill_window(tp)
     \/ emit_ta(tp)
     \/ prescale_out(tp)
     \/ emit_ta_on_tot(tp)
     \/ slide_window(tp)
  /\ take(tp)
  /\ UNCHANGED <<m_plane_windows, bundleVars, m_primitive_count>>

=============================================================================
