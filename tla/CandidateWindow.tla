-------------------------- MODULE CandidateWindow --------------------------
(***************************************************************************)
(* What the HorizontalMuon and ChannelAdjacency TC makers have in common:  *)
(* a TAWindow that takes every TA in and is given out as a TC the moment   *)
(* it is over a threshold.  The makers differ in the configurations they   *)
(* accept, and in nothing else.                                            *)
(***************************************************************************)
EXTENDS TriggerCandidateMaker

\* A plausible slip: the readout start is computed in a signed type.
construct_tc_signed(w) ==
  tc_of(w.time_start - m_config["readout_window_ticks_before"],
        UIntPlus(w.time_start, m_config["readout_window_ticks_after"], TimeModulus),
        w.time_start, w.inputs)

construct_tc(w) ==
  tc_of(UIntMinus(w.time_start, m_config["readout_window_ticks_before"], TimeModulus),
        UIntPlus(w.time_start, m_config["readout_window_ticks_after"], TimeModulus),
        w.time_start, w.inputs)

in_window(ta) ==
  fits(ta.time_start, m_current_window.time_start, m_config["window_length"])

\* The window once ta has gone into it: started, filled or moved.
joined(ta) ==
  CASE is_empty(m_current_window) -> reset(m_current_window, ta)
    [] ~ is_empty(m_current_window) /\ in_window(ta) -> add(m_current_window, ta)
    [] ~ is_empty(m_current_window) /\ ~ in_window(ta) ->
         move(m_current_window, ta, m_config["window_length"])

over_adc(w) ==
  m_config["trigger_on_adc"] /\ w.adc_integral > m_config["adc_threshold"]

\* A plausible slip: a trigger that is switched off still fires.
over_n_channels_unswitched(w) == n_channels_hit(w) > m_config["n_channels_threshold"]

over_n_channels(w) ==
  m_config["trigger_on_n_channels"] /\ n_channels_hit(w) > m_config["n_channels_threshold"]

\* A plausible slip: the window is judged as it was before the TA joined it.
over_threshold_before(w) == over_adc(m_current_window) \/ over_n_channels(m_current_window)

over_threshold(w) == over_adc(w) \/ over_n_channels(w)

\* operator(), when the TA does not, and when it does, complete a TC.
hold_ta(ta) ==
  /\ ~ over_threshold(joined(ta))
  /\ m_current_window' = joined(ta)
  /\ UNCHANGED output_tc

\* A plausible slip: as in the commented-out line, the next window starts with
\* the TA that has just been given out.
emit_tc_and_reset(ta) ==
  /\ over_threshold(joined(ta))
  /\ output_tc' = Append(output_tc, construct_tc(joined(ta)))
  /\ m_current_window' = reset(joined(ta), ta)

emit_tc(ta) ==
  /\ over_threshold(joined(ta))
  /\ output_tc' = Append(output_tc, construct_tc(joined(ta)))
  /\ m_current_window' = clear(joined(ta))

receive_and_judge(ta) ==
  /\ hold_ta(ta) \/ emit_tc(ta)
  /\ take(ta)
  /\ UNCHANGED <<bundleVars, m_activity, m_activity_count>>

=============================================================================
