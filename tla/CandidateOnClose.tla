-------------------------- MODULE CandidateOnClose --------------------------
(***************************************************************************)
(* What the MichelElectron and PlaneCoincidence TC makers have in common:  *)
(* the window is judged only when a TA arrives that does not fit it any    *)
(* more, and with both triggers off each TA becomes a TC by itself.  How a *)
(* window is moved and cleared is left to the maker.                       *)
(***************************************************************************)
EXTENDS CandidateWindow

construct_tc_to_last(w) ==
  tc_of(UIntMinus(w.time_start, m_config["readout_window_ticks_before"], TimeModulus),
        UIntPlus(w.inputs[Len(w.inputs)].time_end,
                 m_config["readout_window_ticks_after"], TimeModulus),
        w.time_start, w.inputs)

pass_through == ~ m_config["trigger_on_adc"] /\ ~ m_config["trigger_on_n_channels"]

start_window(ta) ==
  /\ is_empty(m_current_window)
  /\ ~ pass_through
  /\ m_current_window' = reset(m_current_window, ta)
  /\ UNCHANGED output_tc

pass_ta(ta, cleared) ==
  /\ is_empty(m_current_window)
  /\ pass_through
  /\ output_tc' = Append(output_tc, construct_tc_to_last(reset(m_current_window, ta)))
  /\ m_current_window' = cleared

fill_window(ta) ==
  /\ ~ is_empty(m_current_window)
  /\ in_window(ta)
  /\ m_current_window' = add(m_current_window, ta)
  /\ UNCHANGED output_tc

\* A plausible slip: the TC goes out but its TAs stay in the window.
emit_closed_and_add(ta) ==
  /\ ~ is_empty(m_current_window)
  /\ ~ in_window(ta)
  /\ over_adc(m_current_window)
  /\ output_tc' = Append(output_tc, construct_tc_to_last(m_current_window))
  /\ m_current_window' = add(m_current_window, ta)

emit_closed(ta) ==
  /\ ~ is_empty(m_current_window)
  /\ ~ in_window(ta)
  /\ over_adc(m_current_window)
  /\ output_tc' = Append(output_tc, construct_tc_to_last(m_current_window))
  /\ m_current_window' = reset(m_current_window, ta)

\* The branch that logs "Should not see this!": no TC is made.
drop_closed(ta) ==
  /\ ~ is_empty(m_current_window)
  /\ ~ in_window(ta)
  /\ ~ over_adc(m_current_window)
  /\ over_n_channels(m_current_window)
  /\ m_current_window' = reset(m_current_window, ta)
  /\ UNCHANGED output_tc

slide_window(ta, moved) ==
  /\ ~ is_empty(m_current_window)
  /\ ~ in_window(ta)
  /\ ~ over_threshold(m_current_window)
  /\ m_current_window' = moved
  /\ UNCHANGED output_tc

\* operator(), given what the maker's clear() and move() make of the window
receive_and_close(ta, cleared, moved) ==
  /\ \/ start_window(ta)
     \/ pass_ta(ta, cleared)
     \/ fill_window(ta)
     \/ emit_closed(ta)
     \/ drop_closed(ta)
     \/ slide_window(ta, moved)
  /\ take(ta)
  /\ UNCHANGED <<bundleVars, m_activity, m_activity_count>>

=============================================================================
