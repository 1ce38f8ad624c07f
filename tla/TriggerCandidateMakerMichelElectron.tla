---------------- MODULE TriggerCandidateMakerMichelElectron ----------------
(***************************************************************************)
(* The MichelElectron TC maker, with the window class of its own: a list   *)
(* kept as TAWindow keeps it, but cleared and moved differently.           *)
(***************************************************************************)
EXTENDS CandidateOnClose

\* Window::clear() empties the list and nothing else.
clear_me(w) == [w EXCEPT !.inputs = <<>>]

\* Window::move() adds the TA even when nothing was kept, where TAWindow
\* would reset: the window's start time stays what it was.
move_me(w, ta, window_length) ==
  LET n == n_to_erase(w.inputs, ta.time_start, window_length)
      emptied == [time_start |-> w.time_start,
                  adc_integral |-> (w.adc_integral - TotalAdc(w.inputs)) % AdcModulus,
                  channel_states |-> unhit_front(w, n),
                  inputs |-> <<>>]
  IN  add(IF n < Len(w.inputs) THEN erase_front(w, n) ELSE emptied, ta)

\* configure(): the two triggers together are refused.
configure_me(config) ==
  LET new == updated(config)
  IN  configure(config, ~ (new["trigger_on_adc"] /\ new["trigger_on_n_channels"]))

\* operator()
receive_me(ta) ==
  receive_and_close(ta, clear_me(reset(m_current_window, ta)),
                    move_me(m_current_window, ta, m_config["window_length"]))

=============================================================================
