--------------- MODULE TriggerCandidateMakerPlaneCoincidence ---------------
(***************************************************************************)
(* The PlaneCoincidence TC maker: the shared TAWindow, and triggering on   *)
(* channels refused.                                                       *)
(***************************************************************************)
EXTENDS CandidateOnClose

configure_pc(config) ==
  LET new == updated(config)
  IN  configure(config, ~ new["trigger_on_n_channels"])

\* operator()
receive_pc(ta) ==
  receive_and_close(ta, clear(reset(m_current_window, ta)),
                    move(m_current_window, ta, m_config["window_length"]))

=============================================================================
