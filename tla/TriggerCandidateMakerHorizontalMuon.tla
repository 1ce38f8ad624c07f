---------------- MODULE TriggerCandidateMakerHorizontalMuon ----------------
(***************************************************************************)
(* The HorizontalMuon TC maker triggers on charge or on channels: exactly  *)
(* one of the two must be switched on.                                     *)
(***************************************************************************)
EXTENDS CandidateWindow

configure_hm(config) ==
  LET new == updated(config)
  IN  configure(config, new["trigger_on_adc"] # new["trigger_on_n_channels"])

\* operator()
receive_hm(ta) == receive_and_judge(ta)

=============================================================================
