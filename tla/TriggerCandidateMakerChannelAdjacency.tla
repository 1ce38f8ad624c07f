--------------- MODULE TriggerCandidateMakerChannelAdjacency ---------------
(***************************************************************************)
(* The ChannelAdjacency TC maker triggers on charge, on channels or on     *)
(* both: only the configuration that could never trigger is refused.       *)
(***************************************************************************)
EXTENDS CandidateWindow

configure_ca(config) ==
  LET new == updated(config)
  IN  configure(config, new["trigger_on_adc"] \/ new["trigger_on_n_channels"])

\* operator(): charge is looked at first, and channels if it is not enough.
receive_ca(ta) == receive_and_judge(ta)

=============================================================================
