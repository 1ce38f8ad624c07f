--------------------- MODULE MCTriggerCandidateFactory ---------------------
EXTENDS TriggerCandidateFactory, TLC

\* As built, nothing is switched on in the windowed makers.
MCWindowed ==
  [trigger_on_adc |-> FALSE, trigger_on_n_channels |-> FALSE, adc_threshold |-> 3,
   n_channels_threshold |-> 1, window_length |-> 3,
   readout_window_ticks_before |-> 2, readout_window_ticks_after |-> 1]

MCDefaults ==
  [m \in Judging \cup Closing |-> MCWindowed]
  @@ [m \in {"ChannelDistance", "DBSCAN"} |-> [max_tp_count |-> 4]]
  @@ [BundleN |-> [bundle_size |-> 1],
      Prescale |-> [prescale |-> 1, readout_window_ticks_before |-> 0,
                    readout_window_ticks_after |-> 0],
      ADCSimpleWindow |-> <<>>, Supernova |-> <<>>]

\* One trigger, the other, both and neither.
MCSwitches ==
  { [trigger_on_adc |-> TRUE], [trigger_on_n_channels |-> TRUE],
    [trigger_on_adc |-> TRUE, trigger_on_n_channels |-> TRUE],
    [trigger_on_adc |-> FALSE, trigger_on_n_channels |-> FALSE, window_length |-> 2] }

MCConfigs ==
  [m \in Judging \cup Closing |-> MCSwitches]
  @@ [m \in {"ChannelDistance", "DBSCAN"} |-> {}]
  @@ [BundleN |-> {[bundle_size |-> 0], [bundle_size |-> 2], [bundle_size |-> 3]},
      Prescale |-> {[prescale |-> 2, readout_window_ticks_before |-> 2],
                    [readout_window_ticks_after |-> 3]},
      ADCSimpleWindow |-> {}, Supernova |-> {}]

MCPayloads ==
  { [adc_integral |-> 1, channels |-> <<1>>, lasts |-> 1],
    [adc_integral |-> 3, channels |-> <<1, 1>>, lasts |-> 4],
    [adc_integral |-> 1, channels |-> <<1, 1, 2>>, lasts |-> 2] }

MCSymmetry == Permutations(Regions)
=============================================================================
