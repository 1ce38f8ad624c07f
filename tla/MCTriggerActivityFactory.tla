---------------------- MODULE MCTriggerActivityFactory ----------------------
EXTENDS TriggerActivityFactory

\* A muon maker that triggers on nothing until it is configured.
MCDefaults ==
  [HorizontalMuon |->
     [trigger_on_adc |-> FALSE, trigger_on_n_channels |-> FALSE,
      trigger_on_adjacency |-> FALSE, trigger_on_tot |-> FALSE,
      adc_threshold |-> 3, n_channels_threshold |-> 1, adjacency_threshold |-> 1,
      tot_threshold |-> 1, adj_tolerance |-> 0, window_length |-> 3, prescale |-> 1],
   ChannelAdjacency |->
     [window_length |-> 3, adj_tolerance |-> 2, adjacency_threshold |-> 1, prescale |-> 1],
   MichelElectron |->
     [window_length |-> 6, adj_tolerance |-> 0, adjacency_threshold |-> 2],
   PlaneCoincidence |->
     [window_length |-> 3, adj_tolerance |-> 2, adjacency_threshold |-> 2,
      adc_threshold |-> 4],
   Prescale |-> [prescale |-> 1],
   BundleN |-> [bundle_size |-> 1],
   ChannelDistance |-> [min_tps |-> 2, window_length |-> 3, max_channel_distance |-> 1],
   Supernova |-> <<>>]

MCConfigs ==
  [HorizontalMuon |->
     { [trigger_on_adc |-> TRUE, prescale |-> 2],
       [trigger_on_n_channels |-> TRUE, trigger_on_adc |-> TRUE],
       [trigger_on_n_channels |-> TRUE, prescale |-> 3, window_length |-> 2],
       [trigger_on_adjacency |-> TRUE],
       [trigger_on_adjacency |-> TRUE, adjacency_threshold |-> 2, trigger_on_tot |-> TRUE],
       [trigger_on_adjacency |-> TRUE, adj_tolerance |-> 2, adjacency_threshold |-> 2] },
   ChannelAdjacency |-> { [prescale |-> 2], [adj_tolerance |-> 0, window_length |-> 5] },
   MichelElectron |-> {},
   PlaneCoincidence |-> { [adc_threshold |-> 2, adjacency_threshold |-> 1] },
   Prescale |-> { [prescale |-> 2], [prescale |-> 3] },
   BundleN |-> { [bundle_size |-> 0], [bundle_size |-> 2], [bundle_size |-> 3] },
   ChannelDistance |-> { [max_channel_distance |-> 2, min_tps |-> 3] },
   Supernova |-> {}]

\* Wires 1, 2 and 3, and 5, two wires on; each with a charge of its own.
MCPayloads ==
  { [adc_integral |-> 1, channel |-> 1, time_over_threshold |-> 1],
    [adc_integral |-> 3, channel |-> 2, time_over_threshold |-> 1],
    [adc_integral |-> 1, channel |-> 3, time_over_threshold |-> 2],
    [adc_integral |-> 2, channel |-> 5, time_over_threshold |-> 2] }

MCPlaneOf == [ch \in Channels |-> CASE ch \in {1, 2} -> "Z" [] ch = 3 -> "U" [] ch = 5 -> "Y"]

MCStreams ==
  [HorizontalMuon |-> [gaps |-> {0, 2, 4}, channels |-> {1, 2, 5}, tps |-> 5],
   ChannelAdjacency |-> [gaps |-> {0, 4}, channels |-> {1, 2, 3, 5}, tps |-> 5],
   MichelElectron |-> [gaps |-> {1, 6}, channels |-> {1, 2, 3}, tps |-> 6],
   PlaneCoincidence |-> [gaps |-> {0, 2, 4}, channels |-> {1, 2, 3, 5}, tps |-> 4],
   Prescale |-> [gaps |-> {0, 2}, channels |-> {1, 2}, tps |-> 5],
   BundleN |-> [gaps |-> {0, 2}, channels |-> {1, 2}, tps |-> 5],
   ChannelDistance |-> [gaps |-> {0, 2, 4}, channels |-> {1, 2, 3, 5}, tps |-> 4],
   Supernova |-> [gaps |-> {0, 2, 4}, channels |-> {1, 3, 5}, tps |-> 4]]
=============================================================================
