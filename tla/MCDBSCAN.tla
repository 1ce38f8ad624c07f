------------------------------ MODULE MCDBSCAN ------------------------------
EXTENDS TriggerActivityMakerDBSCAN

MCDefaults == [eps |-> 2, min_pts |-> 3]

MCConfigs == { <<>>, [min_pts |-> 2] }

OnChannels(chs) ==
  { [adc_integral |-> 1, channel |-> ch, time_over_threshold |-> 1] : ch \in chs }

MCPayloads == OnChannels(1 .. 3)

\* Streams that begin on channel 3 are the mirror image of those on channel 1.
MCFirstTPs == {3} \X {1, 2}

\* Two groups of three and a hit between them.
CoreDefaults == [eps |-> 2, min_pts |-> 4]
CoreConfigs == { <<>> }
CorePayloads == OnChannels(0 .. 4)
CoreFirstTPs == {1} \X (0 .. 4)
=============================================================================
