------------------------- MODULE MCADCSimpleWindow -------------------------
EXTENDS TriggerActivityMakerADCSimpleWindow

\* A window of 3 ticks; the JSON may leave either key, or both, at its default.
MCDefaults == [adc_threshold |-> 4, window_length |-> 3]
MCConfigs == { [adc_threshold |-> 3, window_length |-> 2],
               [adc_threshold |-> 2], [window_length |-> 0] }

MCPayloads == [adc_integral : {1, 3}, channel : {1}, time_over_threshold : {1}]
=============================================================================
