----------------------- MODULE TriggerActivityBundle -----------------------
(***************************************************************************)
(* The TA makers without a TPWindow: Prescale gives out every              *)
(* m_prescale-th TP, BundleN every m_bundle_size of them, ChannelDistance  *)
(* those close to each other in channel, and Supernova those close in time *)
(* or channel.                                                             *)
(***************************************************************************)
EXTENDS TriggerActivityMaker, Adjacency

CONSTANTS
  TimeTolerance,     \* Supernova's m_time_tolerance, 250
  ChannelTolerance   \* and m_channel_tolerance, 2

ASSUME ToleranceAssumption == {TimeTolerance, ChannelTolerance} \subseteq Nat

\* Channels, and how far apart ChannelDistance lets them be, are uint32_t.
ASSUME ChannelAssumption ==
  /\ Channels \subseteq 0 .. ChannelModulus - 1
  /\ \A m \in Makers : \A config \in Configs[m] \cup {Defaults[m]} :
       "max_channel_distance" \in DOMAIN config =>
         config["max_channel_distance"] < ChannelModulus

\* set_ta_attributes(): the charge is added up when the TA goes out, and 64 bits
\* wide there.
ta_of_tps(tps) == ta_of(tps[1].time_start, TotalAdc(tps), tps)

-----------------------------------------------------------------------------
(* Prescale *)

\* A plausible slip: the TP is counted before the test.
passes_counted == (m_primitive_count + 1) % m_config["prescale"] = 0

passes == m_primitive_count % m_config["prescale"] = 0

receive_prescale(tp) ==
  /\ m_primitive_count' = m_primitive_count + 1
  /\ output_ta' = IF passes THEN Append(output_ta, ta_of_tps(<<tp>>)) ELSE output_ta
  /\ take(tp)
  /\ UNCHANGED <<windowVars, bundleVars, m_ta_count>>

-----------------------------------------------------------------------------
(* BundleN *)

\* bundle_condition(), or the bundle is larger than it ever should be (with a
\* bundle_size of 0).
bundle_full(tps) == Len(tps) >= m_config["bundle_size"]

grow_bundle(tp) ==
  /\ ~ bundle_full(Append(m_current_ta, tp))
  /\ m_current_ta' = Append(m_current_ta, tp)
  /\ UNCHANGED output_ta

emit_bundle(tp) ==
  /\ bundle_full(Append(m_current_ta, tp))
  /\ output_ta' = Append(output_ta, ta_of_tps(Append(m_current_ta, tp)))
  /\ m_current_ta' = <<>>

receive_bundle(tp) ==
  /\ grow_bundle(tp) \/ emit_bundle(tp)
  /\ take(tp)
  /\ UNCHANGED <<windowVars, m_bounds, m_extent, counters>>

-----------------------------------------------------------------------------
(* ChannelDistance *)

\* The bounds a TP sets, as unsigned numbers.
bounds_of(tp) ==
  [lower |-> UIntMinus(tp.channel, m_config["max_channel_distance"], ChannelModulus),
   upper |-> UIntPlus(tp.channel, m_config["max_channel_distance"], ChannelModulus)]

\* A plausible slip: the bounds are those of the latest TP.
widen_to_last(bounds, tp) == bounds_of(tp)

widen(bounds, tp) ==
  LET b == bounds_of(tp)
  IN  [lower |-> IF b.lower < bounds.lower THEN b.lower ELSE bounds.lower,
       upper |-> IF b.upper > bounds.upper THEN b.upper ELSE bounds.upper]

set_new_ta(tp) ==
  /\ m_current_ta' = <<tp>>
  /\ m_bounds' = bounds_of(tp)

too_late(tp) ==
  elapsed(tp.time_start, m_current_ta[1].time_start) > m_config["window_length"]

out_of_bounds(tp) == tp.channel > m_bounds.upper \/ tp.channel < m_bounds.lower

start_cluster(tp) ==
  /\ m_current_ta = <<>>
  /\ set_new_ta(tp)
  /\ UNCHANGED output_ta

emit_cluster(tp) ==
  /\ m_current_ta # <<>> /\ too_late(tp)
  /\ Len(m_current_ta) >= m_config["min_tps"]
  /\ output_ta' = Append(output_ta, ta_of_tps(m_current_ta))
  /\ set_new_ta(tp)

drop_cluster(tp) ==
  /\ m_current_ta # <<>> /\ too_late(tp)
  /\ Len(m_current_ta) < m_config["min_tps"]
  /\ set_new_ta(tp)
  /\ UNCHANGED output_ta

skip_tp(tp) ==
  /\ m_current_ta # <<>> /\ ~ too_late(tp)
  /\ out_of_bounds(tp)
  /\ UNCHANGED <<m_current_ta, m_bounds, output_ta>>

grow_cluster(tp) ==
  /\ m_current_ta # <<>> /\ ~ too_late(tp)
  /\ ~ out_of_bounds(tp)
  /\ m_current_ta' = Append(m_current_ta, tp)
  /\ m_bounds' = widen(m_bounds, tp)
  /\ UNCHANGED output_ta

receive_distance(tp) ==
  /\ \/ start_cluster(tp)
     \/ emit_cluster(tp)
     \/ drop_cluster(tp)
     \/ skip_tp(tp)
     \/ grow_cluster(tp)
  /\ take(tp)
  /\ UNCHANGED <<windowVars, m_extent, counters>>

-----------------------------------------------------------------------------
(* Supernova *)

tend(tp) == (tp.time_start + tp.time_over_threshold) % TimeModulus

Apart(a, b) == IF a > b THEN a - b ELSE b - a

\* x is close to an end of lo..hi, or strictly inside it.
near(x, lo, hi, tolerance) ==
  \/ Apart(x, lo) < tolerance
  \/ Apart(x, hi) < tolerance
  \/ lo < x /\ x < hi

is_time_consistent(tp, x) ==
  \E t \in {tp.time_start, tend(tp)} : near(t, x.time_start, x.time_end, TimeTolerance)

is_channel_consistent(tp, x) ==
  near(tp.channel, x.channel_start, x.channel_end, ChannelTolerance)

extent_of(tp) ==
  [time_start |-> tp.time_start, time_end |-> tend(tp),
   channel_start |-> tp.channel, channel_end |-> tp.channel,
   adc_integral |-> tp.adc_integral]

\* A plausible slip: the lower channel is left as it is.
merged_upwards(x, tp) ==
  [time_start |-> IF tp.time_start < x.time_start THEN tp.time_start ELSE x.time_start,
   time_end |-> IF tend(tp) > x.time_end THEN tend(tp) ELSE x.time_end,
   channel_start |-> x.channel_start,
   channel_end |-> IF tp.channel > x.channel_end THEN tp.channel ELSE x.channel_end,
   adc_integral |-> x.adc_integral + tp.adc_integral]

merged(x, tp) ==
  [merged_upwards(x, tp) EXCEPT !.channel_start =
     IF tp.channel < @ THEN tp.channel ELSE @]

MakeTriggerActivity == ta_of(m_extent.time_start, m_extent.adc_integral, m_current_ta)

consistent(tp) ==
  is_time_consistent(tp, m_extent) \/ is_channel_consistent(tp, m_extent)

\* No TA in progress; or so it seems, if one was started by a TP at time 0.
begin_supernova(tp) ==
  /\ m_extent.time_start = 0
  /\ m_current_ta' = <<tp>>
  /\ m_extent' = extent_of(tp)
  /\ UNCHANGED output_ta

emit_supernova(tp) ==
  /\ m_extent.time_start # 0
  /\ ~ consistent(tp)
  /\ output_ta' = Append(output_ta, MakeTriggerActivity)
  /\ m_current_ta' = <<tp>>
  /\ m_extent' = extent_of(tp)

grow_supernova(tp) ==
  /\ m_extent.time_start # 0
  /\ consistent(tp)
  /\ m_current_ta' = Append(m_current_ta, tp)
  /\ m_extent' = merged(m_extent, tp)
  /\ UNCHANGED output_ta

receive_supernova(tp) ==
  /\ begin_supernova(tp) \/ emit_supernova(tp) \/ grow_supernova(tp)
  /\ take(tp)
  /\ UNCHANGED <<windowVars, m_bounds, counters>>

\* flush() at the end of the stream.
flush ==
  /\ output_ta' = Append(output_ta, MakeTriggerActivity)
  /\ UNCHANGED <<maker, m_config, windowVars, bundleVars, counters, received>>

=============================================================================
