-------------------------- MODULE CandidateBundle --------------------------
(***************************************************************************)
(* The TC makers that look at no window: ADCSimpleWindow and Prescale make *)
(* a TC of a single TA; BundleN, ChannelDistance and DBSCAN collect TAs up *)
(* to a number of TAs or of TPs; Supernova counts the busy TAs of the last *)
(* ten seconds.                                                            *)
(***************************************************************************)
EXTENDS TriggerCandidateMaker

CONSTANTS
  SupernovaWindow,        \* 500'000'000 ticks, the default of m_time_window
                          \* and the literal taken off the readout start
  SupernovaThreshold,     \* 3, m_threshold
  SupernovaHitThreshold   \* 2, m_hit_threshold

ASSUME CandidateBundleAssumption ==
  /\ {SupernovaWindow, SupernovaThreshold, SupernovaHitThreshold} \subseteq Nat
  /\ SupernovaWindow \in Timestamps
  /\ \A config \in Configs["Prescale"] : "prescale" \in DOMAIN config => config["prescale"] # 0

n_tps(ta) == Len(ta.channels)

-----------------------------------------------------------------------------
(* ADCSimpleWindow and Prescale *)

receive_adcsw(ta) ==
  /\ output_tc' = Append(output_tc,
                         tc_of(ta.time_start, ta.time_end, ta.time_start, <<ta>>))
  /\ take(ta)
  /\ UNCHANGED members

\* configure(): the readout window is looked at only if there is a prescale.
configure_prescale(config) ==
  configure(IF "prescale" \in DOMAIN config THEN config ELSE <<>>, TRUE)

prescaled_tc(ta) ==
  tc_of(UIntMinus(ta.time_start, m_config["readout_window_ticks_before"], TimeModulus),
        UIntPlus(ta.time_end, m_config["readout_window_ticks_after"], TimeModulus),
        ta.time_start, <<ta>>)

receive_prescale(ta) ==
  /\ output_tc' = IF m_activity_count % m_config["prescale"] = 0
                  THEN Append(output_tc, prescaled_tc(ta)) ELSE output_tc
  /\ m_activity_count' = m_activity_count + 1
  /\ take(ta)
  /\ UNCHANGED <<m_current_window, bundleVars, m_activity>>

-----------------------------------------------------------------------------
(* BundleN, ChannelDistance and DBSCAN *)

\* set_tc_attributes(); the time of the candidate is the first TA's in one,
\* the last TA's in the other two.
bundled_tc(inputs, candidate) ==
  tc_of(inputs[1].time_start, inputs[Len(inputs)].time_end, candidate.time_start, inputs)

\* The size is tested twice, for equality and for being passed: the second
\* test ("Should never reach this step") is true when bundle_size is 0.
bundle_ready(inputs) ==
  Len(inputs) = m_config["bundle_size"] \/ Len(inputs) > m_config["bundle_size"]

grow_bundle(ta) ==
  /\ ~ bundle_ready(Append(m_current_tc, ta))
  /\ m_current_tc' = Append(m_current_tc, ta)
  /\ UNCHANGED output_tc

emit_bundle(ta) ==
  /\ bundle_ready(Append(m_current_tc, ta))
  /\ output_tc' = Append(output_tc, bundled_tc(Append(m_current_tc, ta),
                                               Append(m_current_tc, ta)[1]))
  /\ m_current_tc' = <<>>

receive_bundle(ta) ==
  /\ grow_bundle(ta) \/ emit_bundle(ta)
  /\ take(ta)
  /\ UNCHANGED <<m_current_window, m_current_tp_count, m_activity, m_activity_count>>

\* set_new_tc()
set_new_tc(ta) ==
  /\ m_current_tc' = <<ta>>
  /\ m_current_tp_count' = n_tps(ta) % CountModulus

\* A plausible slip: the TA that closes a TC is not in the next one either.
emit_by_tp_count_and_empty(ta) ==
  /\ m_current_tc # <<>>
  /\ n_tps(ta) + m_current_tp_count > m_config["max_tp_count"]
  /\ output_tc' = Append(output_tc, bundled_tc(m_current_tc, m_current_tc[Len(m_current_tc)]))
  /\ m_current_tc' = <<>>
  /\ m_current_tp_count' = 0

start_by_tp_count(ta) ==
  /\ m_current_tc = <<>>
  /\ set_new_tc(ta)
  /\ UNCHANGED output_tc

emit_by_tp_count(ta) ==
  /\ m_current_tc # <<>>
  /\ n_tps(ta) + m_current_tp_count > m_config["max_tp_count"]
  /\ output_tc' = Append(output_tc, bundled_tc(m_current_tc, m_current_tc[Len(m_current_tc)]))
  /\ set_new_tc(ta)

grow_by_tp_count(ta) ==
  /\ m_current_tc # <<>>
  /\ n_tps(ta) + m_current_tp_count <= m_config["max_tp_count"]
  /\ m_current_tc' = Append(m_current_tc, ta)
  /\ m_current_tp_count' = UIntPlus(m_current_tp_count, n_tps(ta), CountModulus)
  /\ UNCHANGED output_tc

\* operator() of ChannelDistance and, word for word, of DBSCAN
receive_by_tp_count(ta) ==
  /\ start_by_tp_count(ta) \/ emit_by_tp_count(ta) \/ grow_by_tp_count(ta)
  /\ take(ta)
  /\ UNCHANGED <<m_current_window, m_activity, m_activity_count>>

-----------------------------------------------------------------------------
(* Supernova *)

\* FlushOldActivity(): the comparison is signed, so nothing wraps here.
FlushOldActivity(time_now) ==
  LET kept[k \in 0 .. Len(m_activity)] ==
        IF k = 0 THEN <<>>
        ELSE IF m_activity[k].time_start < time_now - SupernovaWindow THEN kept[k - 1]
        ELSE Append(kept[k - 1], m_activity[k])
  IN  kept[Len(m_activity)]

counted(ta) ==
  FlushOldActivity(ta.time_start)
    \o (IF n_tps(ta) > SupernovaHitThreshold THEN <<ta>> ELSE <<>>)

wait_for_more(ta) ==
  /\ Len(counted(ta)) <= SupernovaThreshold
  /\ m_activity' = counted(ta)
  /\ UNCHANGED output_tc

emit_supernova(ta) ==
  /\ Len(counted(ta)) > SupernovaThreshold
  /\ output_tc' = Append(output_tc,
                         tc_of(UIntMinus(ta.time_start, SupernovaWindow, TimeModulus),
                               ta.time_end, ta.time_start, counted(ta)))
  /\ m_activity' = <<>>

receive_supernova(ta) ==
  /\ wait_for_more(ta) \/ emit_supernova(ta)
  /\ take(ta)
  /\ UNCHANGED <<m_current_window, bundleVars, m_activity_count>>

=============================================================================
