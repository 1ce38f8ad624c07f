---------------------- MODULE TriggerCandidateFactory ----------------------
(***************************************************************************)
(* The caller of the TC makers: it builds one of them by name, configures  *)
(* it, and feeds it the TAs of all regions.  Whatever the maker, the       *)
(* caller relies on the promises below.                                    *)
(***************************************************************************)
EXTENDS TriggerCandidateMakerHorizontalMuon, TriggerCandidateMakerChannelAdjacency,
        TriggerCandidateMakerMichelElectron, TriggerCandidateMakerPlaneCoincidence,
        CandidateBundle

Judging == {"HorizontalMuon", "ChannelAdjacency"}
Closing == {"MichelElectron", "PlaneCoincidence"}
Bundling == {"BundleN", "ChannelDistance", "DBSCAN"}

\* The members of the makers with a window; PlaneCoincidence, which refuses to
\* trigger on channels, is not built to do it either.
WindowMembers ==
  {"trigger_on_adc", "trigger_on_n_channels", "adc_threshold", "n_channels_threshold",
   "window_length", "readout_window_ticks_before", "readout_window_ticks_after"}

ASSUME TriggerCandidateFactoryAssumption ==
  /\ Makers = Judging \cup Closing \cup Bundling
                \cup {"ADCSimpleWindow", "Prescale", "Supernova"}
  /\ \A m \in Judging \cup Closing : DOMAIN Defaults[m] = WindowMembers
  /\ DOMAIN Defaults["BundleN"] = {"bundle_size"}
  /\ \A m \in {"ChannelDistance", "DBSCAN"} : DOMAIN Defaults[m] = {"max_tp_count"}
  /\ DOMAIN Defaults["Prescale"] =
       {"prescale", "readout_window_ticks_before", "readout_window_ticks_after"}
  /\ Defaults["Prescale"]["prescale"] # 0
  /\ ~ Defaults["PlaneCoincidence"]["trigger_on_n_channels"]

configured(config) ==
  \/ maker = "HorizontalMuon" /\ configure_hm(config)
  \/ maker = "ChannelAdjacency" /\ configure_ca(config)
  \/ maker = "MichelElectron" /\ configure_me(config)
  \/ maker = "PlaneCoincidence" /\ configure_pc(config)
  \/ maker = "Prescale" /\ configure_prescale(config)
  \/ maker \in Bundling /\ configure(config, TRUE)

call(ta) ==
  \/ maker = "HorizontalMuon" /\ receive_hm(ta)
  \/ maker = "ChannelAdjacency" /\ receive_ca(ta)
  \/ maker = "MichelElectron" /\ receive_me(ta)
  \/ maker = "PlaneCoincidence" /\ receive_pc(ta)
  \/ maker = "ADCSimpleWindow" /\ receive_adcsw(ta)
  \/ maker = "Prescale" /\ receive_prescale(ta)
  \/ maker = "BundleN" /\ receive_bundle(ta)
  \/ maker \in {"ChannelDistance", "DBSCAN"} /\ receive_by_tp_count(ta)
  \/ maker = "Supernova" /\ receive_supernova(ta)

\* The caller feeds TAs only to a maker whose configuration was accepted.
Next ==
  \/ \E name \in Makers : build_maker(name)
  \/ maker \in Makers /\ \E config \in Configs[maker] : configured(config)
  \/ maker \in Makers /\ ~ rejected /\ \E ta \in NextTAs(received) : call(ta)

Spec == Init /\ [][Next]_vars

-----------------------------------------------------------------------------
(* Properties *)

\* Every member stays within its type, the readout times included.
TypeOK ==
  /\ maker \in Makers \cup {NoMaker}
  /\ maker \in Makers => ValidConfig(m_config, maker)
  /\ rejected \in BOOLEAN
  /\ m_current_window \in Windows
  /\ m_current_tc \in Seq(TriggerActivity)
  /\ m_current_tp_count \in 0 .. CountModulus - 1
  /\ m_activity \in Seq(TriggerActivity)
  /\ m_activity_count \in Nat
  /\ output_tc \in Seq([time_start : Timestamps, time_end : Timestamps,
                        time_candidate : Times, inputs : Seq(TriggerActivity)])
  /\ received \in Seq(TriggerActivity)

\* The two totals a window keeps by hand across add, move, reset and clear are
\* those of the TAs in it whenever there are any, however late some of them
\* came; the stale ones of a cleared Michel window are never used.
TotalsAgreeWhenUsed ==
  ~ is_empty(m_current_window) =>
    ChargeAgrees(m_current_window) /\ CountsAgree(m_current_window)

\* A TAWindow is in time order, starts at its first TA and is no longer than
\* window_length, in whatever order the regions' TAs arrive.  (The window of
\* MichelElectron is not: see the run michel_candidate_start.)
WindowSpan ==
  maker \in Judging \cup {"PlaneCoincidence"} =>
    SpanAgrees(m_current_window, m_config["window_length"])

HeldList ==
  CASE maker \in Bundling -> m_current_tc
    [] maker = "Supernova" -> m_activity
    [] OTHER -> m_current_window.inputs

Held == Ids(HeldList)
Emitted == UNION { Ids(output_tc[k].inputs) : k \in DOMAIN output_tc }

\* Every maker is an instance of the abstract windowing discipline: no TA is in
\* two TCs, none comes back, and TCs are never empty.
Segments ==
  INSTANCE Segmentation WITH
    received <- Len(received),
    held <- Held,
    segments <- [k \in DOMAIN output_tc |-> Ids(output_tc[k].inputs)]

SegmentsSpec == Segments!Spec

\* The TAs of all regions together came in order of time.
Ordered ==
  \A i, j \in DOMAIN received : i < j => received[i].time_start <= received[j].time_start

span(tas) == tas[Len(tas)].time_start - tas[1].time_start

\* With TAs in order, one that is neither in a TC nor held any more is out of
\* date: a TA at least a window younger has arrived.
NoTALostEarly ==
  (Ordered /\ maker \in Judging \cup {"PlaneCoincidence"}) =>
    \A i \in DOMAIN received :
      \/ i \in Emitted \cup Held
      \/ \E j \in DOMAIN received :
           received[j].time_start >= received[i].time_start + m_config["window_length"]

\* In whatever order they come, by the comment on TAWindow::move(), a TA goes
\* only for one that is too far from it to be in the same window.
NoTALostToANeighbour ==
  maker \in Judging \cup {"PlaneCoincidence"} =>
    \A i \in DOMAIN received :
      \/ i \in Emitted \cup Held
      \/ \E j \in DOMAIN received :
           \/ received[j].time_start >= received[i].time_start + m_config["window_length"]
           \/ received[i].time_start >= received[j].time_start + m_config["window_length"]

\* Whether a list of TAs, looked at afresh, is over a threshold in use.
Triggers(tas) ==
  \/ /\ m_config["trigger_on_adc"]
     /\ TotalAdc(tas) > m_config["adc_threshold"]
  \/ /\ m_config["trigger_on_n_channels"]
     /\ Cardinality(HitChannels(tas)) > m_config["n_channels_threshold"]

\* The TPs of a list of TAs, each named by its TA's place and its own.
TPsOf(tas) == UNION { {k} \X DOMAIN tas[k].channels : k \in DOMAIN tas }

CountTPs(tas) == Cardinality(TPsOf(tas))

\* The reason a list of TAs is good for a TC of this maker.  (The window of
\* MichelElectron may be longer than it should when a TA is late, and then
\* only: see the run michel_candidate_start.)
Justified(tas) ==
  CASE maker \in Judging ->
         Triggers(tas) /\ (span(tas) < m_config["window_length"] \/ Len(tas) = 1)
    [] maker \in Closing /\ pass_through -> Len(tas) = 1
    [] maker \in Closing /\ ~ pass_through ->
         /\ Triggers(tas)
         /\ \/ span(tas) < m_config["window_length"] \/ Len(tas) = 1
            \/ maker = "MichelElectron" /\ ~ Ordered
    [] maker = "BundleN" ->
         Len(tas) = IF m_config["bundle_size"] = 0 THEN 1 ELSE m_config["bundle_size"]
    [] maker \in {"ChannelDistance", "DBSCAN"} ->
         Len(tas) = 1 \/ CountTPs(tas) <= m_config["max_tp_count"]
    [] maker = "Prescale" -> Len(tas) = 1 /\ (tas[1].id - 1) % m_config["prescale"] = 0
    [] maker = "Supernova" ->
         /\ Len(tas) > SupernovaThreshold
         /\ \A k \in DOMAIN tas : n_tps(tas[k]) > SupernovaHitThreshold
         /\ Ordered => span(tas) <= SupernovaWindow
    [] OTHER -> Len(tas) = 1

\* Every TC is justified by its own TAs, counted again from nothing.
TCsJustified == \A k \in DOMAIN output_tc : Justified(output_tc[k].inputs)

\* When a stretch of an ordered stream is good for a TC, one of its TAs is in
\* a TC already or, for a maker that judges a window on closing it, all of
\* them are still held.  (MichelElectron throws away a window that is over the
\* channel threshold alone: its line that would emit it is commented out.)
NoCandidateMissed ==
  Ordered =>
    \A i \in DOMAIN received : \A j \in i .. Len(received) :
      LET tas == SubSeq(received, i, j)
      IN  (\/ /\ maker \in Judging \cup Closing
              /\ maker = "MichelElectron" => m_config["trigger_on_adc"]
              /\ span(tas) < m_config["window_length"]
              /\ Triggers(tas)
           \/ /\ maker = "Supernova"
              /\ Justified(tas))
          => \/ (i .. j) \cap Emitted # {}
             \/ maker \in Closing /\ (i .. j) \subseteq Held

\* The makers that only repackage TAs lose none of them.
NothingDropped ==
  (\/ maker \in Bundling \cup {"ADCSimpleWindow"}
   \/ maker \in Closing /\ pass_through) =>
    Emitted \cup Held = DOMAIN received

\* In the readout of a TC each of its TAs begins, and the last one ends, with
\* all that end no later: in any order of arrival for PlaneCoincidence; the
\* others count on "TAs are inherently time ordered".  (The makers look at the
\* end of the last TA only: an earlier one that lasts longer is cut off.)
ReadoutCoversItsTAs ==
  (\/ maker = "PlaneCoincidence"
   \/ Ordered /\ maker \in Bundling \cup {"ADCSimpleWindow", "Prescale", "Supernova"}) =>
    \A k \in DOMAIN output_tc :
      \A i \in DOMAIN output_tc[k].inputs :
        LET tc == output_tc[k]
            ta == tc.inputs[i]
            latest == tc.inputs[Len(tc.inputs)]
        IN  /\ fits(ta.time_start, tc.time_start, elapsed(tc.time_end, tc.time_start))
            /\ ta.time_end <= latest.time_end => ta.time_end <= tc.time_end

\* A TC of MichelElectron begins where its first TA does: time_start is kept
\* by hand apart from the list of TAs.
MichelTCStartsAtItsFirstTA ==
  maker = "MichelElectron" =>
    \A k \in DOMAIN output_tc :
      output_tc[k].time_candidate = output_tc[k].inputs[1].time_start

=============================================================================
