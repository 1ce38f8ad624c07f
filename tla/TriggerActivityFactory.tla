----------------------- MODULE TriggerActivityFactory -----------------------
(***************************************************************************)
(* The caller of the TA makers: it builds one of them by name, configures  *)
(* it, feeds it the TPs of one region in order of time, and may flush it   *)
(* when the stream is over.  ADCSimpleWindow, DBSCAN and Triton have       *)
(* modules and runs of their own.                                          *)
(***************************************************************************)
EXTENDS TriggerActivityMakerHorizontalMuon, TriggerActivityMakerChannelAdjacency,
        TriggerActivityMakerMichelElectron, TriggerActivityMakerPlaneCoincidence,
        TriggerActivityBundle

CONSTANT Streams   \* bounds: for each maker, which TPs it is fed and how many

Windowed == {"HorizontalMuon", "ChannelAdjacency", "MichelElectron"}
Bundling == {"BundleN", "ChannelDistance", "Supernova"}

\* The makers that know a window_length.
Timed == Windowed \cup {"PlaneCoincidence", "ChannelDistance"}

\* The members of each maker that configure() may set and operator() uses.
Members ==
  [HorizontalMuon |->
     Switches \cup {"adc_threshold", "n_channels_threshold", "adjacency_threshold",
                   "tot_threshold", "adj_tolerance", "window_length", "prescale"},
   ChannelAdjacency |->
     {"window_length", "adj_tolerance", "adjacency_threshold", "prescale"},
   MichelElectron |-> {"window_length", "adj_tolerance", "adjacency_threshold"},
   PlaneCoincidence |->
     {"window_length", "adj_tolerance", "adjacency_threshold", "adc_threshold"},
   Prescale |-> {"prescale"},
   BundleN |-> {"bundle_size"},
   ChannelDistance |-> {"min_tps", "window_length", "max_channel_distance"},
   Supernova |-> {}]

ASSUME TriggerActivityFactoryAssumption ==
  /\ Makers = Windowed \cup Bundling \cup {"PlaneCoincidence", "Prescale"}
  /\ \A m \in Makers : DOMAIN Defaults[m] = Members[m]
  /\ Streams \in [Makers -> [gaps : SUBSET Gaps, channels : SUBSET Channels, tps : 0 .. MaxTPs]]

\* The TPs the caller may feed to the maker next.
NextTPsFor ==
  LET last == IF received = <<>> THEN 0 ELSE received[Len(received)].time_start
      stream == Streams[maker]
  IN  { tp \in NextTPs(received) :
          /\ Len(received) < stream.tps
          /\ tp.time_start - last \in stream.gaps
          /\ tp.channel \in stream.channels }

call(tp) ==
  \/ maker = "HorizontalMuon" /\ receive_hm(tp)
  \/ maker = "ChannelAdjacency" /\ receive_ca(tp)
  \/ maker = "MichelElectron" /\ receive_me(tp)
  \/ maker = "PlaneCoincidence" /\ receive_pc(tp)
  \/ maker = "Prescale" /\ receive_prescale(tp)
  \/ maker = "BundleN" /\ receive_bundle(tp)
  \/ maker = "ChannelDistance" /\ receive_distance(tp)
  \/ maker = "Supernova" /\ receive_supernova(tp)

\* Only Supernova overrides TriggerActivityMaker::flush(), which does nothing.
end_of_stream ==
  /\ received # <<>> /\ ~ flushed
  /\ flushed' = TRUE
  /\ maker = "Supernova" /\ flush

Next ==
  \/ \E name \in Makers : build_maker(name)
  \/ maker \in Makers /\ \E config \in Configs[maker] : configure(config)
  \/ maker \in Makers /\ ~ flushed /\ \E tp \in NextTPsFor : call(tp)
  \/ end_of_stream

Spec == Init /\ [][Next]_vars

-----------------------------------------------------------------------------
(* Properties *)

\* Every member stays within its type.
TypeOK ==
  /\ maker \in Makers \cup {NoMaker}
  /\ maker \in Makers => ValidConfig(m_config, maker)
  /\ m_current_window \in Windows
  /\ m_plane_windows \in [Planes -> Windows]
  /\ m_current_ta \in Seq(TriggerPrimitive)
  /\ m_bounds \in [lower : 0 .. ChannelModulus - 1, upper : 0 .. ChannelModulus - 1]
  /\ m_extent \in [time_start : Timestamps, time_end : Timestamps, channel_start : Nat,
                   channel_end : Nat, adc_integral : Nat]
  /\ m_ta_count \in 0 .. CountModulus - 1
  /\ m_primitive_count \in Nat
  /\ flushed \in BOOLEAN
  /\ output_ta \in Seq([time_start : Timestamps, adc_integral : Nat,
                        inputs : Seq(TriggerPrimitive)])
  /\ received \in Seq(TriggerPrimitive)

TimesOf(tps) == { tps[i].time_start : i \in DOMAIN tps }
ChannelsOf(tps) == { tps[i].channel : i \in DOMAIN tps }

\* What Supernova should know of a list of TPs.
ExtentOf(tps) ==
  [time_start |-> Min(TimesOf(tps)), time_end |-> Max({ tend(tps[i]) : i \in DOMAIN tps }),
   channel_start |-> Min(ChannelsOf(tps)), channel_end |-> Max(ChannelsOf(tps)),
   adc_integral |-> TotalAdc(tps)]

\* The charges a TA of these TPs may have: theirs, and that of a track of
\* ChannelAdjacency on top of what the memory of its window held.
ChargesOf(tps) ==
  CASE maker = "ChannelAdjacency" ->
         { (o + TotalAdc(tps)) % AdcModulus : o \in {0} \cup Uninitialised }
    [] maker \in (Windowed \ {"ChannelAdjacency"}) \cup {"PlaneCoincidence"} ->
         { TotalAdc(tps) % AdcModulus }
    [] OTHER -> { TotalAdc(tps) }

\* The totals every maker keeps by hand while TPs come and go, the charge and
\* hit counts of its windows and the extent of a Supernova activity, are those
\* of the TPs it holds; each TA has the charge and the start of its own TPs
\* (but for what ChannelAdjacency adds to a charge it has not set).
TotalsAgree ==
  /\ \A w \in {m_current_window} \cup { m_plane_windows[p] : p \in Planes } :
       ChargeAgrees(w) /\ CountsAgree(w)
  /\ maker = "Supernova" /\ m_current_ta # <<>> => m_extent = ExtentOf(m_current_ta)
  /\ \A k \in DOMAIN output_ta :
       LET ta == output_ta[k]
       IN  /\ ta.adc_integral \in ChargesOf(ta.inputs)
           /\ ta.time_start \in TimesOf(ta.inputs)
           /\ \A t \in TimesOf(ta.inputs) : ta.time_start <= t

HeldList ==
  CASE maker \in Windowed -> m_current_window.inputs
    [] maker = "PlaneCoincidence" -> m_plane_windows["Z"].inputs
    [] maker \in Bundling -> IF flushed THEN <<>> ELSE m_current_ta
    [] OTHER -> <<>>

Held == Ids(HeldList)
Emitted == UNION { Ids(output_ta[k].inputs) : k \in DOMAIN output_ta }

\* Every window starts at its oldest TP and is shorter than window_length; a
\* cluster of ChannelDistance is no longer than that.
WindowSpan ==
  /\ maker \in Windowed => SpanAgrees(m_current_window, m_config["window_length"])
  /\ maker = "PlaneCoincidence" =>
       \A p \in Planes : SpanAgrees(m_plane_windows[p], m_config["window_length"])
  /\ maker = "ChannelDistance" =>
       \A t, u \in TimesOf(m_current_ta) : t - u <= m_config["window_length"]

\* Every maker is an instance of the abstract windowing discipline, whatever
\* its conditions and its prescale do: no TP is in two TAs, none comes back,
\* and TAs are never empty and come in order of the stream.  (ChannelAdjacency
\* gives out several TAs at a time and is judged by TAsJustified instead.)
Segments ==
  INSTANCE Segmentation WITH
    received <- Len(received),
    held <- Held,
    segments <- IF maker = "ChannelAdjacency" THEN <<>>
                ELSE [k \in DOMAIN output_ta |-> Ids(output_ta[k].inputs)]

SegmentsSpec == Segments!Spec

\* The TP has been overtaken by one at least window_length younger.
Stale(i) ==
  ~ fits(received[Len(received)].time_start, received[i].time_start,
         m_config["window_length"])

\* A TA was given out with a TP less than window_length away from this one.
NearEmitted(i) ==
  \E x \in Emitted :
    Apart(received[x].time_start, received[i].time_start) < m_config["window_length"]

\* A TP that has arrived is in a TA, in the window or out of date, when every
\* trigger is given out (one that the prescale holds back costs HorizontalMuon
\* the TP that closed the window); ChannelAdjacency may also drop the TPs
\* around a track, BundleN and Supernova never drop any (unless one started a
\* Supernova activity at time 0).
NothingLost ==
  \A i \in DOMAIN received : i \notin Emitted \cup Held =>
    /\ maker = "HorizontalMuon" /\ m_config["prescale"] = 1 => Stale(i)
    /\ maker = "ChannelAdjacency" /\ m_config["prescale"] = 1 => Stale(i) \/ NearEmitted(i)
    /\ maker # "BundleN"
    /\ maker = "Supernova" => 0 \in TimesOf(received)

\* Of the triggers counted, exactly one in m_prescale is given out (as long as
\* m_ta_count has not wrapped); the Prescale maker begins with the first TP.
OneInPrescale ==
  /\ \/ maker = "HorizontalMuon" /\ ~ m_config["trigger_on_tot"]
     \/ maker = "ChannelAdjacency"
     => Len(output_ta) = m_ta_count \div m_config["prescale"]
  /\ maker = "Prescale" =>
       \A i \in DOMAIN received : i \in Emitted <=> i % m_config["prescale"] = 1 % m_config["prescale"]

-----------------------------------------------------------------------------
(* What is good for a TA, looked at afresh *)

\* More than n wires in a row are hit.
HitRun(tps, n) == \E lo \in ChannelsOf(tps) : lo .. (lo + n) \subseteq ChannelsOf(tps)

\* A list of TPs meets a condition of HorizontalMuon that is in use.
Triggers(tps) ==
  \/ m_config["trigger_on_adc"] /\ TotalAdc(tps) > m_config["adc_threshold"]
  \/ /\ m_config["trigger_on_n_channels"]
     /\ Cardinality(ChannelsOf(tps)) > m_config["n_channels_threshold"]
  \/ /\ m_config["trigger_on_adjacency"]
     /\ HitRun(tps, m_config["adjacency_threshold"])

\* Every stretch of the stream shorter than window_length that is good for a
\* TA beyond doubt (a track without missing wires) is noticed: HorizontalMuon
\* has one of its TPs in a TA or all of them still held; ChannelAdjacency the
\* same, or gave out another track of that time.  Every trigger must be given
\* out and no sum wrap: see the README.  ChannelDistance leaves out no TP that
\* is close in channel to one it held when the TP came (and whose bounds do
\* not wrap: see the README).
NoActivityMissed ==
  /\ /\ maker \in {"HorizontalMuon", "ChannelAdjacency"}
     /\ m_config["prescale"] = 1
     /\ TotalAdc(received) < AdcModulus
     => \A i \in DOMAIN received : \A j \in i .. Len(received) :
          LET tps == SubSeq(received, i, j)
          IN  /\ tps[Len(tps)].time_start - tps[1].time_start < m_config["window_length"]
              /\ IF maker = "HorizontalMuon" THEN Triggers(tps)
                                             ELSE HitRun(tps, m_config["adjacency_threshold"])
              => \/ (i .. j) \cap Emitted # {}
                 \/ (i .. j) \subseteq Held
                 \/ maker = "ChannelAdjacency" /\ NearEmitted(i)
  /\ maker = "ChannelDistance" =>
       \A h \in Held : \A i \in DOMAIN received \ Held :
         (i > h /\ \A ch \in ChannelsOf(HeldList) : ch >= m_config["max_channel_distance"]) =>
           Apart(received[i].channel, received[h].channel) > m_config["max_channel_distance"]

\* The missing wires of a list of channels.
MissingWires(chs) ==
  { w \in 0 .. ChannelModulus : w \notin chs /\ (\E c \in chs : c < w) /\ (\E c \in chs : c > w) }

Consecutive(tps) == \A i \in DOMAIN tps : tps[i].id = tps[1].id + i - 1

\* The list with no charge but that of the TPs on induction planes.
OfInduction(tps) ==
  [i \in DOMAIN tps |->
     [adc_integral |-> IF PlaneOf[tps[i].channel] \in {"U", "Y"}
                       THEN tps[i].adc_integral ELSE 0]]

\* The reason a list of TPs is good for a TA of this maker.
Justified(tps) ==
  CASE maker = "HorizontalMuon" ->
         \/ over_any([EmptyWindow EXCEPT !.inputs = tps,
                        !.adc_integral = TotalAdc(tps) % AdcModulus,
                        !.channel_states = [ch \in ChannelsOf(tps) |-> 1]])
         \/ long_tp(received[Last(tps).id + 1])
    [] maker = "ChannelAdjacency" ->
         /\ Cardinality(ChannelsOf(tps)) = Len(tps)
         /\ Len(tps) > m_config["adjacency_threshold"]
         /\ \A t, u \in TimesOf(tps) : t > u => t - u < m_config["window_length"]
         /\ LET missing == MissingWires(ChannelsOf(tps))
            IN  missing # {} => Cardinality(missing) < m_config["adj_tolerance"] + 4
    [] maker = "MichelElectron" ->
         /\ Len(tps) >= KinkMinimum + 4
         /\ Len(tps) > m_config["adjacency_threshold"]
         /\ Cardinality(TimesOf(tps)) > 1 /\ Cardinality(ChannelsOf(tps)) > 1
    [] maker = "PlaneCoincidence" ->
         /\ \A ch \in ChannelsOf(tps) : PlaneOf[ch] = "Z"
         /\ Cardinality(ChannelsOf(tps)) >= m_config["adjacency_threshold"]
         /\ TotalAdc(tps) + 2 * TotalAdc(OfInduction(received)) > m_config["adc_threshold"]
    [] maker = "Prescale" -> Len(tps) = 1
    [] maker = "BundleN" ->
         /\ Consecutive(tps)
         /\ Len(tps) = IF m_config["bundle_size"] = 0 THEN 1 ELSE m_config["bundle_size"]
    [] maker = "ChannelDistance" ->
         /\ Len(tps) >= m_config["min_tps"]
         /\ (\A ch \in ChannelsOf(tps) : ch >= m_config["max_channel_distance"]) =>
              \A i \in 2 .. Len(tps) : \E h, l \in 1 .. (i - 1) :
                /\ tps[i].channel <= tps[h].channel + m_config["max_channel_distance"]
                /\ tps[i].channel >= tps[l].channel - m_config["max_channel_distance"]
    [] maker = "Supernova" ->
         \/ 0 \in TimesOf(received)
         \/ /\ Consecutive(tps)
            /\ \A n \in 1 .. Len(tps) :
                 LET x == ExtentOf(SubSeq(tps, 1, n))
                     tp == received[tps[n].id + 1]
                 IN  \/ flushed /\ Last(tps) = Last(received) /\ n = Len(tps)
                     \/ n < Len(tps) <=> (is_time_consistent(tp, x) \/ is_channel_consistent(tp, x))
    [] OTHER -> FALSE

\* Every TA is justified by the TPs in it, counted again from nothing (or by
\* the long TP that came right behind them), and no TP is in two of them.
TAsJustified ==
  /\ \A k \in DOMAIN output_ta : Justified(output_ta[k].inputs)
  /\ \A k, l \in DOMAIN output_ta :
       k # l => Ids(output_ta[k].inputs) \cap Ids(output_ta[l].inputs) = {}

\* Once its window has closed, MichelElectron slides it along with the TP.
MichelHoldsTheLatestTP ==
  maker = "MichelElectron" /\ received # <<>> => Len(received) \in Held

=============================================================================
