---------------- MODULE TriggerActivityMakerPlaneCoincidence ----------------
(***************************************************************************)
(* The PlaneCoincidence TA maker: one window for each plane of wires.  A   *)
(* TP of any plane that comes late enough for the collection window closes *)
(* it; the window is given out for the charge of all three windows         *)
(* together and its own longest track, and all three are emptied.          *)
(***************************************************************************)
EXTENDS TriggerActivityMaker, Adjacency

CONSTANT PlaneOf   \* the channel map: the plane of each channel

ASSUME PlaneAssumption == PlaneOf \in [Channels -> Planes \cup {"unconnected"}]

construct_ta_pc(w) == ta_of(w.time_start, w.adc_integral, w.inputs)

\* check_adjacency(), as in HorizontalMuon but over gaps of up to three wires.
iterate_pc(v, gap, adj_tolerance) ==
  IF gap \in 4 .. 5 THEN restart(v) ELSE iterate(v, gap, adj_tolerance)

check_adjacency_pc(w) ==
  LET chanList == ChannelList(by_channel(w.inputs))
      after[i \in 0 .. Len(chanList)] ==
        IF i = 0 THEN Start
        ELSE iterate_pc(after[i - 1], wire_gap(chanList[i], next_in(chanList, i)),
                        m_config["adj_tolerance"])
  IN  after[Len(chanList)].max

\* The windows after the TP was added to that of its plane, if it fits it.
windows_with(tp) ==
  LET p == PlaneOf[tp.channel]
  IN  IF p \in Planes /\ fits_window(tp, m_plane_windows[p])
      THEN [m_plane_windows EXCEPT ![p] = add(@, tp)]
      ELSE m_plane_windows

\* A plausible slip: the window is complete when the TP is window_length away.
collectionComplete_at(tp, windows) ==
  elapsed(tp.time_start, windows["Z"].time_start) >= m_config["window_length"]

\* An empty collection window has no start time but 0.
collectionComplete(tp, windows) ==
  elapsed(tp.time_start, windows["Z"].time_start) > m_config["window_length"]

\* A plausible slip: the threshold is on the collection plane alone.
coincides_collection(windows) ==
  /\ windows["Z"].adc_integral > m_config["adc_threshold"]
  /\ check_adjacency_pc(windows["Z"]) >= m_config["adjacency_threshold"]

\* A plausible slip: the tracks are not looked at.
coincides_charge(windows) ==
  (windows["U"].adc_integral + windows["Y"].adc_integral + windows["Z"].adc_integral)
    % AdcModulus > m_config["adc_threshold"]

coincides(windows) ==
  /\ (windows["U"].adc_integral + windows["Y"].adc_integral + windows["Z"].adc_integral)
       % AdcModulus > m_config["adc_threshold"]
  /\ check_adjacency_pc(windows["Z"]) >= m_config["adjacency_threshold"]

first_in_plane(tp) ==
  LET p == PlaneOf[tp.channel]
  IN  /\ p \in Planes
      /\ is_empty(m_plane_windows[p])
      /\ m_plane_windows' = [m_plane_windows EXCEPT ![p] = reset(@, tp)]
      /\ UNCHANGED output_ta

\* The TP is not the first of its plane (or is of no plane at all).
plane_started(tp) ==
  PlaneOf[tp.channel] \in Planes => ~ is_empty(m_plane_windows[PlaneOf[tp.channel]])

wait_for_collection(tp) ==
  /\ plane_started(tp)
  /\ ~ collectionComplete(tp, windows_with(tp))
  /\ m_plane_windows' = windows_with(tp)
  /\ UNCHANGED output_ta

emit_collection(tp) ==
  /\ plane_started(tp)
  /\ collectionComplete(tp, windows_with(tp))
  /\ coincides(windows_with(tp))
  /\ output_ta' = Append(output_ta, construct_ta_pc(windows_with(tp)["Z"]))
  /\ m_plane_windows' = [p \in Planes |->
       IF p = PlaneOf[tp.channel] THEN reset(m_plane_windows[p], tp)
                                  ELSE clear(m_plane_windows[p])]

\* The TP that was added a moment ago may be in the window twice now.
slide_plane(tp) ==
  LET p == PlaneOf[tp.channel]
  IN  /\ plane_started(tp)
      /\ collectionComplete(tp, windows_with(tp))
      /\ ~ coincides(windows_with(tp))
      /\ m_plane_windows' =
           IF p \in Planes
           THEN [windows_with(tp) EXCEPT ![p] = move(@, tp, m_config["window_length"])]
           ELSE windows_with(tp)
      /\ UNCHANGED output_ta

\* operator()
receive_pc(tp) ==
  /\ \/ first_in_plane(tp)
     \/ wait_for_collection(tp)
     \/ emit_collection(tp)
     \/ slide_plane(tp)
  /\ take(tp)
  /\ UNCHANGED <<m_current_window, bundleVars, counters>>

=============================================================================
