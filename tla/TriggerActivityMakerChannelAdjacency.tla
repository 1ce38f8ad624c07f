---------------- MODULE TriggerActivityMakerChannelAdjacency ----------------
(***************************************************************************)
(* The ChannelAdjacency TA maker: when a TP does not fit the window, the   *)
(* tracks of neighbouring wires longer than a threshold are taken out of   *)
(* it one after another, each given out (every m_prescale-th, that is) as  *)
(* a TA of its own TPs.  The window that each search gathers tracks in is  *)
(* a local variable whose charge nothing sets before the first TP is added *)
(* to it: the first track of a search has, on top of the charge of its     *)
(* TPs, whatever the memory held.                                          *)
(***************************************************************************)
EXTENDS TriggerActivityMaker, Adjacency

CONSTANT Uninitialised   \* what the memory of an adc_integral may hold

ASSUME UninitialisedAssumption ==
  Uninitialised # {} /\ Uninitialised \subseteq 0 .. AdcModulus - 1

\* construct_ta(); the start is the least of the TPs' times.
construct_ta_ca(w) ==
  ta_of(FoldLeft(LAMBDA t, tp : IF tp.time_start < t THEN tp.time_start ELSE t,
                 w.inputs[Len(w.inputs)].time_start, w.inputs),
        w.adc_integral, w.inputs)

\* Whether the track goes on over the gap to the next hit: on the next wire,
\* or not further than five while tolerance is left.
reaches(gap, tol_count) ==
  gap = 1 \/ (gap \in 2 .. 5 /\ tol_count < m_config["adj_tolerance"])

\* A plausible slip: a track of just the threshold is long enough.
long_enough_reached(win_adj) == Len(win_adj.inputs) >= m_config["adjacency_threshold"]

long_enough(win_adj) == Len(win_adj.inputs) > m_config["adjacency_threshold"]

\* check_adjacency(): the first track of the window that is long enough, or
\* an empty window.  The end of the list counts as out of reach.  The memory
\* that win_adj is made in held junk.
unset_window(junk) == [EmptyWindow EXCEPT !.adc_integral = junk]

check_adjacency_ca(w, junk) ==
  LET list == by_channel(w.inputs)
      gap(i) == IF i = Len(list) THEN ChannelModulus - 1
                                 ELSE list[i + 1].channel - list[i].channel
      begun(i, s) == IF is_empty(s.win_adj) THEN add(s.win_adj, list[i]) ELSE s.win_adj
      go_on(i, s) == [s EXCEPT !.win_adj = add(begun(i, s), list[i + 1]),
                               !.tol_count = @ + gap(i) - 1]
      end(i, s) == [win_adj |-> EmptyWindow, tol_count |-> 0,
                    found |-> IF long_enough(begun(i, s)) THEN begun(i, s) ELSE EmptyWindow]
      \* win_adj and tol_count after the first i hits, and the track found
      after[i \in 0 .. Len(list)] ==
        IF i = 0 THEN [win_adj |-> unset_window(junk), tol_count |-> 0, found |-> EmptyWindow]
        ELSE LET s == after[i - 1]
             IN  IF ~ is_empty(s.found) \/ gap(i) = 0 THEN s
                 ELSE IF reaches(gap(i), s.tol_count) THEN go_on(i, s) ELSE end(i, s)
  IN  after[Len(list)].found

\* A plausible slip: only the TPs of the track are taken out, not every TP on
\* its channels.
without_tps(w, track) ==
  FoldLeft(LAMBDA kept, tp : IF tp \in ToSet(track.inputs) THEN kept ELSE add(kept, tp),
           clear(w), w.inputs)

\* The window made anew of the TPs on channels the track does not have.
unless_on(track, kept, tp) ==
  IF \E i \in DOMAIN track.inputs : track.inputs[i].channel = tp.channel
  THEN kept ELSE add(kept, tp)

remade(w, track) ==
  LET kept[n \in 0 .. Len(w.inputs)] ==
        IF n = 0 THEN clear(w) ELSE unless_on(track, kept[n - 1], w.inputs[n])
  IN  kept

without(w, track) == remade(w, track)[Len(w.inputs)]

\* The while loop: one round, that takes a track out of the window if there is
\* one, and the rounds that find a track, at most one for each TP.  In round n
\* the memory held junk[n].
next_round(s, junk) ==
  LET track == check_adjacency_ca(s.window, junk)
  IN  IF s.ta_found /\ ~ is_empty(track)
      THEN [window |-> without(s.window, track), tracks |-> Append(s.tracks, track),
            ta_found |-> TRUE]
      ELSE [window |-> s.window, tracks |-> s.tracks, ta_found |-> FALSE]

Junk(w) == [1 .. Len(w.inputs) + 1 -> Uninitialised]

rounds(w, junk) ==
  LET round[n \in 0 .. Len(w.inputs) + 1] ==
        IF n = 0
        THEN [window |-> without(w, EmptyWindow), tracks |-> <<>>, ta_found |-> TRUE]
        ELSE next_round(round[n - 1], junk[n])
  IN  round

extraction(w, junk) == rounds(w, junk)[Len(w.inputs) + 1]

\* The tracks that the prescale lets through, among the first n.
passes_prescale(n) == UIntPlus(m_ta_count, n, CountModulus) % m_config["prescale"] = 0

passed(tracks) ==
  LET out[n \in 0 .. Len(tracks)] ==
        IF n = 0 THEN <<>>
        ELSE IF passes_prescale(n) THEN Append(out[n - 1], construct_ta_ca(tracks[n]))
        ELSE out[n - 1]
  IN  out

let_through(tracks) == passed(tracks)[Len(tracks)]

ca_first_tp(tp) ==
  /\ is_empty(m_current_window)
  /\ m_current_window' = reset(m_current_window, tp)
  /\ UNCHANGED <<m_ta_count, output_ta>>

ca_fill_window(tp) ==
  /\ ~ is_empty(m_current_window)
  /\ fits_window(tp, m_current_window)
  /\ m_current_window' = add(m_current_window, tp)
  /\ UNCHANGED <<m_ta_count, output_ta>>

take_tracks(tp) ==
  /\ ~ is_empty(m_current_window)
  /\ ~ fits_window(tp, m_current_window)
  /\ \E junk \in Junk(m_current_window) :
       LET tracks == extraction(m_current_window, junk).tracks
       IN  /\ tracks # <<>>
           /\ m_ta_count' = UIntPlus(m_ta_count, Len(tracks), CountModulus)
           /\ output_ta' = output_ta \o let_through(tracks)
  /\ m_current_window' = reset(m_current_window, tp)

ca_slide_window(tp) ==
  /\ ~ is_empty(m_current_window)
  /\ ~ fits_window(tp, m_current_window)
  /\ \E junk \in Junk(m_current_window) :
       LET searched == extraction(m_current_window, junk)
       IN  /\ searched.tracks = <<>>
           /\ m_current_window' = move(searched.window, tp, m_config["window_length"])
  /\ UNCHANGED <<m_ta_count, output_ta>>

\* operator()
receive_ca(tp) ==
  /\ ca_first_tp(tp) \/ ca_fill_window(tp) \/ take_tracks(tp) \/ ca_slide_window(tp)
  /\ take(tp)
  /\ UNCHANGED <<m_plane_windows, bundleVars, m_primitive_count>>

=============================================================================
