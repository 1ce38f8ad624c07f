----------------- MODULE TriggerActivityMakerMichelElectron -----------------
(***************************************************************************)
(* The MichelElectron TA maker: when a TP does not fit the window and the  *)
(* longest track in it is long enough, the window is given out if the      *)
(* track has a Bragg peak and a kink; if it has not, nothing at all is     *)
(* done.  Its own class Window is TPWindow method by method.               *)
(***************************************************************************)
EXTENDS TriggerActivityMaker, Adjacency

CONSTANTS
  BraggHits,    \* convolve_value, 6: the hits a running mean of charge is over
  KinkMinimum,  \* 10: a kink is looked for in more gradients than these
  KinkTicks,    \* 1000: a gradient is taken between hits no further apart
  KinkWires     \* 6: neither in time nor in wires

ASSUME MichelAssumption ==
  /\ BraggHits \in Nat \ {0}
  /\ {KinkMinimum, KinkTicks, KinkWires} \subseteq Nat

\* Window::add, reset and move
add_me(w, tp) == add(w, tp)
reset_me(w, tp) == reset(w, tp)
move_me(w, tp, window_length) == move(w, tp, window_length)

construct_ta_me(w) == ta_of(w.time_start, w.adc_integral, w.inputs)

\* A plausible slip: the last track wins, not the longest.
keep_longer_last(v, adj, track) == [v EXCEPT !.final = track, !.max = adj]

\* The track ends: keep it if no longer one was kept before.
keep_longer(v, adj, track) ==
  IF adj > v.max THEN [v EXCEPT !.final = track, !.max = adj] ELSE v

\* The hits of the longest track, the loop of check_adjacency() with the hits
\* kept instead of counted.
longest_activity(w) ==
  LET list == by_channel(w.inputs)
      gap(i) == wire_gap(list[i].channel, next_in(list, i).channel)
      track(i, v) == IF v.track = <<>> THEN <<list[i]>> ELSE v.track
      go_on(i, v) == [v EXCEPT !.track = Append(track(i, v), next_in(list, i))]
      after[i \in 0 .. Len(list)] ==
        IF i = 0
        THEN [adj |-> 1, max |-> 0, tol_count |-> 0, track |-> <<>>, final |-> <<>>]
        ELSE LET v == after[i - 1]
             IN  IF gap(i) = 0 THEN go_on(i, v)
                 ELSE IF gap(i) = 1 THEN [go_on(i, v) EXCEPT !.adj = @ + 1]
                 ELSE IF bridges(v, gap(i), m_config["adj_tolerance"])
                      THEN [go_on(i, v) EXCEPT !.adj = @ + 1, !.tol_count = @ + gap(i)]
                 ELSE [keep_longer(v, v.adj, track(i, v))
                         EXCEPT !.adj = 1, !.tol_count = 0, !.track = <<>>]
  IN  after[Len(list)].final

long_track(w) == Len(longest_activity(w)) > m_config["adjacency_threshold"]

SumOf(numbers) == FoldLeft(LAMBDA a, b : a + b, 0, numbers)

Magnitude(n) == IF n < 0 THEN - n ELSE n

\* The clusters of charge above the baseline, in units of a BraggHits-th; the
\* means of charge run around the end of the list, and a cluster still above
\* the baseline at the end is not among them.
charge_dumps(trackHits) ==
  LET n == Len(trackHits)
      adc_sum == [i \in 1 .. n |->
                    SumOf([j \in 1 .. BraggHits |-> trackHits[((i + j - 2) % n) + 1].adc_integral])]
      ped == SumOf(adc_sum)   \* n times the baseline
      one(v, a) ==
        IF n * a > ped THEN [v EXCEPT !.charge = @ + a]
        ELSE IF n * a < ped /\ v.charge # 0
             THEN [charge |-> 0, dumps |-> Append(v.dumps, v.charge)]
        ELSE v
  IN  FoldLeft(one, [charge |-> 0, dumps |-> <<>>], adc_sum).dumps

\* What check_bragg_peak() may return: whether the largest cluster is the
\* first or the last; anything when there is none, for then the largest and
\* the last of an empty vector are read.
check_bragg_peak(trackHits) ==
  LET dumps == charge_dumps(trackHits)
      largest(d) == \A i \in DOMAIN dumps : dumps[i] <= d
  IN  IF dumps = <<>> THEN BOOLEAN ELSE {largest(Head(dumps)) \/ largest(Last(dumps))}

\* The hits after the second that are neither on the channel nor at the time of
\* the hit two before them, and close to it: hits one can tell a gradient at.
usable_hits(trackHits) ==
  LET dz(i) == trackHits[i].channel - trackHits[i - 2].channel
      dt(i) == trackHits[i].time_start - trackHits[i - 2].time_start
      usable(i) == /\ i > 2 /\ dz(i) # 0 /\ dt(i) # 0
                   /\ Magnitude(dt(i)) <= KinkTicks /\ Magnitude(dz(i)) <= KinkWires
      upto[i \in 0 .. Len(trackHits)] ==
        IF i = 0 THEN <<>>
        ELSE IF usable(i) THEN Append(upto[i - 1], i) ELSE upto[i - 1]
  IN  upto[Len(trackHits)]

\* The gradients there, in wires per tick, all multiplied by the same number so
\* as to be integers.
gradients(trackHits) ==
  LET dz(i) == trackHits[i].channel - trackHits[i - 2].channel
      dt(i) == trackHits[i].time_start - trackHits[i - 2].time_start
      usable == usable_hits(trackHits)
      scale == FoldLeft(LAMBDA a, i : a * Magnitude(dt(i)), 1, usable)
  IN  [k \in DOMAIN usable |->
         dz(usable[k]) * (scale \div Magnitude(dt(usable[k])))
           * (IF dt(usable[k]) < 0 THEN -1 ELSE 1)]

\* A mean gradient at either end that differs from the mean of them all.
check_kinks(trackHits) ==
  LET g == gradients(trackHits)
      means == [k \in 1 .. (Len(g) - 1) |-> g[k] + g[k + 1]]   \* twice the mean
      n == Len(means)
      total == Magnitude(SumOf(means))   \* n times their mean
  IN  /\ Len(g) > KinkMinimum
      /\ n > KinkMinimum
      /\ \/ 2 * (n * Magnitude(means[1]) + total) > 5 * total
         \/ 2 * Magnitude(n * means[n] + total) > 5 * total

me_first_tp(tp) ==
  /\ is_empty(m_current_window)
  /\ m_current_window' = reset_me(m_current_window, tp)
  /\ UNCHANGED output_ta

me_fill_window(tp) ==
  /\ ~ is_empty(m_current_window)
  /\ fits_window(tp, m_current_window)
  /\ m_current_window' = add_me(m_current_window, tp)
  /\ UNCHANGED output_ta

emit_michel(tp) ==
  /\ ~ is_empty(m_current_window)
  /\ ~ fits_window(tp, m_current_window)
  /\ long_track(m_current_window)
  /\ TRUE \in check_bragg_peak(longest_activity(m_current_window))
  /\ check_kinks(longest_activity(m_current_window))
  /\ output_ta' = Append(output_ta, construct_ta_me(m_current_window))
  /\ m_current_window' = reset_me(m_current_window, tp)

\* A long track without a Bragg peak, or without a kink: the window stays as
\* it is and the TP is in none.
ignore_tp(tp) ==
  /\ ~ is_empty(m_current_window)
  /\ ~ fits_window(tp, m_current_window)
  /\ long_track(m_current_window)
  /\ \/ FALSE \in check_bragg_peak(longest_activity(m_current_window))
     \/ ~ check_kinks(longest_activity(m_current_window))
  /\ UNCHANGED <<m_current_window, output_ta>>

me_slide_window(tp) ==
  /\ ~ is_empty(m_current_window)
  /\ ~ fits_window(tp, m_current_window)
  /\ ~ long_track(m_current_window)
  /\ m_current_window' = move_me(m_current_window, tp, m_config["window_length"])
  /\ UNCHANGED output_ta

\* operator()
receive_me(tp) ==
  /\ \/ me_first_tp(tp)
     \/ me_fill_window(tp)
     \/ emit_michel(tp)
     \/ ignore_tp(tp)
     \/ me_slide_window(tp)
  /\ take(tp)
  /\ UNCHANGED <<m_plane_windows, bundleVars, counters>>

=============================================================================
