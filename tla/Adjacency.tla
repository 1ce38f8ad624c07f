----------------------------- MODULE Adjacency -----------------------------
(***************************************************************************)
(* check_adjacency() of the HorizontalMuon TA maker: the length of the     *)
(* longest track of neighbouring wires among the hit channels, where a few *)
(* missing wires are tolerated.  Here are the pieces of its loop over the  *)
(* sorted channel list, and the loop as a whole for the maker to use.      *)
(***************************************************************************)
EXTENDS Integers, Sequences

CONSTANT ChannelModulus   \* 2^32: channels are compared as unsigned int

ASSUME AdjacencyAssumption == ChannelModulus \in Nat /\ ChannelModulus > 8

\* The loop's variables before its first iteration.
Start == [adj |-> 1, max |-> 0, tol_count |-> 0]

\* The entry after the i-th of a list; after the last comes the first.
next_in(chanList, i) == chanList[(i % Len(chanList)) + 1]

\* How far the next hit wire is, on unsigned int.  A next channel of 0 is
\* taken for the end of the list and replaced by channel - 1.
wire_gap(channel, next_channel) ==
  IF next_channel = 0 THEN ChannelModulus - 1
                      ELSE (next_channel - channel) % ChannelModulus

\* A gap of up to four missing wires is bridged while tolerance is left.
bridges(v, gap, adj_tolerance) == gap \in 2 .. 5 /\ v.tol_count < adj_tolerance

\* A plausible slip: the count of wires goes on.
restart_keeping_adj(v) ==
  [adj |-> v.adj, max |-> IF v.adj > v.max THEN v.adj ELSE v.max, tol_count |-> 0]

\* The next hit is out of reach: record the track, start another.
restart(v) ==
  [adj |-> 1, max |-> IF v.adj > v.max THEN v.adj ELSE v.max, tol_count |-> 0]

\* A plausible slip: a gap is charged with its missing wires only.
iterate_charging_missing(v, gap, adj_tolerance) ==
  CASE gap = 0 -> v
    [] gap = 1 -> [v EXCEPT !.adj = @ + 1]
    [] bridges(v, gap, adj_tolerance) ->
         [v EXCEPT !.adj = @ + 1, !.tol_count = @ + gap - 1]
    [] gap \notin {0, 1} /\ ~ bridges(v, gap, adj_tolerance) -> restart(v)

\* Note that a bridged gap is charged with its length, not with its missing
\* wires, and that the last one may take the counter past the tolerance.
iterate(v, gap, adj_tolerance) ==
  CASE gap = 0 -> v
    [] gap = 1 -> [v EXCEPT !.adj = @ + 1]
    [] bridges(v, gap, adj_tolerance) ->
         [v EXCEPT !.adj = @ + 1, !.tol_count = @ + gap]
    [] gap \notin {0, 1} /\ ~ bridges(v, gap, adj_tolerance) -> restart(v)

\* The loop's variables after each number of iterations over a sorted list of
\* channels.
after_iterations(chanList, adj_tolerance) ==
  LET after[n \in 0 .. Len(chanList)] ==
        IF n = 0 THEN Start
        ELSE iterate(after[n - 1], wire_gap(chanList[n], next_in(chanList, n)),
                     adj_tolerance)
  IN  after

check_adjacency(chanList, adj_tolerance) ==
  after_iterations(chanList, adj_tolerance)[Len(chanList)].max

=============================================================================
