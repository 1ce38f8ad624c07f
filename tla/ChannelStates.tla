--------------------------- MODULE ChannelStates ---------------------------
(***************************************************************************)
(* channel_states, the map from a channel to its number of hits that a     *)
(* window keeps so as to know how many channels were hit.                  *)
(***************************************************************************)
EXTENDS UnsignedTime, FiniteSets

CONSTANT CountModulus   \* 2^16: the counts are uint16_t

ASSUME ChannelStatesAssumption == CountModulus \in Nat \ {0}

\* The maps from channels of S to counts
CountMaps(S) == UNION { [chs -> 0 .. CountModulus - 1] : chs \in SUBSET S }

\* n_channels_hit(): an uint16_t too
n_channels(states) == Cardinality(DOMAIN states) % CountModulus

\* channel_states[channel]: an absent channel counts as 0.
hits(states, ch) == IF ch \in DOMAIN states THEN states[ch] ELSE 0

\* channel_states[channel]++
hit(states, ch) ==
  [c \in DOMAIN states \cup {ch} |->
     IF c = ch THEN UIntPlus(hits(states, ch), 1, CountModulus) ELSE states[c]]

\* A plausible slip: a channel whose count falls to zero stays in the map.
unhit_keeping_channel(states, ch) ==
  [c \in DOMAIN states \cup {ch} |->
     IF c = ch THEN UIntMinus(hits(states, ch), 1, CountModulus) ELSE states[c]]

\* channel_states[channel]--, and out of the map when nothing is left
unhit(states, ch) ==
  LET left == UIntMinus(hits(states, ch), 1, CountModulus)
  IN  IF left = 0
      THEN [c \in DOMAIN states \ {ch} |-> states[c]]
      ELSE [c \in DOMAIN states \cup {ch} |-> IF c = ch THEN left ELSE states[c]]

=============================================================================
