------------------------ MODULE TriggerActivityMaker ------------------------
(***************************************************************************)
(* What every TriggerActivityMaker is to its caller: built by the factory  *)
(* under its registered name, configured by a JSON object before the first *)
(* TP, called with one TP after another and a vector for the TAs, and      *)
(* perhaps flushed at the end.  Each maker uses some of the members below  *)
(* and leaves the others alone.                                            *)
(***************************************************************************)
EXTENDS TPWindow, SequencesExt

CONSTANTS
  Defaults,   \* for each registered maker, the configuration a new one has
  Configs     \* for each, the JSON objects configure() may be given

Makers == DOMAIN Defaults

Switches == {"trigger_on_adc", "trigger_on_n_channels", "trigger_on_adjacency",
             "trigger_on_tot"}

\* config has the keys of maker m, with values of their types.  A prescale of 0
\* would divide by zero; with an adjacency_threshold of 0 MichelElectron would
\* look for a gradient in one hit, PlaneCoincidence give out an empty window.
ValidConfig(config, m) ==
  /\ DOMAIN config \subseteq DOMAIN Defaults[m]
  /\ \A k \in DOMAIN config \cap Switches : config[k] \in BOOLEAN
  /\ \A k \in DOMAIN config \ Switches : config[k] \in Nat
  /\ "prescale" \in DOMAIN config => config["prescale"] > 0
  /\ (m \in {"MichelElectron", "PlaneCoincidence"} /\ "adjacency_threshold" \in DOMAIN config)
       => config["adjacency_threshold"] > 0

ASSUME TriggerActivityMakerAssumption ==
  /\ DOMAIN Configs = Makers
  /\ \A m \in Makers : \A config \in Configs[m] \cup {Defaults[m]} :
       ValidConfig(config, m)

VARIABLES
  maker,               \* the name the maker was built under
  m_config,            \* the m_trigger_on_*, m_*_threshold, ... members
  m_current_window,    \* the TPWindow (MichelElectron: Window)
  m_plane_windows,     \* PlaneCoincidence: the window of each plane
  m_current_ta,        \* the TPs of the TA being put together
  m_bounds,            \* ChannelDistance: m_current_lower_bound and _upper_bound
  m_extent,            \* Supernova: m_time_start, m_time_end, m_channel_start, ...
  m_ta_count,          \* HorizontalMuon, ChannelAdjacency: triggers so far
  m_primitive_count,   \* Prescale: TPs so far (others count them for nothing)
  flushed,             \* the caller has called flush(): the stream is over
  output_ta,           \* every TA given out so far
  received             \* every TP received so far

windowVars == <<m_current_window, m_plane_windows>>
bundleVars == <<m_current_ta, m_bounds, m_extent>>
counters == <<m_ta_count, m_primitive_count>>
vars == <<maker, m_config, windowVars, bundleVars, counters, flushed, output_ta, received>>

NoMaker == "none"

Planes == {"U", "Y", "Z"}

\* m_bounds is not initialised; it is written before it is read.
NoBounds == [lower |-> 0, upper |-> 0]
NoExtent == [time_start |-> 0, time_end |-> 0, channel_start |-> 0, channel_end |-> 0,
             adc_integral |-> 0]

Init ==
  /\ maker = NoMaker
  /\ m_config = <<>>
  /\ m_current_window = EmptyWindow
  /\ m_plane_windows = [p \in Planes |-> EmptyWindow]
  /\ m_current_ta = <<>>
  /\ m_bounds = NoBounds
  /\ m_extent = NoExtent
  /\ m_ta_count = 0
  /\ m_primitive_count = 0
  /\ flushed = FALSE
  /\ output_ta = <<>>
  /\ received = <<>>

\* AbstractFactory::build_maker(); under a name nobody registered it throws
\* FactoryNotFound and there is no maker.
build_maker(name) ==
  /\ maker = NoMaker
  /\ name \in Makers
  /\ maker' = name
  /\ m_config' = Defaults[name]
  /\ UNCHANGED <<windowVars, bundleVars, counters, flushed, output_ta, received>>

configure(config) ==
  /\ received = <<>>
  /\ m_config = Defaults[maker]
  /\ m_config' = [k \in DOMAIN m_config |-> IF k \in DOMAIN config THEN config[k] ELSE m_config[k]]
  /\ UNCHANGED <<maker, windowVars, bundleVars, counters, flushed, output_ta, received>>

\* What every call of operator() does to the rest.
take(tp) ==
  /\ received' = Append(received, tp)
  /\ UNCHANGED <<maker, m_config, flushed>>

\* What later stages read of a TA.
ta_of(start, adc, inputs) ==
  [time_start |-> start, adc_integral |-> adc, inputs |-> inputs]

fits_window(tp, w) == fits(tp.time_start, w.time_start, m_config["window_length"])

ChannelList(tps) == [i \in DOMAIN tps |-> tps[i].channel]

\* TPs sorted by channel: each comes behind those that must be before it.  TPs
\* on one channel stay in order, as std::sort leaves them in lists of up to 16
\* (an insertion sort there).  SubSeq leaves the list as it is: TLC then works
\* out the function once, not at every use.
before(tps, i) ==
  { j \in DOMAIN tps :
      \/ tps[j].channel < tps[i].channel
      \/ tps[j].channel = tps[i].channel /\ j < i }

by_channel(tps) ==
  LET place(k) == CHOOSE i \in DOMAIN tps : Cardinality(before(tps, i)) = k - 1
  IN  SubSeq([k \in DOMAIN tps |-> tps[place(k)]], 1, Len(tps))

=============================================================================
