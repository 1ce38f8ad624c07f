----------------------- MODULE TriggerCandidateMaker -----------------------
(***************************************************************************)
(* What every TriggerCandidateMaker is to its caller: built by the factory *)
(* under its registered name, configured by a JSON object before the first *)
(* TA, then called with one TA after another and a vector for the TCs.     *)
(* Each maker uses some of the members below and leaves the others alone.  *)
(***************************************************************************)
EXTENDS TAWindow

CONSTANTS
  Defaults,   \* for each registered maker, the configuration a new one has
  Configs     \* for each, the JSON objects configure() may be given

Makers == DOMAIN Defaults

Switches == {"trigger_on_adc", "trigger_on_n_channels"}

Ticks == {"window_length", "readout_window_ticks_before", "readout_window_ticks_after"}

\* config has the keys of maker m, with values of their types.
ValidConfig(config, m) ==
  /\ DOMAIN config \subseteq DOMAIN Defaults[m]
  /\ \A k \in DOMAIN config \cap Switches : config[k] \in BOOLEAN
  /\ \A k \in DOMAIN config \ Switches : config[k] \in Nat
  /\ \A k \in DOMAIN config \cap Ticks : config[k] \in Timestamps
  /\ "max_tp_count" \in DOMAIN config => config["max_tp_count"] < CountModulus

\* Every window is so short that a TA that is late, seen through the wrapped
\* difference of its time and the window's, is out of it.
ShortWindow(config) ==
  "window_length" \in DOMAIN config =>
    \A s, t \in Times : s < t => ~ fits(s, t, config["window_length"])

ASSUME TriggerCandidateMakerAssumption ==
  /\ DOMAIN Configs = Makers
  /\ \A m \in Makers : \A config \in Configs[m] \cup {Defaults[m]} :
       ValidConfig(config, m) /\ ShortWindow(config)

VARIABLES
  maker,               \* the name the maker was built under
  m_config,            \* the m_trigger_on_*, m_*_threshold, ... members
  rejected,            \* the last configure() threw BadConfiguration
  m_current_window,    \* the TAWindow (MichelElectron: Window)
  m_current_tc,        \* the inputs of the TC being put together
  m_current_tp_count,  \* how many TPs they have
  m_activity,          \* the TAs Supernova counts
  m_activity_count,    \* the TAs Prescale has seen
  output_tc,           \* every TC given out so far
  received             \* every TA received so far

bundleVars == <<m_current_tc, m_current_tp_count>>
members == <<m_current_window, bundleVars, m_activity, m_activity_count>>
vars == <<maker, m_config, rejected, members, output_tc, received>>

NoMaker == "none"

\* m_current_tp_count is not initialised; it is written before it is read.
Init ==
  /\ maker = NoMaker
  /\ m_config = <<>>
  /\ rejected = FALSE
  /\ m_current_window = EmptyWindow
  /\ m_current_tc = <<>>
  /\ m_current_tp_count = 0
  /\ m_activity = <<>>
  /\ m_activity_count = 0
  /\ output_tc = <<>>
  /\ received = <<>>

\* AbstractFactory::build_maker(); under a name nobody registered it throws
\* FactoryNotFound and there is no maker.
build_maker(name) ==
  /\ maker = NoMaker
  /\ name \in Makers
  /\ maker' = name
  /\ m_config' = Defaults[name]
  /\ UNCHANGED <<rejected, members, output_tc, received>>

\* The members once configure() has assigned what the object has.
updated(config) ==
  [k \in DOMAIN m_config |-> IF k \in DOMAIN config THEN config[k] ELSE m_config[k]]

\* configure() assigns the members first and then may find them unusable: it
\* throws with the new values in place, and the caller does not start.
configure(config, usable) ==
  /\ received = <<>>
  /\ m_config = Defaults[maker]
  /\ m_config' = updated(config)
  /\ rejected' = ~ usable
  /\ UNCHANGED <<maker, members, output_tc, received>>

\* What every call of operator() does to the rest.
take(ta) ==
  /\ received' = Append(received, ta)
  /\ UNCHANGED <<maker, m_config, rejected>>

tc_of(start, end, candidate, inputs) ==
  [time_start |-> start, time_end |-> end, time_candidate |-> candidate, inputs |-> inputs]

=============================================================================
