------------------------------ MODULE TAStream ------------------------------
(***************************************************************************)
(* The trigger activities a TriggerCandidateMaker reads.  One TC maker     *)
(* serves the TA makers of several detector regions: each region's TAs     *)
(* come in order of time_start, but the regions' streams are interleaved   *)
(* in any way, so one region may run behind another.                       *)
(***************************************************************************)
EXTENDS InputLists, FiniteSets

CONSTANTS
  Regions,      \* the sources of TAs
  Times,        \* the time_start a TA may have
  Payloads,     \* its adc_integral, the channels of its TPs, one each, and how
                \* long it lasts
  MaxTAs        \* bound: how many TAs the caller feeds to the maker

ASSUME TAAssumption ==
  /\ Times \subseteq Timestamps
  /\ \A p \in Payloads :
       /\ DOMAIN p = {"adc_integral", "channels", "lasts"}
       /\ p.adc_integral \in Nat
       /\ p.channels \in Seq(Nat)
       /\ p.lasts \in Nat
       /\ \A t \in Times : t + p.lasts \in Timestamps
  /\ MaxTAs \in Nat

AdcValues == { p.adc_integral : p \in Payloads }
ChannelLists == { p.channels : p \in Payloads }
Durations == { p.lasts : p \in Payloads }

\* time_end is what the maker at hand takes for the end of the TA: the member
\* of that name or, in the makers that judge a closed window, the end of the
\* last TP of its list.
TriggerActivity ==
  { ta \in [id : Nat \ {0}, region : Regions, time_start : Times, time_end : Timestamps,
            adc_integral : AdcValues, channels : ChannelLists] :
      \E d \in Durations : ta.time_end = ta.time_start + d }

\* The TAs that may arrive after those in stream.
NextTAs(stream) ==
  LET from(region, t, p) ==
        [id |-> Len(stream) + 1, region |-> region, time_start |-> t,
         time_end |-> t + p.lasts, adc_integral |-> p.adc_integral, channels |-> p.channels]
  IN  { ta \in { from(region, t, p) : region \in Regions, t \in Times, p \in Payloads } :
          /\ Len(stream) < MaxTAs
          /\ \A i \in DOMAIN stream :
               stream[i].region = ta.region => stream[i].time_start <= ta.time_start }

\* The channels hit by a list of TAs.
HitChannels(inputs) ==
  UNION { { inputs[i].channels[j] : j \in DOMAIN inputs[i].channels } : i \in DOMAIN inputs }

=============================================================================
