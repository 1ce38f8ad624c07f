--------------------- MODULE TriggerActivityMakerDBSCAN ---------------------
(***************************************************************************)
(* class TriggerActivityMakerDBSCAN: every cluster of TPs that             *)
(* IncrementalDBSCAN completes is a TA.                                    *)
(***************************************************************************)
EXTENDS IncrementalDBSCAN

CONSTANTS
  Defaults,   \* m_eps and m_min_pts of a new maker
  Configs,    \* the JSON objects configure() may be given
  FirstTPs    \* bound: when and where the first TP may be seen

ValidConfig(config) ==
  /\ DOMAIN config \subseteq {"eps", "min_pts"}
  /\ \A k \in DOMAIN config : config[k] \in Nat

ASSUME DBSCANMakerAssumption ==
  /\ DOMAIN Defaults = {"eps", "min_pts"}
  /\ \A config \in Configs \cup {Defaults} : ValidConfig(config)
  /\ FirstTPs \subseteq Timestamps \X Channels

VARIABLES
  m_dbscan,    \* the library has been created
  output_ta,   \* every TA given out so far
  received     \* every TP received so far

vars == <<m_config, dbscanVars, m_dbscan, output_ta, received>>

InitMaker ==
  /\ Init
  /\ m_config = Defaults
  /\ m_dbscan = FALSE
  /\ output_ta = <<>>
  /\ received = <<>>

\* Without a configuration there is no library to call.
configure(config) ==
  /\ ~ m_dbscan
  /\ m_dbscan' = TRUE
  /\ m_config' = config @@ m_config
  /\ UNCHANGED <<dbscanVars, output_ta, received>>

\* The TPs of a set of arrival numbers.
TPsOf(ids, tps) == { tps[i] : i \in ids }

\* m_prev_timestamp is never set, so no TP is ever out of order.
ta_of_cluster(ids, tps) ==
  [time_start |-> Min({ tp.time_start : tp \in TPsOf(ids, tps) }),
   time_end |-> Max({ tp.time_start + tp.time_over_threshold : tp \in TPsOf(ids, tps) }),
   adc_integral |-> MapThenSumSet(LAMBDA i : tps[i].adc_integral, ids),
   inputs |-> ids]

\* The model stops where the library would overwrite a hit it may still read.
receive(tp) ==
  /\ m_dbscan
  /\ ~ SlotInUse
  /\ received' = Append(received, tp)
  /\ LET d == after_add_hit(tp)
         done == completed_clusters(tp, d)
     IN  /\ add_primitive(tp, d)
         /\ output_ta' = output_ta \o [k \in DOMAIN done |-> ta_of_cluster(done[k], received')]
  /\ UNCHANGED <<m_config, m_dbscan>>

Next ==
  \/ \E config \in Configs : configure(config)
  \/ \E tp \in NextTPs(received) :
       /\ received = <<>> => <<tp.time_start, tp.channel>> \in FirstTPs
       /\ receive(tp)

Spec == InitMaker /\ [][Next]_vars

-----------------------------------------------------------------------------
(* Properties *)

Arrived == 1 .. Len(received)

HitIds(slots) == { m_hit_pool[s].id : s \in slots }

ActiveClusters == { HitIds(m_clusters[c].hits) : c \in DOMAIN m_clusters }

Emitted == { output_ta[k].inputs : k \in DOMAIN output_ta }

\* Every member stays within its type; no slot of the ring is in m_hits or in
\* a cluster before it has a hit.
TypeOK ==
  /\ ValidConfig(m_config)
  /\ \A s \in Slots :
       /\ m_hit_pool[s].id \in {0} \cup Arrived
       /\ m_hit_pool[s].time \in Nat
       /\ m_hit_pool[s].cluster \in {kUndefined} \cup 0 .. (next_cluster_index - 1)
       /\ m_hit_pool[s].neighbours \subseteq Slots
  /\ m_pool_end = Len(received) % PoolSize
  /\ m_hits \subseteq { s \in Slots : m_hit_pool[s].id # 0 }
  /\ m_latest_time \in Nat /\ m_first_prim_time \in Timestamps
  /\ DOMAIN m_clusters \subseteq 0 .. (next_cluster_index - 1)
  /\ \A c \in DOMAIN m_clusters :
       /\ m_clusters[c].latest_time \in Nat
       /\ m_clusters[c].hits \subseteq { s \in Slots : m_hit_pool[s].id # 0 }
  /\ \A k \in DOMAIN output_ta :
       output_ta[k] \in [time_start : Timestamps, time_end : Nat, adc_integral : Nat,
                         inputs : SUBSET Arrived]

(* Clusters by the textbook: over all TPs at once, from nothing but where   *)
(* they were seen and at which float the time falls.                       *)

Placed(i) == new_hit(received[i], received[1].time_start)

\* Each TP with those near it.
Seen ==
  LET hits == { Placed(i) : i \in Arrived }
      before(h) == { g \in hits : g.id < h.id /\ Close(g, h) }
      pairs == UNION { { {g.id, h.id} : g \in before(h) } : h \in hits }
  IN  { [id |-> i, near |-> UNION { p \in pairs : i \in p } \ {i}] : i \in Arrived }

Core(seen) == { tp \in seen : Cardinality(tp.near) + 1 >= m_config["min_pts"] }

\* The core hits connected with each other, and the hits at their border.
TextbookClusters ==
  LET seen == Seen
      connect(tp, groups) ==
        LET met == { g \in groups : g \cap tp.near # {} }
        IN  (groups \ met) \cup {{tp.id} \cup UNION met}
  IN  { group \cup UNION { tp.near : tp \in { tp \in seen : tp.id \in group } } :
          group \in FoldSet(connect, {}, Core(seen)) }

\* A first TP at time 0 does not count as one (m_first_prim_time stays 0).
FirstTimeIsSeen == received # <<>> => received[1].time_start > 0

\* Taking hits one at a time gives the clusters of the textbook, those in
\* progress and those given out together: no hit too few or too many, no
\* cluster in two parts, none twice.  The textbook is applied to the hits where
\* rounding has put them: the more time has passed, the further that is from
\* where they were seen.  With min_pts above 3 it does not hold: see the run
\* dbscan_core_left_out.
ClustersAreThoseOfDBSCAN ==
  (m_config["min_pts"] <= 3 /\ FirstTimeIsSeen) =>
    /\ ActiveClusters \cup Emitted = TextbookClusters
    /\ ActiveClusters \cap Emitted = {}
    /\ \A k, l \in DOMAIN output_ta : k # l => output_ta[k].inputs # output_ta[l].inputs

\* A cluster that has been given out is complete: no hit that came later is a
\* neighbour of one of its hits; and the cluster a recent core hit points to is
\* there to be found when the next hit comes (the asserts of add_hit()).
CompletedForGood ==
  /\ FirstTimeIsSeen =>
       LET seen == Seen
       IN  \A ids \in Emitted : \A tp \in seen : tp.id \in ids => tp.near \subseteq ids
  /\ \A s \in m_hits :
       LET hit == m_hit_pool[s]
       IN  core(hit) /\ in_cluster(hit) /\ hit.time >= float(m_latest_time - eps)
             => hit.cluster \in DOMAIN m_clusters

\* The ring is large enough whenever the last PoolSize TPs have a gap in them
\* that exceeds ten eps by more than twice what the floats are apart there: the
\* slot of the next hit is free.
SlotIsFree ==
  (FirstTimeIsSeen /\ SlotInUse) =>
    \A k \in 1 .. (Len(received) - 1) : k > Len(received) - PoolSize =>
      (received[k + 1].time_start - received[k].time_start) * Fine
        <= (10 * eps + 2 * ulp[Placed(k + 1).time]) * TicksPerUnit

\* Every core hit is in a cluster, as in classic DBSCAN.
EveryCoreHitIsInACluster ==
  { tp.id : tp \in Core(Seen) } \subseteq UNION (ActiveClusters \cup Emitted)

=============================================================================
