-------------------------- MODULE IncrementalDBSCAN --------------------------
(***************************************************************************)
(* class IncrementalDBSCAN: density clustering of a stream of hits in time *)
(* and channel, one hit at a time.  Hits live in a ring of slots and point *)
(* at each other by slot; here they stand in sets, for every list of hits  *)
(* in the code is one of unique hits in order of time.  connectedness and  *)
(* latest_core_point are left out: nothing reads them.  A hit's time is a  *)
(* float: it is rounded, and so is each sum and difference of times.       *)
(***************************************************************************)
EXTENDS TPStream, SequencesExt

CONSTANTS
  TicksPerUnit,   \* 100: a hit's time is 1e-2 of the TP's
  Fine,           \* bound: numbers are kept in parts of so many to the unit
  FloatBits,      \* 24: the significant bits of a float
  PoolSize        \* 10000: the slots of m_hit_pool

ASSUME DBSCANAssumption == {TicksPerUnit, Fine, FloatBits, PoolSize} \subseteq Nat \ {0}

VARIABLES
  m_config,            \* the maker's members, and so the library's: eps, min_pts
  m_hit_pool,          \* the hit in each slot
  m_pool_end,          \* the slot the next hit goes to
  m_hits,              \* the hits a new one may be a neighbour of
  m_latest_time,
  m_first_prim_time,   \* what hit times are counted from; 0: no hit yet
  m_clusters,          \* the active clusters by their index
  next_cluster_index

dbscanVars == <<m_hit_pool, m_pool_end, m_hits, m_latest_time, m_first_prim_time,
                m_clusters, next_cluster_index>>

Slots == 0 .. PoolSize - 1
kUndefined == -1
NoHit == [id |-> 0, time |-> 0, chan |-> 0, cluster |-> kUndefined, neighbours |-> {}]

\* The whole number nearest to a / b, the even one of two.
nearest(a, b) ==
  LET q == a \div b
      twice == 2 * (a % b)
  IN  IF twice < b \/ (twice = b /\ q % 2 = 0) THEN q ELSE q + 1

\* The distance of the floats around x, and the one nearest to x.
ulp[x \in Nat] == IF x < 2 ^ FloatBits THEN 1 ELSE 2 * ulp[x \div 2]

float(x) ==
  LET rounded(size) == LET u == ulp[size] IN nearest(size, u) * u
  IN  IF x < 0 THEN - rounded(- x) ELSE rounded(x)

\* m_eps
eps == m_config["eps"] * Fine

Init ==
  /\ m_hit_pool = [s \in Slots |-> NoHit]
  /\ m_pool_end = 0
  /\ m_hits = {}
  /\ m_latest_time = 0
  /\ m_first_prim_time = 0
  /\ m_clusters = <<>>
  /\ next_cluster_index = 0

-----------------------------------------------------------------------------
(* What add_hit() works on: the hits and the clusters, as one record *)

\* Closer than eps: on the other channel as in time.
Close(a, b) ==
  LET t == float(a.time - b.time)
      c == (a.chan - b.chan) * Fine
  IN  float(float(t * t) + c * c) < float(eps * eps)

core(hit) == Cardinality(hit.neighbours) + 1 >= m_config["min_pts"]

just_core(hit) == Cardinality(hit.neighbours) + 1 = m_config["min_pts"]

in_cluster(hit) == hit.cluster # kUndefined

\* Cluster::add_hit() of every hit in a set
add_hits(d, c, hs) ==
  [d EXCEPT !.hits = [s \in hs |-> [@[s] EXCEPT !.cluster = c]] @@ @,
            !.clusters[c].hits = @ \cup hs,
            !.clusters[c].latest_time = Max({@} \cup { d.hits[s].time : s \in hs })]

steal_hits(d, c, other) ==
  [add_hits(d, c, d.clusters[other].hits) EXCEPT !.clusters[other].hits = {}]

\* neighbours_sorted(): the new hit n and those close to it get to know each
\* other.
with_neighbours(d, n) ==
  LET earliest == float(d.hits[n].time - eps)
      near == { s \in m_hits : /\ s # n
                              /\ d.hits[s].time >= earliest
                              /\ Close(d.hits[s], d.hits[n]) }
      met == [s \in near |-> [d.hits[s] EXCEPT !.neighbours = @ \cup {n}]]
  IN  [d EXCEPT !.hits = (n :> [@[n] EXCEPT !.neighbours = near]) @@ met @@ @]

\* cluster_reachable(): the hits in no cluster yet that are neighbours of the
\* seed, or of core hits among them, and so on.
reachable(d, seed) ==
  LET free(hs) == { s \in hs : ~ in_cluster(d.hits[s]) }
      found[k \in 0 .. PoolSize] ==
        IF k = 0 THEN free(d.hits[seed].neighbours)
        ELSE LET less == found[k - 1]
             IN  less \cup free(UNION { d.hits[s].neighbours :
                                          s \in { q \in less : core(d.hits[q]) } })
  IN  found[PoolSize]

\* A new cluster around a core hit.
start_cluster(d, seed) ==
  LET c == d.next
      begun == [d EXCEPT !.next = @ + 1,
                         !.clusters = (c :> [latest_time |-> 0, hits |-> {}]) @@ @]
      seeded == add_hits(begun, c, {seed})
  IN  add_hits(seeded, c, reachable(seeded, seed))

\* The clusters in which the new hit has a core neighbour.
clusters_neighbouring_hit(d, n) ==
  { d.hits[q].cluster : q \in { s \in d.hits[n].neighbours :
                                  in_cluster(d.hits[s]) /\ core(d.hits[s]) } }

\* A plausible slip: hits that the new one made core keep their neighbours to
\* themselves.
joined_alone(d, n, c) ==
  add_hits(d, c, {n} \cup { q \in d.hits[n].neighbours : ~ in_cluster(d.hits[q]) })

\* The new hit joins cluster c with those of its neighbours that are in none,
\* and with all the neighbours of those it has just made core.
joined(d, n, c) ==
  LET near == d.hits[n].neighbours
  IN  add_hits(d, c, {n} \cup { q \in near : ~ in_cluster(d.hits[q]) }
                         \cup UNION { d.hits[q].neighbours :
                                        q \in { s \in near : just_core(d.hits[s]) } })

\* It joins the first of the clusters it touches, which steals all the others.
joined_and_merged(d, n, touched) ==
  LET c == Min(touched)
  IN  FoldSet(LAMBDA other, e : steal_hits(e, c, other), joined(d, n, c), touched \ {c})

\* No cluster touched: the new hit starts one if it is core itself.
unmatched(d, n) == IF core(d.hits[n]) THEN start_cluster(d, n) ELSE d

\* Last case: the new hit is in no cluster, and has made one of its neighbours
\* core that is in none: the first of them (the oldest) starts a cluster, and
\* takes the new hit in.
last_case(d, n) ==
  LET made_core == { q \in d.hits[n].neighbours :
                       core(d.hits[q]) /\ ~ in_cluster(d.hits[q]) }
      oldest == CHOOSE q \in made_core : \A s \in made_core : d.hits[q].id <= d.hits[s].id
  IN  IF in_cluster(d.hits[n]) \/ made_core = {} THEN d ELSE start_cluster(d, oldest)

clustered(d, n) ==
  LET e == with_neighbours(d, n)
      touched == clusters_neighbouring_hit(e, n)
  IN  last_case(IF touched = {} THEN unmatched(e, n) ELSE joined_and_merged(e, n, touched), n)

\* A plausible slip: a cluster is complete as soon as a later hit has come.
complete_at_once(cluster, now) == cluster.hits = {} \/ cluster.latest_time < now

\* Stolen from, or too old for a hit of now.
complete(cluster, now) == cluster.hits = {} \/ cluster.latest_time < float(now - eps)

-----------------------------------------------------------------------------
(* add_primitive() and trim_hits() *)

\* The slot of the next hit still holds one that may be read.
SlotInUse ==
  \/ m_pool_end \in m_hits
  \/ \E c \in DOMAIN m_clusters : m_pool_end \in m_clusters[c].hits

\* What becomes of the TP's time: 1e-2 of the ticks since the first one, as a
\* float.
hit_time(tp, first) == float(nearest(elapsed(tp.time_start, first) * Fine, TicksPerUnit))

\* Hit::reset()
new_hit(tp, first) ==
  [NoHit EXCEPT !.id = tp.id, !.chan = tp.channel, !.time = hit_time(tp, first)]

\* The first TP sets the time hits are counted from, every TP does that comes
\* while it is 0.
first_time(tp) == IF m_first_prim_time = 0 THEN tp.time_start ELSE m_first_prim_time

\* What add_hit() leaves in the pool and the clusters, before complete ones go.
after_add_hit(tp) ==
  clustered([hits |-> [m_hit_pool EXCEPT ![m_pool_end] = new_hit(tp, first_time(tp))],
             clusters |-> m_clusters, next |-> next_cluster_index],
            m_pool_end)

\* A plausible slip: trim_hits() is forgotten.
untrimmed(hits, active, pool, now) == hits

\* trim_hits(): hits are forgotten ten eps before the first of those in an
\* active cluster, or before now when there is none.
trimmed(hits, active, pool, now) ==
  LET earliest == Min({now} \cup { pool[s].time : s \in UNION { active[c].hits : c \in DOMAIN active } })
  IN  { s \in hits : pool[s].time >= float(earliest - float(10 * eps)) }

\* A plausible slip: the end of the ring is noticed one slot too late.
slot_after_late(slot) == IF slot = PoolSize THEN 0 ELSE slot + 1

slot_after(slot) == (slot + 1) % PoolSize

\* What is left for later, when d is what add_hit() has made of the hits.
add_primitive(tp, d) ==
  LET now == hit_time(tp, first_time(tp))
      done == { c \in DOMAIN d.clusters : complete(d.clusters[c], now) }
      active == [c \in DOMAIN d.clusters \ done |-> d.clusters[c]]
  IN  /\ m_first_prim_time' = first_time(tp)
      /\ m_pool_end' = slot_after(m_pool_end)
      /\ m_latest_time' = now
      /\ m_hit_pool' = d.hits
      /\ m_clusters' = active
      /\ next_cluster_index' = d.next
      /\ m_hits' = trimmed(m_hits \cup {m_pool_end}, active, d.hits, now)

\* The clusters that this hit completes, in order of their index, as sets of
\* hits; the ones that were stolen from are left out.
completed_clusters(tp, d) ==
  LET now == hit_time(tp, first_time(tp))
      done == { c \in DOMAIN d.clusters :
                  complete(d.clusters[c], now) /\ d.clusters[c].hits # {} }
      in_order == SetToSortSeq(done, <)
  IN  [k \in DOMAIN in_order |-> { d.hits[s].id : s \in d.clusters[in_order[k]].hits }]

=============================================================================
