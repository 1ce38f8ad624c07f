---------------------------- MODULE NaiveTriggerQueue ----------------------------
(* The threads of exec/run_trivial_candidate.cxx: main adds TPs to queue_in, the  *)
(* worker of NaiveTriggerQueue makes TCs of them and puts these on queue_out, the *)
(* worker of NaiveTriggerCandidateConsumer writes them to a file; then main stops *)
(* both. A step is one access to something the threads share; a call of the TC    *)
(* maker, which makes many, is two, going in and coming out. TPs are numbered in  *)
(* the order they are made; a TC is the sequence of its TPs.                      *)
EXTENDS Naturals, Sequences, SequencesExt

CONSTANTS depth_in,   \* capacity of queue_in
          n_tries,    \* how often SoftStop() waits for the consumer
          MaxTPs      \* bound: TPs main makes

ASSUME BoundsAssumption == /\ depth_in \in Nat \ {0}
                           /\ n_tries \in Nat
                           /\ MaxTPs \in Nat

VARIABLES
  queue_in, queue_out, process_on,     \* NaiveTriggerQueue
  consume_on, n_tc, file_out,          \* NaiveTriggerCandidateConsumer
  cluster,                             \* the TPs the TC maker is clustering
  main, n_tps_total, i_try, last,      \* main: where it is, TPs made, tries, its tc
  worker, tp, tcs,                     \* the worker thread and its locals
  consumer, tc,                        \* the consumer thread and its tc
  raced,                               \* history: both were in the TC maker at once
  loaded,                              \* n_tc as a thread loaded it, for n_tc++
  accepted, unread                     \* history: TPs pushed; queue_in at the stop

queueVars == <<queue_in, queue_out, process_on, cluster>>
consumerVars == <<consume_on, n_tc, file_out, loaded>>
mainVars == <<main, n_tps_total, i_try, last, accepted, unread>>
workerVars == <<worker, tp, tcs, raced>>
takerVars == <<consumer, tc>>
vars == <<queueVars, consumerVars, mainVars, workerVars, takerVars>>

None == <<>>
TPs == 1..MaxTPs

Init ==
  /\ queue_in = <<>> /\ queue_out = <<>> /\ process_on = TRUE /\ cluster = <<>>
  /\ consume_on = TRUE /\ n_tc = 0 /\ file_out = <<>>
  /\ loaded = [thread \in {"main", "consumer"} |-> 0]
  /\ main = "add" /\ n_tps_total = 0 /\ i_try = 0 /\ last = None
  /\ worker = "pop" /\ tp = None /\ tcs = <<>> /\ raced = FALSE
  /\ consumer = "pop" /\ tc = None
  /\ accepted = <<>> /\ unread = <<>>

-----------------------------------------------------------------------------
(* The worker. The TC maker is not of this repository: it adds the TP to its      *)
(* cluster, or closes the cluster before or after it. GetLastCluster() copies the *)
(* cluster and changes nothing; the two have no lock between them.                *)
Pop ==
  /\ worker = "pop"
  /\ IF queue_in = <<>>
     THEN /\ worker' = "check"
          /\ UNCHANGED <<queue_in, tp>>
     ELSE /\ worker' = "make"
          /\ tp' = <<Head(queue_in)>>
          /\ queue_in' = Tail(queue_in)
  /\ UNCHANGED <<queue_out, process_on, cluster, consumerVars, mainVars, tcs, raced, takerVars>>

EnterMaker ==
  /\ worker = "make"
  /\ worker' = "making"
  /\ raced' = (raced \/ main = "taking")
  /\ UNCHANGED <<queueVars, consumerVars, mainVars, tp, tcs, takerVars>>

MakeTC ==
  /\ worker = "making"
  /\ worker' = "push"
  /\ tp' = None
  /\ \/ cluster' = cluster \o tp /\ tcs' = <<>>
     \/ cluster' = <<>> /\ tcs' = <<cluster \o tp>>
     \/ cluster # <<>> /\ cluster' = tp /\ tcs' = <<cluster>>
  /\ UNCHANGED <<queue_in, queue_out, process_on, consumerVars, mainVars, raced, takerVars>>

(* Mutant: queue_out is bounded too.                                              *)
PushTCsBounded ==
  /\ worker = "push"
  /\ queue_out' = IF Len(queue_out) < depth_in THEN queue_out \o tcs ELSE queue_out
  /\ tcs' = <<>>
  /\ worker' = "check"
  /\ UNCHANGED <<queue_in, process_on, cluster, consumerVars, mainVars, tp, raced, takerVars>>

PushTCs ==
  /\ worker = "push"
  /\ queue_out' = queue_out \o tcs
  /\ tcs' = <<>>
  /\ worker' = "check"
  /\ UNCHANGED <<queue_in, process_on, cluster, consumerVars, mainVars, tp, raced, takerVars>>

(* Mutant: the worker first empties queue_in.                                     *)
CheckQueueEmpty ==
  /\ worker = "check"
  /\ worker' = IF process_on \/ queue_in # <<>> THEN "pop" ELSE "done"
  /\ UNCHANGED <<queueVars, consumerVars, mainVars, tp, tcs, raced, takerVars>>

CheckProcessOn ==
  /\ worker = "check"
  /\ worker' = IF process_on THEN "pop" ELSE "done"
  /\ UNCHANGED <<queueVars, consumerVars, mainVars, tp, tcs, raced, takerVars>>

Worker == Pop \/ EnterMaker \/ MakeTC \/ PushTCs \/ CheckProcessOn

-----------------------------------------------------------------------------
(* PrintToFile(): n_tc++ is a load and a store, shared with another thread        *)
(* without a lock; then the line is written.                                      *)
LoadCount(thread) ==
  /\ loaded' = [loaded EXCEPT ![thread] = n_tc]
  /\ UNCHANGED <<n_tc, file_out>>

StoreCount(thread) ==
  /\ n_tc' = loaded[thread] + 1
  /\ UNCHANGED <<loaded, file_out>>

WriteLine(thread, line) ==
  /\ file_out' = Append(file_out, [by |-> thread, tc |-> line])
  /\ UNCHANGED <<n_tc, loaded>>

-----------------------------------------------------------------------------
(* The consumer's thread.                                                         *)
GetNextProcessed ==
  /\ consumer = "pop"
  /\ IF queue_out = <<>>
     THEN /\ consumer' = "check"
          /\ UNCHANGED <<queue_out, tc>>
     ELSE /\ consumer' = "load"
          /\ tc' = Head(queue_out)
          /\ queue_out' = Tail(queue_out)
  /\ UNCHANGED <<queue_in, process_on, cluster, consumerVars, mainVars, workerVars>>

PrintTC ==
  /\ \/ consumer = "load" /\ LoadCount("consumer") /\ consumer' = "store" /\ tc' = tc
     \/ consumer = "store" /\ StoreCount("consumer") /\ consumer' = "write" /\ tc' = tc
     \/ consumer = "write" /\ WriteLine("consumer", tc) /\ consumer' = "check" /\ tc' = None
  /\ UNCHANGED <<queueVars, consume_on, mainVars, workerVars>>

CheckConsumeOn ==
  /\ consumer = "check"
  /\ consumer' = IF consume_on THEN "pop" ELSE "done"
  /\ UNCHANGED <<queueVars, consumerVars, mainVars, workerVars, tc>>

Consumer == GetNextProcessed \/ PrintTC \/ CheckConsumeOn

-----------------------------------------------------------------------------
(* main(): it adds TPs for a while, each dropped when queue_in is full.           *)
(* Mutant: the capacity is off by one.                                            *)
AddToQueueOverfull ==
  /\ main = "add"
  /\ n_tps_total < MaxTPs
  /\ n_tps_total' = n_tps_total + 1
  /\ IF Len(queue_in) <= depth_in
     THEN /\ queue_in' = Append(queue_in, n_tps_total')
          /\ accepted' = Append(accepted, n_tps_total')
     ELSE UNCHANGED <<queue_in, accepted>>
  /\ UNCHANGED <<queue_out, process_on, cluster, consumerVars, main, i_try, last,
                 unread, workerVars, takerVars>>

AddToQueue ==
  /\ main = "add"
  /\ n_tps_total < MaxTPs
  /\ n_tps_total' = n_tps_total + 1
  /\ IF Len(queue_in) < depth_in
     THEN /\ queue_in' = Append(queue_in, n_tps_total')
          /\ accepted' = Append(accepted, n_tps_total')
     ELSE UNCHANGED <<queue_in, accepted>>
  /\ UNCHANGED <<queue_out, process_on, cluster, consumerVars, main, i_try, last,
                 unread, workerVars, takerVars>>

StopAdding ==
  /\ main = "add"
  /\ main' = "soft_stop"
  /\ UNCHANGED <<queueVars, consumerVars, n_tps_total, i_try, last, accepted, unread, workerVars, takerVars>>

SoftStopWaits ==
  /\ main = "soft_stop"
  /\ queue_out # <<>> /\ i_try < n_tries
  /\ i_try' = i_try + 1
  /\ UNCHANGED <<queueVars, consumerVars, main, n_tps_total, last, accepted, unread, workerVars, takerVars>>

SoftStopGivesUp ==
  /\ main = "soft_stop"
  /\ queue_out = <<>> \/ i_try >= n_tries
  /\ main' = "stop"
  /\ UNCHANGED <<queueVars, consumerVars, n_tps_total, i_try, last, accepted, unread, workerVars, takerVars>>

(* Mutant: process_on is not cleared.                                             *)
StopProcessingForgotten ==
  /\ main = "stop"
  /\ process_on' = process_on
  /\ unread' = queue_in
  /\ main' = "consumer_stop"
  /\ UNCHANGED <<queue_in, queue_out, cluster, consumerVars, n_tps_total, i_try, last, accepted,
                 workerVars, takerVars>>

StopProcessing ==
  /\ main = "stop"
  /\ process_on' = FALSE
  /\ unread' = queue_in
  /\ main' = "consumer_stop"
  /\ UNCHANGED <<queue_in, queue_out, cluster, consumerVars, n_tps_total, i_try, last, accepted,
                 workerVars, takerVars>>

(* Mutant: consume_on is not cleared.                                             *)
StopConsumingForgotten ==
  /\ main = "consumer_stop"
  /\ consume_on' = consume_on
  /\ main' = "last_cluster"
  /\ UNCHANGED <<queueVars, n_tc, file_out, loaded, n_tps_total, i_try, last, accepted, unread,
                 workerVars, takerVars>>

StopConsuming ==
  /\ main = "consumer_stop"
  /\ consume_on' = FALSE
  /\ main' = "last_cluster"
  /\ UNCHANGED <<queueVars, n_tc, file_out, loaded, n_tps_total, i_try, last, accepted, unread,
                 workerVars, takerVars>>

EnterLastCluster ==
  /\ main = "last_cluster"
  /\ main' = "taking"
  /\ raced' = (raced \/ worker = "making")
  /\ UNCHANGED <<queueVars, consumerVars, n_tps_total, i_try, last, accepted, unread,
                 worker, tp, tcs, takerVars>>

(* What main may find in the cluster when it races with the worker: any TPs.      *)
TornReads == { s \in UNION { [1..n -> TPs] : n \in 0..MaxTPs } :
                 \A i, j \in DOMAIN s : i < j => s[i] < s[j] }

GetLastCluster ==
  /\ main = "taking"
  /\ last' \in (IF raced THEN TornReads ELSE {cluster})
  /\ main' = IF last' = <<>> THEN "join" ELSE "load"
  /\ UNCHANGED <<queueVars, consumerVars, n_tps_total, i_try, accepted, unread, workerVars, takerVars>>

PrintLastCluster ==
  /\ \/ main = "load" /\ LoadCount("main") /\ main' = "store"
     \/ main = "store" /\ StoreCount("main") /\ main' = "write"
     \/ main = "write" /\ WriteLine("main", last) /\ main' = "join"
  /\ UNCHANGED <<queueVars, consume_on, n_tps_total, i_try, last, accepted, unread, workerVars, takerVars>>

Join ==
  /\ main = "join"
  /\ worker = "done" /\ consumer = "done"
  /\ main' = "done"
  /\ UNCHANGED <<queueVars, consumerVars, n_tps_total, i_try, last, accepted, unread, workerVars, takerVars>>

Main == \/ AddToQueue \/ StopAdding \/ SoftStopWaits \/ SoftStopGivesUp
        \/ StopProcessing \/ StopConsuming \/ EnterLastCluster \/ GetLastCluster
        \/ PrintLastCluster \/ Join

-----------------------------------------------------------------------------
Next == Main \/ Worker \/ Consumer

(* The scheduler lets every thread run; no thread takes a lock or is favoured.    *)
Fairness == WF_vars(Main) /\ WF_vars(Worker) /\ WF_vars(Consumer)

Spec == Init /\ [][Next]_vars /\ Fairness

-----------------------------------------------------------------------------

(* Every variable holds what its declaration allows; n_tc counts at most the      *)
(* lines that two unsynchronised threads began to write.                          *)
TypeOK ==
  /\ queue_in \in Seq(TPs) /\ Len(queue_in) <= depth_in
  /\ queue_out \in Seq(Seq(TPs)) /\ tcs \in Seq(Seq(TPs)) /\ file_out \in Seq([by : {"main", "consumer"}, tc : Seq(TPs)])
  /\ cluster \in Seq(TPs) /\ tp \in Seq(TPs) /\ tc \in Seq(TPs) /\ last \in Seq(TPs)
  /\ process_on \in BOOLEAN /\ consume_on \in BOOLEAN
  /\ n_tc \in 0..(MaxTPs + 1) /\ i_try \in 0..n_tries
  /\ worker \in {"pop", "make", "making", "push", "check", "done"} /\ raced \in BOOLEAN
  /\ consumer \in {"pop", "load", "store", "write", "check", "done"}

(* The TPs of each line of the file that the consumer's thread has written.       *)
ConsumedLines == [i \in DOMAIN file_out |->
                    IF file_out[i].by = "consumer" THEN file_out[i].tc ELSE <<>>]

(* Where TPs are: written or at the consumer; queued as TCs or about to be; in    *)
(* the cluster, in the worker's hands or still queued as TPs.                     *)
TPsConsumed == FlattenSeq(ConsumedLines) \o tc
TPsInTCs == FlattenSeq(queue_out) \o FlattenSeq(tcs)
TPsToCome == cluster \o tp \o queue_in

(* Nothing is lost, repeated or reordered between AddToQueue() and the consumer's *)
(* file, whatever the threads do and whenever they are stopped: what was accepted *)
(* is, in order, what is written, in the consumer's hands, queued as TCs, in the  *)
(* worker's hands, clustered, and still queued as TPs.                            *)
EveryTPInItsPlace == accepted = TPsConsumed \o TPsInTCs \o TPsToCome

(* Once SoftStop() has cleared process_on, the worker takes at most one more TP:  *)
(* what else is queued stays there.                                               *)
OneMoreAfterStop == ~ process_on => Len(unread) - Len(queue_in) <= 1

(* The TC that was made last: with the worker, queued, with the consumer, or the  *)
(* last that the consumer's thread has written.                                   *)
ConsumerLines == {i \in DOMAIN file_out : file_out[i].by = "consumer"}

NewestTC ==
  CASE tcs # <<>> -> Last(tcs)
    [] tcs = <<>> /\ queue_out # <<>> -> Last(queue_out)
    [] tcs = <<>> /\ queue_out = <<>> /\ tc # None -> tc
    [] OTHER -> IF ConsumerLines = {} THEN None ELSE file_out[Max(ConsumerLines)].tc

(* The last cluster, which main takes from the TC maker without waiting for the   *)
(* worker, is written by the consumer too only as the beginning of the last TC:   *)
(* as long as the worker was not in the maker at the same time.                   *)
LastClusterEndsTheFile ==
  raced \/ IsPrefix(last, cluster \o tp) \/ IsPrefix(last, NewestTC)

(* main() comes to its end: SoftStop() gives up, and both threads are joined.     *)
Termination == <>(main = "done")
=============================================================================
