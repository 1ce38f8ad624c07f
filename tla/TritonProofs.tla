---------------------------- MODULE TritonProofs ----------------------------
(***************************************************************************)
(* The Triton TA maker and its client, for every model the server may      *)
(* describe, every configuration and any number of TPs: a request is sent  *)
(* as often as allowed and no more, and how far requests keep apart.       *)
(***************************************************************************)
EXTENDS TriggerActivityMakerTriton, TLAPS

ConfigIsRead ==
  /\ ValidConfig(m_config) /\ DOMAIN m_config = DOMAIN Defaults
  /\ phase = "no_client" => m_config = Defaults

\* How many calls a try is worth at each point of dispatch(): tries_ counts
\* the calls that failed, so while one is made there is one more.
TriesAndCalls ==
  /\ tries_ \in Nat /\ allowed_tries_ \in Nat /\ calls \in Nat /\ requests \in Nat
  /\ received \in Nat
  /\ phase = "no_client" => batch_size_ = 0 /\ calls = 0
  /\ phase \in InProgress => requests > 0
  /\ phase \in {"evaluate", "start_status"} => calls = tries_
  /\ phase \in {"inferring", "end_status", "results"} => calls = tries_ + 1
  /\ phase \in InProgress \ {"handle"} => tries_ = 0 \/ tries_ < allowed_tries_

TypeInv == TypeOK /\ ConfigIsRead /\ TriesAndCalls

-----------------------------------------------------------------------------
(* What keeps its type *)

\* A configuration that is read over another one.
LEMMA ConfigMerged ==
  ASSUME ConfigIsRead, NEW config \in Configs, configure(config)
  PROVE  ValidConfig(m_config') /\ DOMAIN m_config' = DOMAIN Defaults
<1>1. ValidConfig(config)  BY TritonMakerAssumption
<1>2. m_config' = [k \in DOMAIN Defaults |->
                     IF k \in DOMAIN config THEN config[k] ELSE m_config[k]]
  BY DEF configure
<1> QED
  BY <1>1, <1>2 DEF ValidConfig, ConfigIsRead

\* What is configured is a natural number.
LEMMA ConfiguredNumbers ==
  ASSUME NEW m, ValidConfig(m), DOMAIN m = DOMAIN Defaults
  PROVE  /\ m["number_tps_per_request"] \in Nat /\ m["batch_size"] \in Nat
         /\ m["allowed_tries"] \in Nat /\ m["client_timeout_microseconds"] \in Nat
         /\ m["verbose"] \in BOOLEAN
BY TritonMakerAssumption DEF ValidConfig

\* Names are names of some model's inputs and outputs.
LEMMA ModelNames ==
  ASSUME NEW m \in Models
  PROVE  m.inputs \subseteq Names /\ m.outputs \subseteq Names
BY DEF Names

\* Results of earlier requests stay results, and chunks stay chunks.
LEMMA MoreRequests ==
  ASSUME NEW n \in Nat
  PROVE  /\ 1 .. n \subseteq 1 .. (n + 1)
         /\ \A s \in Seq(1 .. n) : s \in Seq(1 .. (n + 1))
<1>1. 1 .. n \subseteq 1 .. (n + 1)  OBVIOUS
<1>2. ASSUME NEW s \in Seq(1 .. n) PROVE s \in Seq(1 .. (n + 1))
  <2>1. s \in [1 .. Len(s) -> 1 .. n] /\ Len(s) \in Nat  OBVIOUS
  <2>2. s \in [1 .. Len(s) -> 1 .. (n + 1)]  BY <1>1, <2>1
  <2> QED  BY <2>1, <2>2
<1> QED  BY <1>1, <1>2

-----------------------------------------------------------------------------
(* Types, step by step *)

LEMMA TypeInit == Init => TypeInv
<1> SUFFICES ASSUME Init PROVE TypeInv
  OBVIOUS
<1>1. phase = "no_client" /\ tries_ = 0 /\ calls = 0 /\ allowed_tries_ = 0 /\ requests = 0
      /\ received = 0 /\ batch_size_ = 0 /\ verbose_ = FALSE /\ client_timeout_ = 0
  BY DEF Init, InitClient
<1>2. ConfigIsRead  BY TritonMakerAssumption DEF Init, ConfigIsRead
<1>3. TriesAndCalls  BY <1>1 DEF TriesAndCalls, InProgress
<1>4. model = NoModel /\ input_ = <<>> /\ output_ = <<>> /\ m_current_ta = <<>>
  BY DEF Init, InitClient
<1>5. verbose_ \in BOOLEAN  BY <1>1, Zenon
<1>6. /\ phase = "no_client" /\ calls = 0 /\ tries_ = 0 /\ allowed_tries_ = 0 /\ requests = 0
      /\ received = 0 /\ batch_size_ = 0 /\ client_timeout_ = 0
  BY <1>1
<1>7. TypeOK
  <2> HIDE <1>1
  <2> QED  BY <1>4, <1>5, <1>6 DEF TypeOK, maxBatchSize, NoModel, Results, InProgress
<1> QED  BY <1>2, <1>3, <1>7 DEF TypeInv

\* configure() leaves the client idle, or good for nothing.
LEMMA TypeConfigure ==
  ASSUME TypeInv, NEW config \in Configs, configure(config)
  PROVE  TypeInv'
<1>1. /\ ConfigIsRead' /\ m_config'["allowed_tries"] \in Nat
      /\ m_config'["client_timeout_microseconds"] \in Nat /\ m_config'["verbose"] \in BOOLEAN
  <2>1. ConfigIsRead  BY DEF TypeInv
  <2>2. ValidConfig(m_config') /\ DOMAIN m_config' = DOMAIN Defaults
    BY <2>1, ConfigMerged
  <2>3. phase' # "no_client"
    BY DEF configure, create_client, misconfigure, cannot_create_client
  <2> QED  BY <2>2, <2>3, ConfiguredNumbers DEF ConfigIsRead
<1>2. UNCHANGED <<tries_, requests, calls, m_current_ta, received>>
  BY DEF configure, create_client, misconfigure, cannot_create_client
<1>3. phase' \in {"idle", "misconfigured", "exited"}
  BY DEF configure, create_client, misconfigure, cannot_create_client
<1>4. ASSUME NEW m \in Models, create_client(m, m_config')
      PROVE  /\ model' \in Models /\ allowed_tries_' \in Nat
             /\ verbose_' \in BOOLEAN /\ client_timeout_' \in Nat
             /\ batch_size_' \in 0 .. maxBatchSize'
             /\ DOMAIN input_' \in SUBSET Names /\ DOMAIN output_' \in SUBSET Names
             /\ \A i \in DOMAIN input_' : input_'[i] \in Seq(1 .. requests)
             /\ \A o \in DOMAIN output_' : output_'[o] \in Results
  <2>1. /\ model' = m /\ allowed_tries_' \in Nat
        /\ verbose_' \in BOOLEAN /\ client_timeout_' \in Nat
    BY <1>1, <1>4 DEF create_client
  <2>2. m.max_batch_size \in Nat  BY TritonClientAssumption
  <2>3. maxBatchSize' >= 1 /\ maxBatchSize' \in Nat  BY <2>1, <2>2 DEF maxBatchSize
  <2>4. CASE m.inputs = {} \/ m.outputs = {}
    <3>1. UNCHANGED <<input_, output_, batch_size_>>  BY <1>4, <2>4 DEF create_client
    <3>2. batch_size_ = 0
      BY DEF TypeInv, TriesAndCalls, configure
    <3>3. /\ DOMAIN input_ \in SUBSET Names /\ DOMAIN output_ \in SUBSET Names
          /\ \A i \in DOMAIN input_ : input_[i] \in Seq(1 .. requests)
          /\ \A o \in DOMAIN output_ : output_[o] \in Results
      BY DEF TypeInv, TypeOK
    <3>4. batch_size_' \in 0 .. maxBatchSize'  BY <2>3, <3>1, <3>2
    <3> QED  BY <2>1, <3>1, <3>3, <3>4
  <2>5. CASE ~ (m.inputs = {} \/ m.outputs = {})
    <3>1. /\ input_' = [i \in m.inputs |-> <<>>] /\ batch_size_' = 1
          /\ DOMAIN output_' \subseteq m.outputs
          /\ \A o \in DOMAIN output_' : output_'[o] = NoResult
      BY <1>4, <2>5 DEF create_client
    <3>2. m.inputs \subseteq Names /\ m.outputs \subseteq Names  BY ModelNames
    <3>3. \A i \in DOMAIN input_' : input_'[i] \in Seq(1 .. requests)
      <4>1. <<>> \in Seq(1 .. requests)  OBVIOUS
      <4> QED  BY <3>1, <4>1
    <3>4. \A o \in DOMAIN output_' : output_'[o] \in Results
      BY <3>1 DEF Results
    <3> QED  BY <2>1, <2>3, <3>1, <3>2, <3>3, <3>4
  <2> QED  BY <2>4, <2>5
<1>5. ASSUME UNCHANGED <<config_, batch_size_, input_, output_>>
      PROVE  /\ model' \in Models \cup {NoModel} /\ allowed_tries_' \in Nat
             /\ verbose_' \in BOOLEAN /\ client_timeout_' \in Nat
             /\ batch_size_' \in 0 .. maxBatchSize'
             /\ DOMAIN input_' \in SUBSET Names /\ DOMAIN output_' \in SUBSET Names
             /\ \A i \in DOMAIN input_' : input_'[i] \in Seq(1 .. requests)
             /\ \A o \in DOMAIN output_' : output_'[o] \in Results
  BY <1>5 DEF TypeInv, TypeOK, TriesAndCalls, maxBatchSize, config_
<1>6. /\ model' \in Models \cup {NoModel} /\ allowed_tries_' \in Nat
      /\ verbose_' \in BOOLEAN /\ client_timeout_' \in Nat
      /\ batch_size_' \in 0 .. maxBatchSize'
      /\ DOMAIN input_' \in SUBSET Names /\ DOMAIN output_' \in SUBSET Names
      /\ \A i \in DOMAIN input_' : input_'[i] \in Seq(1 .. requests)
      /\ \A o \in DOMAIN output_' : output_'[o] \in Results
  BY <1>4, <1>5 DEF configure, misconfigure, cannot_create_client
<1>7. calls = 0
  BY DEF TypeInv, TriesAndCalls, configure
<1>8. TriesAndCalls'
  BY <1>2, <1>3, <1>6 DEF TypeInv, TriesAndCalls, InProgress
<1>9. TypeOK'
  BY <1>2, <1>3, <1>6, <1>7 DEF TypeInv, TypeOK, TriesAndCalls, Results, InProgress
<1> QED  BY <1>1, <1>8, <1>9 DEF TypeInv

\* A TP is collected, or a request begins with a batch of its own.
LEMMA TypeReceive ==
  ASSUME TypeInv, receive
  PROVE  TypeInv'
<1>1. ConfigIsRead'
  <2>1. phase' # "no_client"
    BY DEF receive, collect, request, prepare_input, clientVars
  <2> QED  BY <2>1 DEF receive, ConfigIsRead, TypeInv
<1>2. received' \in Nat /\ received' = received + 1
  BY DEF receive, TypeInv, TriesAndCalls
<1>3. m_current_ta' \in Seq(1 .. received')
  <2>1. m_current_ta \in Seq(1 .. received')
    BY <1>2, MoreRequests DEF TypeInv, TypeOK, TriesAndCalls
  <2>2. received + 1 \in 1 .. received'  BY <1>2 DEF TypeInv, TriesAndCalls
  <2>3. <<received + 1, received + 1>> \in Seq(1 .. received')  BY <2>2
  <2>4. m_current_ta' = m_current_ta \o <<received + 1, received + 1>>
          \/ m_current_ta' = Append(m_current_ta, received + 1)
    BY DEF receive, collect, request
  <2>5. Append(m_current_ta, received + 1) \in Seq(1 .. received')
    <3> HIDE <1>2
    <3> QED  BY <2>1, <2>2
  <2>6. m_current_ta \o <<received + 1, received + 1>> \in Seq(1 .. received')
    BY <2>1, <2>3
  <2> QED  BY <2>4, <2>5, <2>6
<1>4. CASE collect
  BY <1>1, <1>2, <1>3, <1>4
     DEF collect, clientVars, config_, TypeInv, TypeOK, TriesAndCalls, maxBatchSize, Results
<1>5. CASE request
  <2>1. /\ requests' = requests + 1 /\ calls' = 0
        /\ UNCHANGED <<model, allowed_tries_, verbose_, client_timeout_, output_>>
        /\ phase' \in {"evaluate", "threw", "exited"}
        /\ phase' = "evaluate" => tries_' = 0
        /\ phase' # "evaluate" => tries_' = tries_
    BY <1>5 DEF request, prepare_input, start_tries, config_
  <2>2. requests \in Nat /\ requests' \in Nat /\ requests' > 0
    BY <2>1 DEF TypeInv, TriesAndCalls
  <2>3. batch_size_' \in 0 .. maxBatchSize'
    <3>1. m_config["batch_size"] \in Nat
      BY ConfiguredNumbers DEF TypeInv, ConfigIsRead
    <3>2. maxBatchSize' = maxBatchSize /\ maxBatchSize \in Nat
      <4>1. model \in Models \cup {NoModel}  BY DEF TypeInv, TypeOK
      <4>2. model.max_batch_size \in Nat  BY <4>1, TritonClientAssumption DEF NoModel
      <4> QED  BY <2>1, <4>2 DEF maxBatchSize
    <3>3. batch_size_ \in 0 .. maxBatchSize  BY DEF TypeInv, TypeOK
    <3> QED  BY <1>5, <3>1, <3>2, <3>3 DEF request, batch_size_set_to
  <2>4. /\ DOMAIN input_' = DOMAIN input_
        /\ \A i \in DOMAIN input_' : input_'[i] \in Seq(1 .. requests')
    <3>1. \A i \in DOMAIN input_ : input_[i] \in Seq(1 .. requests')
      BY <2>1, <2>2, MoreRequests DEF TypeInv, TypeOK
    <3>2. CASE UNCHANGED input_  BY <3>1, <3>2
    <3>3. ASSUME NEW inputs, prepare_input(inputs)
          PROVE  /\ DOMAIN input_' = DOMAIN input_
                 /\ \A i \in DOMAIN input_' : input_'[i] \in Seq(1 .. requests')
      <4>1. CASE UNCHANGED input_  BY <3>1, <4>1
      <4>2. CASE input_' = [i \in DOMAIN input_ |->
                              IF i \in inputs THEN to_server(i, batch_size_') ELSE input_[i]]
        <5>1. ASSUME NEW i \in DOMAIN input_ PROVE to_server(i, batch_size_') \in Seq(1 .. requests')
          <6>1. PICK b \in Nat : b = batch_size_'  BY <2>3
          <6>2. requests + 1 \in 1 .. requests'  BY <2>1, <2>2
          <6>3. [k \in 1 .. b |-> requests + 1] \in Seq(1 .. requests')  BY <6>2
          <6> QED  BY <3>1, <6>1, <6>3 DEF to_server
        <5> QED  BY <3>1, <4>2, <5>1
      <4> QED  BY <3>3, <4>1, <4>2 DEF prepare_input
    <3> QED  BY <1>5, <3>2, <3>3 DEF request
  <2>5. \A o \in DOMAIN output_' : output_'[o] \in Results'
    BY <2>1, <2>2, MoreRequests DEF TypeInv, TypeOK, Results
  <2>6. tries_' \in Nat  BY <2>1 DEF TypeInv, TriesAndCalls
  <2>7. TriesAndCalls'
    BY <1>2, <2>1, <2>2, <2>6 DEF TypeInv, TriesAndCalls, InProgress
  <2>8. /\ calls' <= tries_' + 1
        /\ calls' \in 0 .. (IF allowed_tries_' = 0 THEN 1 ELSE allowed_tries_')
    <3>1. calls' = 0  BY <2>1
    <3>2. PICK n \in Nat : n = allowed_tries_'  BY <2>1 DEF TypeInv, TriesAndCalls
    <3>3. PICK t \in Nat : t = tries_'  BY <2>6
    <3>4. 0 <= t + 1 /\ 0 \in 0 .. (IF n = 0 THEN 1 ELSE n)  OBVIOUS
    <3> QED  BY <3>1, <3>2, <3>3, <3>4
  <2>9. /\ model' \in Models \cup {NoModel}
        /\ verbose_' \in BOOLEAN /\ client_timeout_' \in Nat
        /\ DOMAIN input_' \in SUBSET Names /\ DOMAIN output_' \in SUBSET Names
    BY <2>1, <2>4 DEF TypeInv, TypeOK
  <2>10. TypeOK'
    BY <1>3, <2>1, <2>3, <2>4, <2>5, <2>8, <2>9 DEF TypeOK, InProgress
  <2> QED  BY <1>1, <2>7, <2>10 DEF TypeInv
<1> QED  BY <1>4, <1>5 DEF receive

\* After a call the tries are counted, and another try is made only while
\* some are left.
LEMMA FinishCounts ==
  ASSUME TypeInv, phase \in {"evaluate", "inferring", "results"}, NEW success \in BOOLEAN,
         finish(success), phase = "evaluate" => success,
         UNCHANGED <<calls, allowed_tries_>>
  PROVE  /\ tries_' \in Nat /\ calls <= tries_' + 1
         /\ phase' \in {"evaluate", "handle"}
         /\ phase' = "evaluate" => calls = tries_' /\ tries_' < allowed_tries_
BY DEF TypeInv, TriesAndCalls, finish, tries_left, InProgress

\* What is left of the types to show for a step of dispatch() that leaves the
\* configuration and the inputs alone.
LEMMA DispatchStep ==
  ASSUME TypeInv, phase \in InProgress,
         UNCHANGED <<config_, batch_size_, input_, requests>>, UNCHANGED makerVars,
         DOMAIN output_' = DOMAIN output_, \A o \in DOMAIN output_' : output_'[o] \in Results,
         phase' \in InProgress \cup {"threw"},
         TriesAndCalls', calls' <= tries_' + 1,
         calls' \in 0 .. (IF allowed_tries_ = 0 THEN 1 ELSE allowed_tries_)
  PROVE  TypeInv'
<1>1. /\ UNCHANGED <<model, allowed_tries_, verbose_, client_timeout_>>
      /\ UNCHANGED <<m_config, m_current_ta, received>>
  BY DEF config_, makerVars
<1>2. maxBatchSize' = maxBatchSize /\ Results' = Results
  BY <1>1 DEF maxBatchSize, Results
<1>3. TypeOK'
  BY <1>1, <1>2 DEF TypeInv, TypeOK
<1>4. ConfigIsRead'
  BY <1>1 DEF TypeInv, ConfigIsRead, InProgress
<1> QED  BY <1>3, <1>4 DEF TypeInv

LEMMA TypeProceed ==
  ASSUME TypeInv, proceed
  PROVE  TypeInv'
<1>1. /\ phase \in {"evaluate", "results"} /\ phase \in InProgress
      /\ UNCHANGED <<config_, batch_size_, input_, requests, calls>>
      /\ UNCHANGED <<allowed_tries_, received>> /\ UNCHANGED makerVars
  BY DEF proceed, evaluate, getResults, shape_is_wrong, InProgress, makerVars, config_
<1>2. /\ requests > 0 /\ requests \in Nat /\ calls \in Nat /\ received \in Nat
      /\ tries_ \in Nat /\ allowed_tries_ \in Nat
      /\ calls \in {tries_, tries_ + 1} /\ (phase = "evaluate" => calls = tries_)
      /\ (phase = "results" => calls = tries_ + 1)
      /\ (tries_ = 0 \/ tries_ < allowed_tries_)
  BY <1>1 DEF TypeInv, TriesAndCalls, InProgress
<1>3. /\ DOMAIN output_' = DOMAIN output_
      /\ \A o \in DOMAIN output_' : output_'[o] \in Results
  <2>1. /\ DOMAIN output_ \in SUBSET Names
        /\ \A o \in DOMAIN output_ : output_[o] \in Results
    BY DEF TypeInv, TypeOK
  <2>2. ASSUME NEW outs, NEW wrong \in SUBSET DOMAIN output_, output_' = with_result(outs, wrong),
               phase = "results"
        PROVE  /\ DOMAIN output_' = DOMAIN output_
               /\ \A o \in DOMAIN output_' : output_'[o] \in Results
    <3>1. [request |-> requests, call |-> calls, wrong |-> wrong] \in Results
      BY <1>2, <2>1, <2>2 DEF Results
    <3> QED  BY <2>1, <2>2, <3>1 DEF with_result
  <2>3. {} \in SUBSET DOMAIN output_  OBVIOUS
  <2>4. CASE getResults  BY <2>2, <2>4 DEF getResults
  <2>5. CASE evaluate  BY <2>1, <2>5 DEF evaluate
  <2>6. CASE shape_is_wrong  BY <2>2, <2>3, <2>6 DEF shape_is_wrong
  <2> QED  BY <2>4, <2>5, <2>6 DEF proceed
<1>4. /\ tries_' \in Nat /\ calls <= tries_' + 1
      /\ phase' \in {"evaluate", "start_status", "handle", "threw"}
      /\ phase' = "evaluate" => calls = tries_' /\ tries_' < allowed_tries_
      /\ phase' = "start_status" => calls = tries_' /\ tries_' = tries_
  <2>1. \/ \E success \in BOOLEAN : finish(success) /\ (phase = "evaluate" => success)
        \/ phase' = "threw" /\ UNCHANGED tries_
        \/ phase' = "start_status" /\ UNCHANGED tries_ /\ phase = "evaluate"
    <3>1. TRUE \in BOOLEAN /\ FALSE \in BOOLEAN  OBVIOUS
    <3>2. CASE evaluate
      <4>1. CASE batch_size_ = 0
        <5>1. finish(TRUE)  BY <3>2, <4>1 DEF evaluate
        <5> QED  BY <5>1
      <4>2. CASE batch_size_ # 0  BY <3>2, <4>2 DEF evaluate
      <4> QED  BY <4>1, <4>2
    <3>3. CASE getResults
      <4>1. finish(TRUE)  BY <3>3 DEF getResults
      <4> QED  BY <4>1
    <3>4. CASE shape_is_wrong
      <4>1. phase # "evaluate" /\ (finish(FALSE) \/ (phase' = "threw" /\ UNCHANGED tries_))
        BY <3>4 DEF shape_is_wrong
      <4> QED  BY <4>1
    <3> QED  BY <3>2, <3>3, <3>4 DEF proceed
  <2>2. CASE phase' = "threw" /\ UNCHANGED tries_  BY <1>2, <2>2
  <2>3. CASE phase' = "start_status" /\ UNCHANGED tries_ /\ phase = "evaluate"
    BY <1>2, <2>3
  <2>4. ASSUME NEW success \in BOOLEAN, finish(success), phase = "evaluate" => success
        PROVE  /\ tries_' \in Nat /\ calls <= tries_' + 1
               /\ phase' \in {"evaluate", "handle"}
               /\ phase' = "evaluate" => calls = tries_' /\ tries_' < allowed_tries_
    BY <1>1, <2>4, FinishCounts
  <2> QED  BY <2>1, <2>2, <2>3, <2>4
<1>5. TriesAndCalls'
  BY <1>1, <1>2, <1>4 DEF TriesAndCalls, InProgress
<1>6. calls' <= tries_' + 1
  BY <1>1, <1>4
<1>7. calls' \in 0 .. (IF allowed_tries_ = 0 THEN 1 ELSE allowed_tries_)
  BY <1>1 DEF TypeInv, TypeOK
<1>8. phase' \in InProgress \cup {"threw"}  BY <1>4 DEF InProgress
<1> QED  BY <1>1, <1>3, <1>5, <1>6, <1>7, <1>8, DispatchStep

\* The server's answers are counted; the results are kept for later.
LEMMA TypeReturns ==
  ASSUME TypeInv, status_returns \/ infer_returns
  PROVE  TypeInv'
<1>1. /\ phase \in {"start_status", "inferring", "end_status"} /\ phase \in InProgress
      /\ UNCHANGED <<config_, batch_size_, input_, output_, requests>>
      /\ UNCHANGED <<allowed_tries_, received>> /\ UNCHANGED makerVars
  BY DEF status_returns, infer_returns, start_status, end_status, infer_succeeds, infer_fails,
         InProgress, makerVars, config_
<1>2. /\ requests > 0 /\ requests \in Nat /\ calls \in Nat /\ received \in Nat
      /\ tries_ \in Nat /\ allowed_tries_ \in Nat
      /\ (phase = "start_status" => calls = tries_)
      /\ (phase \in {"inferring", "end_status"} => calls = tries_ + 1)
      /\ (tries_ = 0 \/ tries_ < allowed_tries_)
      /\ calls \in 0 .. (IF allowed_tries_ = 0 THEN 1 ELSE allowed_tries_)
  BY <1>1 DEF TypeInv, TypeOK, TriesAndCalls, InProgress
<1>3. /\ DOMAIN output_' = DOMAIN output_
      /\ \A o \in DOMAIN output_' : output_'[o] \in Results
  BY <1>1 DEF TypeInv, TypeOK
<1>4. CASE phase' \in {"inferring", "end_status", "results"} /\ UNCHANGED tries_
           /\ calls' = tries_ + 1
  <2>1. TriesAndCalls'  BY <1>1, <1>2, <1>4 DEF TriesAndCalls, InProgress
  <2>2. calls' <= tries_' + 1  BY <1>2, <1>4
  <2>3. calls' \in 0 .. (IF allowed_tries_ = 0 THEN 1 ELSE allowed_tries_)  BY <1>2, <1>4
  <2>4. phase' \in InProgress \cup {"threw"}  BY <1>4 DEF InProgress
  <2> QED  BY <1>1, <1>3, <2>1, <2>2, <2>3, <2>4, DispatchStep
<1>5. CASE finish(FALSE) /\ phase = "inferring" /\ UNCHANGED calls
  <2>1. /\ tries_' \in Nat /\ calls <= tries_' + 1
        /\ phase' \in {"evaluate", "handle"}
        /\ phase' = "evaluate" => calls = tries_' /\ tries_' < allowed_tries_
    BY <1>1, <1>5, FinishCounts
  <2>2. TriesAndCalls'  BY <1>1, <1>2, <1>5, <2>1 DEF TriesAndCalls, InProgress
  <2>3. phase' \in InProgress \cup {"threw"}  BY <2>1 DEF InProgress
  <2>4. calls' <= tries_' + 1 /\ calls' = calls  BY <1>5, <2>1
  <2> QED  BY <1>1, <1>2, <1>3, <2>2, <2>3, <2>4, DispatchStep
<1>6. \/ /\ phase' \in {"inferring", "end_status", "results"} /\ UNCHANGED tries_
         /\ calls' = tries_ + 1
      \/ finish(FALSE) /\ phase = "inferring" /\ UNCHANGED calls
  <2>1. CASE start_status
    <3>1. /\ phase = "start_status" /\ phase' = "inferring" /\ UNCHANGED tries_
          /\ calls' = IF calls < allowed_tries_ + 2 THEN calls + 1 ELSE calls
      BY <2>1 DEF start_status
    <3> QED  BY <1>2, <3>1
  <2>2. CASE end_status
    <3>1. /\ phase = "end_status" /\ phase' = "results" /\ UNCHANGED <<tries_, calls>>
      BY <2>2 DEF end_status
    <3> QED  BY <1>2, <3>1
  <2>3. CASE infer_succeeds
    <3>1. /\ phase = "inferring" /\ phase' = "end_status" /\ UNCHANGED <<tries_, calls>>
      BY <2>3 DEF infer_succeeds
    <3> QED  BY <1>2, <3>1
  <2>4. CASE infer_fails  BY <2>4 DEF infer_fails
  <2> QED  BY <2>1, <2>2, <2>3, <2>4 DEF status_returns, infer_returns
<1> QED  BY <1>4, <1>5, <1>6

LEMMA TypeHandle ==
  ASSUME TypeInv, handle_output
  PROVE  TypeInv'
<1>1. /\ phase = "handle" /\ phase' \in {"idle", "threw", "exited"}
      /\ UNCHANGED <<model, allowed_tries_, verbose_, client_timeout_, tries_, batch_size_,
                     requests, calls, m_config, received>>
      /\ m_current_ta' = m_current_ta \/ m_current_ta' = <<>>
      /\ (UNCHANGED <<input_, output_>>) \/ reset
  BY DEF handle_output, config_
<1>2. /\ DOMAIN input_ \in SUBSET Names /\ DOMAIN output_ \in SUBSET Names
      /\ \A i \in DOMAIN input_ : input_[i] \in Seq(1 .. requests)
      /\ \A o \in DOMAIN output_ : output_[o] \in Results
  BY DEF TypeInv, TypeOK
<1>3. NoResult \in Results  BY DEF Results
<1>4. /\ DOMAIN input_' \in SUBSET Names /\ DOMAIN output_' \in SUBSET Names
      /\ \A i \in DOMAIN input_' : input_'[i] \in Seq(1 .. requests)
      /\ \A o \in DOMAIN output_' : output_'[o] \in Results
  <2>1. CASE UNCHANGED <<input_, output_>>  BY <1>2, <2>1
  <2>2. CASE reset  BY <1>2, <1>3, <2>2 DEF reset
  <2> QED  BY <1>1, <2>1, <2>2
<1>5. maxBatchSize' = maxBatchSize /\ Results' = Results
  BY <1>1 DEF maxBatchSize, Results
<1>6. m_current_ta' \in Seq(1 .. received')
  <2>1. m_current_ta \in Seq(1 .. received) /\ <<>> \in Seq(1 .. received)
    BY DEF TypeInv, TypeOK
  <2> QED  BY <1>1, <2>1
<1>7. TypeOK'
  BY <1>1, <1>4, <1>5, <1>6 DEF TypeInv, TypeOK, InProgress
<1> QED  BY <1>1, <1>7 DEF TypeInv, ConfigIsRead, TriesAndCalls, InProgress

LEMMA TypeCatch ==
  ASSUME TypeInv, catch
  PROVE  TypeInv'
BY DEF catch, config_, TypeInv, TypeOK, ConfigIsRead, TriesAndCalls, InProgress, maxBatchSize, Results

LEMMA TypeStep == TypeInv /\ [Next]_vars => TypeInv'
<1> SUFFICES ASSUME TypeInv, [Next]_vars PROVE TypeInv'
  OBVIOUS
<1>1. CASE UNCHANGED vars
  BY <1>1 DEF vars, clientVars, config_, TypeInv, TypeOK, ConfigIsRead, TriesAndCalls, InProgress,
              maxBatchSize, Results
<1> QED
  BY <1>1, TypeConfigure, TypeReceive, TypeProceed, TypeReturns, TypeHandle, TypeCatch DEF Next

-----------------------------------------------------------------------------
(* Requests are separate *)

\* The handlers of the model in use.
HandledInputs == HandlerInputs[m_config["model_name"]]
HandledOutputs == HandlerOutputs[m_config["model_name"]]

\* Inputs are empty between two requests, and hold one batch of chunks during
\* one, until an exception ends a call.
InputsAreSeparate ==
  ~ disturbed =>
    /\ phase \in {"no_client", "idle"} => \A i \in DOMAIN input_ : input_[i] = <<>>
    /\ phase \in {"evaluate", "start_status", "inferring", "end_status", "results"} =>
         \A i \in HandledInputs : input_[i] = [k \in 1 .. batch_size_ |-> requests]

\* One of the outputs to be handed over cannot be.
SomethingIsMissing ==
  \E o \in HandledOutputs : ~ has_data(o, {})

\* The outputs that are there are those of the last call.
OutputsAreOfThisCall ==
  \A o \in DOMAIN output_ : output_[o].request = requests /\ output_[o].call = calls

\* Outputs left over from an earlier request can never be handed over: there
\* was a reason they were not, and it stays until the next result comes.
OutputsAreSeparate ==
  model.variable = {} /\ HandledOutputs # {} =>
    /\ phase \in {"idle", "threw"} \cup (InProgress \ {"handle"}) => SomethingIsMissing
    /\ phase = "handle" => SomethingIsMissing \/ OutputsAreOfThisCall

\* Until an exception ends a call, the outputs are empty between two requests,
\* and hold results of this one during it.
OutputsOfThisRequest ==
  ~ disturbed =>
    /\ phase \in {"no_client", "idle"} => \A o \in DOMAIN output_ : output_[o] = NoResult
    /\ phase \in InProgress => \A o \in DOMAIN output_ : output_[o].request \in {0, requests}

\* What was handed over last is of one call of one request, not a later one.
HandledTogether ==
  /\ handled.request <= requests /\ handled.request \in Nat
  /\ phase = "no_client" => DOMAIN handled.results = {}
  /\ phase \in InProgress => handled.request < requests
  /\ model.variable = {} =>
       \A o \in DOMAIN handled.results :
         /\ handled.results[o].request = handled.request
         /\ handled.request = requests => handled.results[o].call = calls

Inv == TypeInv /\ InputsAreSeparate /\ OutputsAreSeparate /\ OutputsOfThisRequest /\ HandledTogether

\* Whether an output of fixed dimensions has data depends on nothing but the
\* model and the output.
LEMMA FixedOutput ==
  ASSUME model.variable = {}, NEW o, NEW right
  PROVE  has_data(o, right) <=> has_data(o, {})
BY DEF has_data

LEMMA SeparateInit == Init => Inv
<1> SUFFICES ASSUME Init PROVE Inv
  OBVIOUS
<1>1. phase = "no_client" /\ input_ = <<>> /\ output_ = <<>> /\ requests = 0
      /\ handled = [request |-> 0, results |-> <<>>]
  BY DEF Init, InitClient
<1>2. InputsAreSeparate  BY <1>1 DEF InputsAreSeparate
<1>3. OutputsAreSeparate  BY <1>1 DEF OutputsAreSeparate, InProgress
<1>4. HandledTogether
  <2>1. handled.request = 0 /\ handled.results = <<>>  BY <1>1
  <2>2. DOMAIN handled.results = {}  BY <2>1
  <2> QED  BY <1>1, <2>1, <2>2 DEF HandledTogether, InProgress
<1>5. OutputsOfThisRequest  BY <1>1 DEF OutputsOfThisRequest, InProgress
<1> QED  BY <1>2, <1>3, <1>4, <1>5, TypeInit DEF Inv

LEMMA SeparateConfigure ==
  ASSUME Inv, NEW config \in Configs, configure(config)
  PROVE  InputsAreSeparate' /\ OutputsAreSeparate' /\ OutputsOfThisRequest' /\ HandledTogether'
<1>1. /\ phase = "no_client"
      /\ UNCHANGED <<requests, calls, received, disturbed, handled>>
      /\ phase' \in {"idle", "misconfigured", "exited"}
      /\ phase' = "idle" => /\ \A i \in DOMAIN input_' : input_'[i] = <<>>
                            /\ \A o \in DOMAIN output_' : output_'[o] = NoResult
  BY DEF configure, create_client, misconfigure, cannot_create_client
<1>2. InputsAreSeparate'  BY <1>1 DEF InputsAreSeparate
<1>3. OutputsAreSeparate'
  <2>1. ASSUME phase' = "idle", NEW o \in HandledOutputs' PROVE ~ has_data(o, {})'
    BY <1>1, <2>1 DEF has_data
  <2> QED  BY <1>1, <2>1 DEF OutputsAreSeparate, SomethingIsMissing, InProgress
<1>6. OutputsOfThisRequest'  BY <1>1 DEF OutputsOfThisRequest, InProgress
<1>4. DOMAIN handled.results = {}
  BY <1>1 DEF Inv, HandledTogether
<1>5. HandledTogether'
  BY <1>1, <1>4 DEF Inv, HandledTogether, InProgress
<1> QED  BY <1>2, <1>3, <1>5, <1>6

LEMMA SeparateReceive ==
  ASSUME Inv, receive
  PROVE  InputsAreSeparate' /\ OutputsAreSeparate' /\ OutputsOfThisRequest' /\ HandledTogether'
<1>1. phase = "idle" /\ UNCHANGED <<m_config, disturbed, handled, model, output_>>
  BY DEF receive, collect, request, clientVars, config_
<1>2. /\ requests \in Nat /\ batch_size_' \in Nat
      /\ handled.request \in Nat /\ handled.request <= requests
  <2>1. TypeInv'  BY TypeReceive DEF Inv
  <2>2. batch_size_' \in 0 .. maxBatchSize'  BY <2>1 DEF TypeInv, TypeOK
  <2> QED  BY <2>2 DEF Inv, TypeInv, TriesAndCalls, HandledTogether
<1>3. (SomethingIsMissing' <=> SomethingIsMissing) /\ HandledOutputs' = HandledOutputs
      /\ HandledInputs' = HandledInputs
  BY <1>1 DEF SomethingIsMissing, HandledOutputs, HandledInputs, has_data
<1>4. CASE collect
  BY <1>1, <1>3, <1>4 DEF collect, clientVars, Inv, InputsAreSeparate, OutputsAreSeparate,
     OutputsAreOfThisCall, OutputsOfThisRequest, HandledTogether, InProgress
<1>5. CASE request
  <2>1. requests' = requests + 1 /\ phase' \in {"evaluate", "threw", "exited"}
    BY <1>5 DEF request, prepare_input
  <2>2. HandledTogether'
    <3>1. handled.request < requests'  BY <1>2, <2>1
    <3> QED  BY <1>1, <1>2, <2>1, <3>1 DEF Inv, HandledTogether
  <2>3. OutputsAreSeparate'
    BY <1>1, <1>3, <2>1 DEF Inv, OutputsAreSeparate, InProgress
  <2>6. OutputsOfThisRequest'
    <3>1. NoResult.request = 0  BY DEF NoResult
    <3> QED  BY <1>1, <2>1, <3>1 DEF Inv, OutputsOfThisRequest
  <2>4. ASSUME ~ disturbed, phase' = "evaluate", NEW i \in HandledInputs
        PROVE  input_'[i] = [k \in 1 .. batch_size_' |-> requests']
    <3>1. prepare_input(HandledInputs)
      BY <1>5, <2>4 DEF request, HandledInputs
    <3>2. i \in DOMAIN input_ /\ input_'[i] = to_server(i, batch_size_')
      BY <2>4, <3>1 DEF prepare_input
    <3>3. input_[i] = <<>>
      BY <1>1, <2>4, <3>2 DEF Inv, InputsAreSeparate
    <3>4. PICK b \in Nat : b = batch_size_'  BY <1>2
    <3>5. PICK r \in Nat : r = requests + 1  BY <1>2
    <3>6. <<>> \o [k \in 1 .. b |-> r] = [k \in 1 .. b |-> r]
      <4>1. [k \in 1 .. b |-> r] \in Seq(Nat)  OBVIOUS
      <4> QED  BY <4>1
    <3> QED  BY <2>1, <3>2, <3>3, <3>4, <3>5, <3>6 DEF to_server
  <2>5. InputsAreSeparate'
    BY <1>1, <1>3, <2>1, <2>4 DEF InputsAreSeparate
  <2> QED  BY <2>2, <2>3, <2>5, <2>6
<1> QED  BY <1>4, <1>5 DEF receive

\* Steps of dispatch() that leave the outputs alone: up to the results of a
\* call, and after a failed one.
LEMMA SeparateCalls ==
  ASSUME Inv, phase \in InProgress \ {"handle"},
         UNCHANGED <<config_, batch_size_, input_, output_, requests>>, UNCHANGED makerVars,
         phase' \in InProgress
  PROVE  InputsAreSeparate' /\ OutputsAreSeparate' /\ OutputsOfThisRequest' /\ HandledTogether'
<1>1. UNCHANGED <<model, batch_size_, input_, output_, requests, m_config, disturbed, handled>>
  BY DEF config_, makerVars
<1>2. (SomethingIsMissing' <=> SomethingIsMissing) /\ HandledOutputs' = HandledOutputs
      /\ HandledInputs' = HandledInputs
  BY <1>1 DEF SomethingIsMissing, HandledOutputs, HandledInputs, has_data
<1>3. InputsAreSeparate'  BY <1>1, <1>2 DEF Inv, InputsAreSeparate, InProgress
<1>4. OutputsAreSeparate'
  <2>1. model.variable = {} /\ HandledOutputs # {} => SomethingIsMissing
    BY DEF Inv, OutputsAreSeparate
  <2> QED  BY <1>1, <1>2, <2>1 DEF OutputsAreSeparate
<1>5. OutputsOfThisRequest'
  BY <1>1 DEF Inv, OutputsOfThisRequest, InProgress
<1>6. handled.request < requests /\ handled.request \in Nat /\ requests \in Nat
  BY <1>1 DEF Inv, HandledTogether, InProgress, TypeInv, TriesAndCalls
<1>7. HandledTogether'
  BY <1>1, <1>6 DEF Inv, HandledTogether, InProgress
<1> QED  BY <1>3, <1>4, <1>5, <1>7

LEMMA SeparateReturns ==
  ASSUME Inv, status_returns \/ infer_returns
  PROVE  InputsAreSeparate' /\ OutputsAreSeparate' /\ OutputsOfThisRequest' /\ HandledTogether'
<1>1. /\ phase \in InProgress \ {"handle"} /\ phase' \in InProgress
      /\ UNCHANGED <<config_, batch_size_, input_, output_, requests>> /\ UNCHANGED makerVars
  BY DEF status_returns, infer_returns, start_status, end_status, infer_succeeds, infer_fails,
         finish, InProgress
<1> QED  BY <1>1, SeparateCalls

LEMMA SeparateProceed ==
  ASSUME Inv, proceed
  PROVE  InputsAreSeparate' /\ OutputsAreSeparate' /\ OutputsOfThisRequest' /\ HandledTogether'
<1>1. CASE evaluate
  <2>1. /\ phase \in InProgress \ {"handle"} /\ phase' \in InProgress
        /\ UNCHANGED <<config_, batch_size_, input_, output_, requests>> /\ UNCHANGED makerVars
    BY <1>1 DEF proceed, evaluate, finish, InProgress
  <2> QED  BY <2>1, SeparateCalls
<1>2. CASE getResults \/ shape_is_wrong
  <2>1. /\ phase = "results" /\ phase' \in {"evaluate", "handle", "threw"}
        /\ UNCHANGED <<model, batch_size_, input_, requests, calls, m_config, disturbed, handled>>
    BY <1>2 DEF proceed, getResults, shape_is_wrong, finish, makerVars, config_
  <2>2. HandledOutputs' = HandledOutputs /\ HandledInputs' = HandledInputs
    BY <2>1 DEF HandledOutputs, HandledInputs
  <2>3. InputsAreSeparate'  BY <2>1, <2>2 DEF Inv, InputsAreSeparate
  <2>4. OutputsAreSeparate'
    <3>1. CASE getResults
      <4>1. OutputsAreOfThisCall'
        BY <2>1, <3>1 DEF getResults, with_result, OutputsAreOfThisCall
      <4>2. phase' = "handle"  BY <3>1 DEF getResults, finish
      <4> QED  BY <4>1, <4>2 DEF OutputsAreSeparate, InProgress
    <3>2. CASE shape_is_wrong
      <4>1. model.variable # {}  BY <3>2 DEF shape_is_wrong, VariableOutputs
      <4> QED  BY <2>1, <4>1 DEF OutputsAreSeparate
    <3> QED  BY <1>2, <3>1, <3>2
  <2>5. OutputsOfThisRequest'
    <3>1. \E outs, wrong : output_' = with_result(outs, wrong)
      BY <1>2 DEF getResults, shape_is_wrong
    <3>2. \A o \in DOMAIN output_' : /\ o \in DOMAIN output_
                                     /\ output_'[o] = output_[o] \/ output_'[o].request = requests
      BY <3>1 DEF with_result
    <3> QED  BY <2>1, <3>2 DEF Inv, OutputsOfThisRequest, InProgress
  <2>6. handled.request < requests /\ handled.request \in Nat /\ requests \in Nat
    BY <2>1 DEF Inv, HandledTogether, InProgress, TypeInv, TriesAndCalls
  <2>7. HandledTogether'
    BY <2>1, <2>6 DEF Inv, HandledTogether
  <2> QED  BY <2>3, <2>4, <2>5, <2>7
<1> QED  BY <1>1, <1>2 DEF proceed

LEMMA SeparateHandle ==
  ASSUME Inv, handle_output
  PROVE  InputsAreSeparate' /\ OutputsAreSeparate' /\ OutputsOfThisRequest' /\ HandledTogether'
<1>1. /\ phase = "handle"
      /\ UNCHANGED <<model, batch_size_, requests, calls, m_config, disturbed>>
  BY DEF handle_output, config_
<1>2. HandledOutputs' = HandledOutputs /\ HandledInputs' = HandledInputs
  BY <1>1 DEF HandledOutputs, HandledInputs
<1>3. PICK right \in SUBSET VariableOutputs :
        IF \A o \in HandledOutputs : has_data(o, right)
        THEN /\ handled' = [request |-> requests, results |-> [o \in HandledOutputs |-> output_[o]]]
             /\ reset /\ phase' = "idle"
        ELSE phase' \in {"threw", "exited"} /\ UNCHANGED <<handled, output_>>
  BY DEF handle_output, HandledOutputs
<1>4. handled.request < requests /\ handled.request \in Nat /\ requests \in Nat
  BY <1>1 DEF Inv, HandledTogether, InProgress, TypeInv, TriesAndCalls
<1>5. CASE \A o \in HandledOutputs : has_data(o, right)
  <2>1. /\ handled' = [request |-> requests, results |-> [o \in HandledOutputs |-> output_[o]]]
        /\ reset /\ phase' = "idle"
    BY <1>3, <1>5
  <2>2. InputsAreSeparate'  BY <2>1 DEF reset, InputsAreSeparate
  <2>3. OutputsAreSeparate'
    <3>1. \A o \in HandledOutputs' : ~ has_data(o, {})'
      BY <2>1 DEF reset, has_data
    <3> QED  BY <2>1, <3>1 DEF OutputsAreSeparate, SomethingIsMissing, InProgress
  <2>6. OutputsOfThisRequest'  BY <2>1 DEF reset, OutputsOfThisRequest, InProgress
  <2>4. ASSUME model.variable = {}, NEW o \in HandledOutputs
        PROVE  output_[o].request = requests /\ output_[o].call = calls
    <3>1. ~ SomethingIsMissing
      BY <1>5, <2>4, FixedOutput DEF SomethingIsMissing
    <3>2. OutputsAreOfThisCall
      BY <1>1, <2>4, <3>1 DEF Inv, OutputsAreSeparate
    <3>3. o \in DOMAIN output_  BY <1>5 DEF has_data
    <3> QED  BY <3>2, <3>3 DEF OutputsAreOfThisCall
  <2>5. HandledTogether'
    <3>1. /\ handled'.request = requests
          /\ handled'.results = [o \in HandledOutputs |-> output_[o]]
      BY <2>1
    <3> QED  BY <1>1, <1>4, <2>1, <2>4, <3>1 DEF HandledTogether, InProgress
  <2> QED  BY <2>2, <2>3, <2>5, <2>6
<1>6. CASE ~ \A o \in HandledOutputs : has_data(o, right)
  <2>1. phase' \in {"threw", "exited"} /\ UNCHANGED <<handled, output_>>
    BY <1>3, <1>6
  <2>2. InputsAreSeparate'  BY <2>1 DEF InputsAreSeparate
  <2>3. OutputsAreSeparate'
    <3>1. model.variable = {} => SomethingIsMissing
      BY <1>6, FixedOutput DEF SomethingIsMissing
    <3>2. SomethingIsMissing' <=> SomethingIsMissing
      BY <1>1, <1>2, <2>1 DEF SomethingIsMissing, has_data
    <3> QED  BY <1>1, <2>1, <3>1, <3>2 DEF OutputsAreSeparate, InProgress
  <2>5. OutputsOfThisRequest'  BY <2>1 DEF OutputsOfThisRequest, InProgress
  <2>4. HandledTogether'
    BY <1>1, <2>1 DEF Inv, HandledTogether, InProgress
  <2> QED  BY <2>2, <2>3, <2>4, <2>5
<1> QED  BY <1>5, <1>6

LEMMA SeparateCatch ==
  ASSUME Inv, catch
  PROVE  InputsAreSeparate' /\ OutputsAreSeparate' /\ OutputsOfThisRequest' /\ HandledTogether'
<1>1. /\ phase = "threw" /\ phase' = "idle" /\ disturbed'
      /\ UNCHANGED <<model, batch_size_, output_, requests, calls, m_config, handled>>
  BY DEF catch, config_
<1>2. InputsAreSeparate'  BY <1>1 DEF InputsAreSeparate
<1>3. OutputsAreSeparate'
  BY <1>1 DEF Inv, OutputsAreSeparate, SomethingIsMissing, HandledOutputs, has_data, InProgress
<1>4. HandledTogether'
  BY <1>1 DEF Inv, HandledTogether, InProgress
<1>5. OutputsOfThisRequest'  BY <1>1 DEF OutputsOfThisRequest
<1> QED  BY <1>2, <1>3, <1>4, <1>5

LEMMA SeparateStep == Inv /\ [Next]_vars => Inv'
<1> SUFFICES ASSUME Inv, [Next]_vars PROVE Inv'
  OBVIOUS
<1>1. TypeInv'  BY TypeStep DEF Inv
<1>2. CASE UNCHANGED vars
  BY <1>1, <1>2 DEF vars, clientVars, config_, Inv, InputsAreSeparate, OutputsAreSeparate,
     OutputsOfThisRequest, InProgress,
     HandledTogether, SomethingIsMissing, OutputsAreOfThisCall, HandledInputs, HandledOutputs,
     has_data
<1>3. CASE Next
  <2>1. InputsAreSeparate' /\ OutputsAreSeparate' /\ OutputsOfThisRequest' /\ HandledTogether'
    BY <1>3, SeparateConfigure, SeparateReceive, SeparateProceed, SeparateReturns,
       SeparateHandle, SeparateCatch DEF Next
  <2> QED  BY <1>1, <2>1 DEF Inv
<1> QED  BY <1>2, <1>3

-----------------------------------------------------------------------------
(* The theorems *)

\* Every member stays within its type, and no request is sent to the server
\* more than allowed_tries times, or once if that is less.
THEOREM TritonTypeCorrectness == Spec => []TypeOK
<1>1. TypeInv => TypeOK  BY DEF TypeInv
<1> QED  BY <1>1, TypeInit, TypeStep, PTL DEF Spec

\* Until an exception ends a call, inputs and outputs are those of one request,
\* whatever the server answers and however often a request is tried; what a model
\* without outputs of variable dimensions gives is handed over from one call even
\* after an exception.
THEOREM RequestsStayApart == Spec => []RequestsKeepApart
<1>1. Inv => RequestsKeepApart
  <2>1. NoResult.request = 0  BY DEF NoResult
  <2> QED
    BY <2>1 DEF Inv, InputsAreSeparate, OutputsOfThisRequest, HandledTogether,
       RequestsKeepApart, HandledInputs
<1> QED  BY <1>1, SeparateInit, SeparateStep, PTL DEF Spec
=============================================================================
