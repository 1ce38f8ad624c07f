--------------------- MODULE TriggerActivityMakerTriton ---------------------
(***************************************************************************)
(* class TriggerActivityMakerTriton: it collects TPs and, when it has      *)
(* enough, makes an inference request through its TritonClient, with the   *)
(* input and output handlers registered for the model.  It gives out no    *)
(* TAs.  After an exception the caller may go on with the next TP.         *)
(***************************************************************************)
EXTENDS TritonClient, Functions

CONSTANTS
  Defaults,   \* of what configure() and the client read from a configuration
  Configs,    \* the JSON objects configure() may be given
  MaxTPs      \* bound: how many TPs the caller feeds to the maker

\* get_model_io_handlers(): what the handlers of each model read and write.
HandlerInputs == [simple |-> {"INPUT0", "INPUT1"}, another_model |-> {}]
HandlerOutputs == [simple |-> {"OUTPUT0", "OUTPUT1"}, another_model |-> {}]

ValidConfig(config) ==
  /\ DOMAIN config \subseteq DOMAIN Defaults
  /\ \A k \in DOMAIN config \cap {"number_tps_per_request", "batch_size", "allowed_tries",
                                  "client_timeout_microseconds"} :
       config[k] \in Nat
  /\ "verbose" \in DOMAIN config => config["verbose"] \in BOOLEAN

ASSUME TritonMakerAssumption ==
  /\ DOMAIN Defaults =
       {"model_name", "outputs", "number_tps_per_request", "batch_size", "allowed_tries",
        "verbose", "client_timeout_microseconds"}
  /\ \A config \in Configs \cup {Defaults} : ValidConfig(config)
  /\ MaxTPs \in Nat

VARIABLES
  m_config,
  m_current_ta,   \* the arrival numbers of the TPs collected
  received,       \* how many TPs have arrived
  disturbed,      \* an exception has ended a call (history)
  handled         \* the outputs of the last request they were handed over of (history)

vars == <<clientVars, m_config, m_current_ta, received, disturbed, handled>>

Init ==
  /\ InitClient
  /\ m_config = Defaults
  /\ m_current_ta = <<>>
  /\ received = 0
  /\ disturbed = FALSE
  /\ handled = [request |-> 0, results |-> <<>>]

\* The maker takes "outputs" for a string and the client takes it for a list of
\* them: given one or the other, one of the two throws.
configure(config) ==
  /\ phase = "no_client"
  /\ m_config' = [k \in DOMAIN Defaults |-> IF k \in DOMAIN config THEN config[k] ELSE m_config[k]]
  /\ \/ /\ "outputs" \notin DOMAIN config
        /\ \E m \in Models : create_client(m, m_config')
     \/ /\ "outputs" \in DOMAIN config
        /\ misconfigure
     \/ cannot_create_client
  /\ UNCHANGED <<m_current_ta, received, disturbed, handled>>

\* simple_input_preparer(): a chunk per batch entry to each input, one input
\* after the other.  An element size that does not fit stops it at the first.
prepare_input(inputs) ==
  IF inputs \subseteq DOMAIN input_ /\ model.sized
  THEN /\ input_' = [i \in DOMAIN input_ |->
                       IF i \in inputs THEN to_server(i, batch_size_') ELSE input_[i]]
       /\ phase' = "evaluate"
  ELSE phase' = "threw" /\ UNCHANGED input_

\* A TP that leaves too few is taken in a second time.
collect ==
  /\ m_current_ta' = m_current_ta \o << received + 1, received + 1 >>
  /\ UNCHANGED clientVars

\* Enough: set the batch size, prepare the input, dispatch().
request ==
  /\ m_current_ta' = Append(m_current_ta, received + 1)
  /\ batch_size_' = batch_size_set_to(m_config["batch_size"])
  /\ requests' = requests + 1
  /\ calls' = 0
  /\ IF m_config["model_name"] \in DOMAIN HandlerInputs
     THEN prepare_input(HandlerInputs[m_config["model_name"]])
     ELSE phase' = "exited" /\ UNCHANGED input_
  /\ IF phase' = "evaluate" THEN start_tries ELSE UNCHANGED tries_
  /\ UNCHANGED <<config_, output_>>

receive ==
  /\ phase = "idle" /\ received < MaxTPs
  /\ received' = received + 1
  /\ IF Len(m_current_ta) + 1 < m_config["number_tps_per_request"] THEN collect ELSE request
  /\ UNCHANGED <<m_config, disturbed, handled>>

makerVars == <<m_config, m_current_ta, received, disturbed, handled>>

\* The client goes on by itself, or because a call returns.
proceed == (evaluate \/ getResults \/ shape_is_wrong) /\ UNCHANGED makerVars
status_returns == (start_status \/ end_status) /\ UNCHANGED makerVars
infer_returns == (infer_succeeds \/ infer_fails) /\ UNCHANGED makerVars

\* handle_output(), and the end of operator().  An output that is not there, has
\* no result or one of the wrong size is an exception; a result the output
\* cannot be read from, exit(1).
handle_output ==
  LET outputs == HandlerOutputs[m_config["model_name"]]
  IN  /\ phase = "handle"
      /\ \E right \in SUBSET VariableOutputs :
           IF \A o \in outputs : has_data(o, right)
           THEN /\ handled' = [request |-> requests, results |-> [o \in outputs |-> output_[o]]]
                /\ reset
                /\ m_current_ta' = <<>>
                /\ phase' = "idle"
           ELSE /\ \/ phase' = "threw"
                   \/ /\ phase' = "exited"
                      /\ \E o \in outputs \cap DOMAIN output_ :
                           output_[o] # NoResult /\ ~ has_data(o, right)
                /\ UNCHANGED <<handled, input_, output_, m_current_ta>>
      /\ UNCHANGED <<config_, tries_, batch_size_, requests, calls,
                     m_config, received, disturbed>>

\* The exception leaves operator(); the caller takes it as the end of the call.
catch ==
  /\ phase = "threw"
  /\ phase' = "idle"
  /\ disturbed' = TRUE
  /\ UNCHANGED <<config_, tries_, batch_size_, input_, output_, requests, calls,
                 m_config, m_current_ta, received, handled>>

Next ==
  \/ \E config \in Configs : configure(config)
  \/ receive
  \/ proceed
  \/ status_returns
  \/ infer_returns
  \/ handle_output
  \/ catch

\* The maker's thread runs on; a call of the server is sure to return only where
\* the client sees to it: Infer() when it has a timeout, and getServerSideStatus()
\* when it calls nothing.
Fairness ==
  /\ WF_vars(proceed)
  /\ WF_vars(status_returns /\ ~ verbose_)
  /\ WF_vars(infer_returns /\ client_timeout_ > 0)
  /\ WF_vars(handle_output)
  /\ WF_vars(catch)

Spec == Init /\ [][Next]_vars /\ Fairness

-----------------------------------------------------------------------------
(* Properties *)

Results == [request : 1 .. requests, call : Nat \ {0}, wrong : SUBSET Names] \cup {NoResult}

InProgress == {"evaluate", "start_status", "inferring", "end_status", "results", "handle"}

\* Every member stays within its type; a request is sent to the server no more
\* than allowed_tries times, or once if that is less.
TypeOK ==
  /\ phase \in {"no_client", "misconfigured", "idle", "threw", "exited"} \cup InProgress
  /\ model \in Models \cup {NoModel}
  /\ verbose_ \in BOOLEAN /\ client_timeout_ \in Nat
  /\ batch_size_ \in 0 .. maxBatchSize
  /\ DOMAIN input_ \in SUBSET Names
  /\ \A i \in DOMAIN input_ : input_[i] \in Seq(1 .. requests)
  /\ DOMAIN output_ \in SUBSET Names
  /\ \A o \in DOMAIN output_ : output_[o] \in Results
  /\ m_current_ta \in Seq(1 .. received)
  /\ calls <= tries_ + 1
  /\ calls \in 0 .. (IF allowed_tries_ = 0 THEN 1 ELSE allowed_tries_)

\* Requests do not get mixed up.  As long as no call has ended in an exception,
\* every input holds just the batch prepared for this request when Infer() is
\* called, and no output ever holds a result of another request, also when
\* getResults() stopped between two outputs.  After an exception results may stay
\* in the client; yet the outputs handed over are then, all of them, from the last
\* call of this very request, unless the model has outputs of variable dimensions.
RequestsKeepApart ==
  /\ phase \in InProgress /\ ~ disturbed =>
       /\ phase = "inferring" =>
            \A i \in HandlerInputs[m_config["model_name"]] :
              input_[i] = [k \in 1 .. batch_size_ |-> requests]
       /\ \A o \in DOMAIN output_ : output_[o].request \in {NoResult.request, requests}
  /\ model.variable = {} =>
       \A o \in DOMAIN handled.results :
         /\ handled.results[o].request = handled.request
         /\ handled.request = requests => handled.results[o].call = calls

\* Where the thread may have to wait for the server for ever: in Infer() without
\* a timeout, which is the default, and in the calls for the statistics.
Waiting ==
  \/ phase = "inferring" /\ client_timeout_ = 0
  \/ phase \in {"start_status", "end_status"} /\ verbose_

\* A call of operator() that has begun a request returns, throws or exits, or in
\* the end waits for one answer of the server that does not come: no answers of
\* the server make it try for ever.
DispatchEnds ==
  (phase \in InProgress) ~> (phase \in {"idle", "threw", "exited"} \/ []Waiting)

\* The maker waits for the configured number of TPs before it makes a request.
WaitsForTheTPs ==
  phase \in InProgress =>
    Cardinality(Range(m_current_ta)) >= m_config["number_tps_per_request"]

=============================================================================
