---------------------------- MODULE TritonClient ----------------------------
(***************************************************************************)
(* class TritonClient and the TritonData of its inputs and outputs: what   *)
(* the client keeps from one inference request to the next, and how it     *)
(* retries one.  The server answers a call, fails it, or never answers.    *)
(*                                                                         *)
(* A chunk of input data is the number of the request it was prepared for; *)
(* a result knows the request that was being served, the call, and which   *)
(* outputs have data of the wrong size.  The server's statistics are left  *)
(* out, not the calls that ask for them.                                   *)
(***************************************************************************)
EXTENDS Integers, Sequences, FiniteSets

CONSTANT
  Models   \* what the server may say of a model: its max_batch_size, the
           \* names of its inputs and outputs, which of them are of variable
           \* dimensions, and whether their elements have the size the
           \* handlers use

NoModel == [max_batch_size |-> 0, inputs |-> {}, outputs |-> {}, variable |-> {}, sized |-> FALSE]

Names == UNION { m.inputs \cup m.outputs : m \in Models }

ASSUME TritonClientAssumption ==
  \A m \in Models :
    /\ m.max_batch_size \in Nat
    /\ m.variable \subseteq m.outputs
    /\ m.sized \in BOOLEAN

VARIABLES
  phase,        \* where the maker's thread is: "exited" after exit(1), "threw"
                \* when an exception is leaving operator()
  model,        \* the metadata of the model the client was created for
  allowed_tries_,
  verbose_,
  client_timeout_,   \* of Infer(), in microseconds; 0: none
  tries_,       \* not initialised; start() sets it
  batch_size_,
  input_,       \* for each input, the chunks appended to it
  output_,      \* for each output, the result it points to
  requests,     \* how many requests there have been (history)
  calls         \* how often the server was called for this one (history;
                \* bound: counted to two past allowed_tries_)

config_ == <<model, allowed_tries_, verbose_, client_timeout_>>

clientVars == <<phase, config_, tries_, batch_size_, input_, output_, requests, calls>>

NoResult == [request |-> 0, call |-> 0, wrong |-> {}]

InitClient ==
  /\ phase = "no_client"
  /\ model = NoModel
  /\ allowed_tries_ = 0
  /\ verbose_ = FALSE
  /\ client_timeout_ = 0
  /\ tries_ = 0
  /\ batch_size_ = 0
  /\ input_ = <<>>
  /\ output_ = <<>>
  /\ requests = 0
  /\ calls = 0

\* The constructor, of a model the server describes as m.  If the configuration
\* selects no outputs, all are taken.
create_client(m, config) ==
  /\ model' = m
  /\ allowed_tries_' = config["allowed_tries"]
  /\ verbose_' = config["verbose"]
  /\ client_timeout_' = config["client_timeout_microseconds"]
  /\ IF m.inputs = {} \/ m.outputs = {}
     THEN phase' = "misconfigured" /\ UNCHANGED <<input_, output_, batch_size_>>
     ELSE /\ phase' = "idle"
          /\ input_' = [i \in m.inputs |-> <<>>]
          /\ output_' = [o \in { n \in m.outputs : config["outputs"] = {} \/ n \in config["outputs"] }
                         |-> NoResult]
          /\ batch_size_' = 1
  /\ UNCHANGED <<tries_, requests, calls>>

\* A client_config that the constructor cannot read.
misconfigure ==
  /\ phase' = "misconfigured"
  /\ UNCHANGED <<config_, tries_, batch_size_, input_, output_, requests, calls>>

\* The server cannot be reached: fail_if_error().
cannot_create_client ==
  /\ phase' = "exited"
  /\ UNCHANGED <<config_, tries_, batch_size_, input_, output_, requests, calls>>

\* A model with max_batch_size 0 takes batches of 1.
maxBatchSize == IF model.max_batch_size = 0 THEN 1 ELSE model.max_batch_size

\* set_batch_size(): a size the model does not take changes nothing.
batch_size_set_to(size) == IF size > maxBatchSize THEN batch_size_ ELSE size

\* TritonInputData::to_server(), of a batch of chunks for this request.
to_server(i, batch) == input_[i] \o [k \in 1 .. batch |-> requests + 1]

\* start()
start_tries == tries_' = 0

\* A plausible slip: only what was sent is forgotten.
reset_inputs == /\ input_' = [i \in DOMAIN input_ |-> <<>>]
                /\ UNCHANGED output_

reset == /\ input_' = [i \in DOMAIN input_ |-> <<>>]
         /\ output_' = [o \in DOMAIN output_ |-> NoResult]

-----------------------------------------------------------------------------
(* dispatch() *)

\* A plausible slip: one try more.
tries_left_or_last(tries) == tries <= allowed_tries_

tries_left(tries) == tries < allowed_tries_

\* A plausible slip: a failed call is not counted.
finish_uncounted(success) ==
  /\ tries_' = tries_
  /\ phase' = IF ~ success /\ tries_left(tries_') THEN "evaluate" ELSE "handle"

\* A failed call is tried again; when the tries are used up the caller goes on
\* as after a success.
finish(success) ==
  /\ tries_' = IF success THEN tries_ ELSE tries_ + 1
  /\ phase' = IF ~ success /\ tries_left(tries_') THEN "evaluate" ELSE "handle"

\* evaluate(), up to the first call
evaluate ==
  /\ phase = "evaluate"
  /\ IF batch_size_ = 0
     THEN finish(TRUE)
     ELSE phase' = "start_status" /\ UNCHANGED tries_
  /\ UNCHANGED <<config_, batch_size_, input_, output_, requests, calls>>

\* getServerSideStatus() returns, the first time: Infer() is called.  Whether the
\* server knew the statistics makes no difference.
start_status ==
  /\ phase = "start_status"
  /\ phase' = "inferring"
  /\ calls' = IF calls < allowed_tries_ + 2 THEN calls + 1 ELSE calls
  /\ UNCHANGED <<config_, tries_, batch_size_, input_, output_, requests>>

\* Infer() returns an error.
infer_fails ==
  /\ phase = "inferring"
  /\ finish(FALSE)
  /\ UNCHANGED <<config_, batch_size_, input_, output_, requests, calls>>

\* Infer() returns a result.
infer_succeeds ==
  /\ phase = "inferring"
  /\ phase' = "end_status"
  /\ UNCHANGED <<config_, tries_, batch_size_, input_, output_, requests, calls>>

\* getServerSideStatus() returns, the second time.
end_status ==
  /\ phase = "end_status"
  /\ phase' = "results"
  /\ UNCHANGED <<config_, tries_, batch_size_, input_, output_, requests, calls>>

\* Outputs that are given the result of this call; the rest keep theirs.
with_result(outs, wrong) ==
  [o \in DOMAIN output_ |->
     IF o \in outs THEN [request |-> requests, call |-> calls, wrong |-> wrong] ELSE output_[o]]

VariableOutputs == DOMAIN output_ \cap model.variable

\* getResults() hands the result to all the outputs.
getResults ==
  /\ phase = "results"
  /\ \E wrong \in SUBSET DOMAIN output_ : output_' = with_result(DOMAIN output_, wrong)
  /\ finish(TRUE)
  /\ UNCHANGED <<config_, batch_size_, input_, requests, calls>>

\* The shape of an output of variable dimensions is not in the result, or is one
\* that output cannot have (an exception): the outputs that come before it (in no
\* order) have the result already.
shape_is_wrong ==
  /\ phase = "results"
  /\ \E o \in VariableOutputs : \E before \in SUBSET (DOMAIN output_ \ {o}) :
       output_' = with_result(before, {})
  /\ \/ finish(FALSE)
     \/ phase' = "threw" /\ UNCHANGED tries_
  /\ UNCHANGED <<config_, batch_size_, input_, requests, calls>>

\* TritonOutputData::from_server() gives data, of the expected size.  What is
\* expected of an output of variable dimensions is what the last shape said.
has_data(o, right) ==
  /\ o \in DOMAIN output_
  /\ output_[o] # NoResult
  /\ model.sized
  /\ IF o \in model.variable THEN o \in right ELSE o \notin output_[o].wrong

=============================================================================
