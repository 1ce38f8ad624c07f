------------------------------ MODULE MCTriton ------------------------------
EXTENDS TriggerActivityMakerTriton

Simple == [max_batch_size |-> 2, inputs |-> {"INPUT0", "INPUT1"},
           outputs |-> {"OUTPUT0", "OUTPUT1"}, variable |-> {}, sized |-> TRUE]

MCModels ==
  { Simple,
    [Simple EXCEPT !.max_batch_size = 0],
    [Simple EXCEPT !.variable = {"OUTPUT1"}],
    [Simple EXCEPT !.inputs = {"INPUT0"}],
    [Simple EXCEPT !.outputs = {"OUTPUT0"}],
    [Simple EXCEPT !.outputs = @ \cup {"OUTPUT2"}, !.variable = {"OUTPUT2"}],
    [Simple EXCEPT !.inputs = {}],
    [Simple EXCEPT !.sized = FALSE] }

MCDefaults ==
  [model_name |-> "simple", outputs |-> {}, number_tps_per_request |-> 2, batch_size |-> 1,
   allowed_tries |-> 0, verbose |-> FALSE, client_timeout_microseconds |-> 0]

MCConfigs ==
  { <<>>,
    [allowed_tries |-> 2],
    [allowed_tries |-> 2, client_timeout_microseconds |-> 1000],
    [allowed_tries |-> 2, client_timeout_microseconds |-> 1000, verbose |-> TRUE],
    [allowed_tries |-> 3, batch_size |-> 2, number_tps_per_request |-> 3],
    [batch_size |-> 0],
    [outputs |-> {"OUTPUT0"}],
    [model_name |-> "another_model", allowed_tries |-> 2],
    [model_name |-> "unheard_of"] }
=============================================================================
