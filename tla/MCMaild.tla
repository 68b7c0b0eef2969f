------------------------------ MODULE MCMaild -------------------------------
(* An instance of Maild: a recipient with full format, one of do_not_group, one *)
(* of sms and one of do_not_delay, and two orders of the alerts.              *)
EXTENDS Maild

MCFormats == <<"full", "alone", "sms", "now">>

Quiet == [mail |-> FALSE, to |-> {}]
Plain == [mail |-> TRUE, to |-> {1, 3}]
Alone == [mail |-> TRUE, to |-> {1, 2}]
Soon  == [mail |-> TRUE, to |-> {4}]

MCKinds == {Quiet, Plain, Alone, Soon}

MCScripts == {<<Plain, Plain, Alone>>, <<Alone, Quiet, Soon>>}
=============================================================================
