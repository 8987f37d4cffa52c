-------------------------- MODULE MCTriggerHandler --------------------------
(***************************************************************************)
(* An instance of TriggerHandler with two blocks: one with two matches, a  *)
(* filter script and two triggers, one with a single match, triggers that  *)
(* share a client with the first, and a script or a server that never      *)
(* answers in either.                                                      *)
(***************************************************************************)
EXTENDS TriggerHandler

Notifier(type, key, retries, secret, script0, fits) ==
    [type |-> type, key |-> key, max_retries |-> retries, secret |-> secret,
     script |-> script0, fits |-> fits]

Triggers ==
    [hook     |-> Notifier("webhook", "policy", 1, "none", "none", TRUE),
     signed   |-> Notifier("webhook", "policy", 0, "set", "none", TRUE),
     unsigned |-> Notifier("webhook", "policy", 1, "empty", "none", TRUE),
     silent   |-> Notifier("webhook", "policy", 0, "none", "none", TRUE),
     mail     |-> Notifier("email", "host", 2, "none", "none", TRUE),
     notify   |-> Notifier("script", "none", 0, "none", "quick", TRUE),
     stuck    |-> Notifier("script", "none", 0, "none", "deaf", TRUE),
     misfit   |-> Notifier("script", "none", 0, "none", "none", FALSE)]

On(conditions, triggers) == [conditions |-> conditions, triggers |-> triggers]

BlockPlans ==
    {<< <<On(<<"quick">>, <<"hook">>), On(<<>>, <<"misfit", "mail">>)>>,  <<>> >>,
     << <<On(<<>>, <<"hook", "signed">>)>>,                               <<On(<<>>, <<"hook">>)>> >>,
     << <<On(<<>>, <<"hook", "notify">>)>>,                               <<On(<<>>, <<"silent">>)>> >>,
     << <<On(<<"quick", "deaf">>, <<"notify">>), On(<<>>, <<>>)>>,        <<On(<<>>, <<"hook">>)>> >>,
     << <<On(<<>>, <<"unsigned">>), On(<<"quick">>, <<"signed">>)>>,      <<On(<<"quick">>, <<"stuck">>)>> >>}

Obligations ==
    {<<1, i, k>> : i \in 1..2, k \in 1..2} \union {<<2, 1, 1>>}

PolicyStorages == [policy |-> "http", host |-> "smtp"]
=============================================================================
