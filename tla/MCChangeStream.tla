----------------------------- MODULE MCChangeStream ----------------------------
(* Instances of ChangeStream; config/mongo.yaml's backoff is 1, x2, 30 s.     *)
EXTENDS ChangeStream

One == <<"orders">>
Two == <<"orders", "prices">>
===============================================================================
