------------------------------ MODULE MCMongoPoll ------------------------------
(* Instances of MongoPoll: two documents share a collection, a third has its  *)
(* own, so that batches, ties and lost updates of the file all happen.        *)
EXTENDS MongoPoll

CONSTANTS d1, d2, d3, orders, prices

TwoCollections == <<orders, prices>>
ThreeDocs == {d1, d2, d3}
Homes == [d \in ThreeDocs |-> IF d = d3 THEN prices ELSE orders]
===============================================================================
