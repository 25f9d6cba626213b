---------------------------- MODULE MCRealtimeFlow ----------------------------
(* Instances of RealtimeFlow: one directory per file, so that a later glob   *)
(* can see what an earlier one missed.  The first file is a product, the     *)
(* second an order older than the order of the document, so that it falls    *)
(* behind the watermark once the document is loaded.                         *)
EXTENDS RealtimeFlow

CONSTANTS f1, f2, d1

TwoDirs == <<{f1}, {f2}>>
DimensionThenFacts == [i \in {f1, f2, d1} |-> IF i = f1 THEN 1 ELSE 2]
WrittenOnce == [f \in {f1, f2} |-> 2]
WrittenTwice == [f \in {f1, f2} |-> 4]
OrderRewritten == [f \in {f1, f2} |-> IF f = f1 THEN 2 ELSE 4]
DocumentIsLatest == [i \in {f1, f2, d1} |-> IF i = d1 THEN 2 ELSE IF i = f2 THEN 1 ELSE 0]
===============================================================================
