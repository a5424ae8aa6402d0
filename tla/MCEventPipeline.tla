--------------------------- MODULE MCEventPipeline ---------------------------
(* Instances of EventPipeline for TLC: both consumers, one employee without  *)
(* a row at the start and one with it.                                       *)
EXTENDS EventPipeline

CONSTANTS e1, e2, e3, emp1, emp2, kafka, recovery1, noFields

ASSUME TheyDiffer == TwoWriters

MCEmployeeOf == [e \in Events |-> IF e \in {e1, e2} THEN emp1 ELSE emp2]
MCStateOf == [e \in Events |-> IF e = e2 THEN "OUT" ELSE "IN"]
MCTimeOf == [e \in Events |-> CASE e = e1 -> 1 [] e = e2 -> 2 [] e = e3 -> 3]
=============================================================================
