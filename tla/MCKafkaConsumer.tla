--------------------------- MODULE MCKafkaConsumer ---------------------------
(* Instances of KafkaConsumer for TLC: two employees, one of them without a  *)
(* row at the start.                                                         *)
EXTENDS KafkaConsumer

CONSTANTS e1, e2, e3, e4, e5, emp1, emp2, kafka

MCEmployeeOf == [e \in Events |-> IF e \in {e1, e2} THEN emp1 ELSE emp2]
MCStateOf == [e \in Events |-> IF e = e2 THEN "OUT" ELSE "IN"]
MCTimeOf == [e \in Events |-> CASE e = e1 -> 1 [] e = e2 -> 2 [] e = e3 -> 3 [] e = e4 -> 4 [] e = e5 -> 5]
=============================================================================
