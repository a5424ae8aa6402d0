-------------------------- MODULE MCSaveAccessEvent --------------------------
(* Instances of SaveAccessEvent for TLC: two employees, one of them without a *)
(* row at the start, and events that repeat a state.                         *)
EXTENDS SaveAccessEvent, TLC

CONSTANTS e1, e2, e3, e4, emp1, emp2

MCEmployeeOf == (e1 :> emp1) @@ (e2 :> emp1) @@ (e3 :> emp1) @@ (e4 :> emp2)
MCStateOf == (e1 :> "IN") @@ (e2 :> "OUT") @@ (e3 :> "IN") @@ (e4 :> "IN")
MCTimeOf == (e1 :> 1) @@ (e2 :> 2) @@ (e3 :> 3) @@ (e4 :> 1)
=============================================================================
