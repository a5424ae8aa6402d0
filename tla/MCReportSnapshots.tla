-------------------------- MODULE MCReportSnapshots --------------------------
(* A department with one employee and one below it with two, one of them an    *)
(* EMPLOYEE who asks for both: the whole of the lower one is theirs to see, and *)
(* a part of the upper one.  The day changes from the last of May, whose date  *)
(* February and March lack.                                                    *)
EXTENDS ReportSnapshots

MCParentOf == [d \in {1, 2} |-> IF d = 1 THEN 9 ELSE 1]
MCDepartmentOf == [p \in 1..3 |-> IF p = 1 THEN 1 ELSE 2]
MCUsers == {"executive", "staff", "anonymous"}
MCRoleOf == [u \in MCUsers |-> IF u = "executive" THEN "EXECUTIVE" ELSE "EMPLOYEE"]
MCScopesOf == [u \in MCUsers |-> {}]
MCEmployeeOfUser == [u \in MCUsers |-> IF u = "staff" THEN 2 ELSE 0]
MCCalendar == <<[year |-> 2024, month |-> 5, day |-> 31], [year |-> 2024, month |-> 6, day |-> 1]>>
MCForms == {[user |-> "executive", target |-> 1],
            [user |-> "staff", target |-> 1], [user |-> "staff", target |-> 2]}
MCWorkerUsers == <<"executive">>
=============================================================================
