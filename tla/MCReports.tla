------------------------------ MODULE MCReports ------------------------------
(* Two branches below one head office, with one employee and with two of whom *)
(* one is an EMPLOYEE, and an employee of no department.                      *)
EXTENDS Reports

head == 1
fab == 2
line == 3
hr == 4
none == 9

MCParentOf == [d \in {head, fab, line, hr} |->
                  CASE d = head -> none [] d = line -> fab [] OTHER -> head]
MCDepartmentOf == [p \in 1..4 |-> CASE p = 1 -> line [] p = 3 -> none [] OTHER -> hr]

MCUsers == {"executive", "lead", "worker", "anonymous"}
MCRoleOf == [u \in MCUsers |-> CASE u = "executive" -> "EXECUTIVE" [] u = "lead" -> "MANAGER"
                                 [] OTHER -> "EMPLOYEE"]
MCScopesOf == [u \in MCUsers |->
                  IF u = "lead" THEN {[department |-> fab, descendants |-> TRUE]} ELSE {}]
MCEmployeeOfUser == [u \in MCUsers |-> IF u = "worker" THEN 2 ELSE 0]

Feb29 == [year |-> 2024, month |-> 2, day |-> 29]
Mar1 == [year |-> 2024, month |-> 3, day |-> 1]
Mar2 == [year |-> 2024, month |-> 3, day |-> 2]

Swipe(id, p, gate, direction, decision, date, time) ==
    [id |-> id, employee |-> p, gate |-> gate, direction |-> direction, decision |-> decision,
     reason |-> IF decision = "DENIED" THEN "ANTI_PASSBACK" ELSE "GRANTED",
     state |-> IF decision = "GRANTED" THEN direction ELSE "IN", date |-> date, time |-> time]

MCSwipes ==
    {Swipe(1, 1, "FAB_A", "IN", "GRANTED", Mar1, Clock(9, 20)),
     Swipe(2, 1, "FAB_A", "OUT", "GRANTED", Mar1, Clock(21, 40)),
     Swipe(3, 1, "FAB_A", "IN", "DENIED", Mar1, Clock(8, 0)),
     Swipe(4, 1, "FAB_A", "OUT", "GRANTED", Mar1, Clock(12, 0)),
     Swipe(5, 2, "FAB_A", "IN", "GRANTED", Mar1, Clock(8, 0)),
     Swipe(6, 4, "FAB-A", "IN", "GRANTED", Feb29, Clock(23, 10)),
     Swipe(7, 3, "FAB_B", "IN", "GRANTED", Mar2, Clock(0, 20))}

MCRequests ==
    {[user |-> "executive", departments |-> {}], [user |-> "executive", departments |-> {fab}],
     [user |-> "lead", departments |-> {head}], [user |-> "executive", departments |-> {fab, hr}],
     [user |-> "worker", departments |-> {}], [user |-> "worker", departments |-> {hr}],
     [user |-> "anonymous", departments |-> {fab}]}
MCWindows == {WholeDays(Feb29, Mar1),
              [from |-> Midnight(Mar1) + Clock(9, 0), to |-> Midnight(Mar2) + Clock(12, 0)]}
=============================================================================
