---------------------------- MODULE MCCronTasks ----------------------------
(* Small instances of CronTasks for TLC.                                    *)
EXTENDS CronTasks

T1 == [enabled |-> TRUE, schedule |-> "s1", handler |-> "h1", options |-> "o1"]
T2 == [T1 EXCEPT !.schedule = "s2"]
Bodies == {T2}
OneDefault == [n \in Name |-> IF n = "n1" THEN T1 ELSE None]

Deletes == [kinds |-> {"create", "delete"}, requests |-> 2, writes |-> 3, restarts |-> 0,
            named |-> Name]
JustDeletes == {Deletes}
=============================================================================
