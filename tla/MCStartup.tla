----------------------------- MODULE MCStartup -----------------------------
(* Small instances of Startup for TLC.                                      *)
EXTENDS Startup

T1 == [enabled |-> TRUE, schedule |-> "s1", handler |-> "h1", options |-> "o1"]
T2 == [T1 EXCEPT !.schedule = "s2"]
Bodies == {T2}
OneDefault == [n \in Name |-> IF n = "n1" THEN T1 ELSE None]

\* What is asked of the tasks.
Edits == [kinds |-> {"create", "update"}, requests |-> 2, writes |-> 2, restarts |-> 1,
          named |-> Name]
Deletes == [kinds |-> {"create", "delete"}, requests |-> 2, writes |-> 3, restarts |-> 0,
            named |-> Name]
Copies == [kinds |-> {"delete"}, requests |-> 1, writes |-> 2, restarts |-> 0, named |-> Name]
Runs == [kinds |-> {"run", "delete"}, requests |-> 3, writes |-> 2, restarts |-> 0,
         named |-> Name]
Quiet == [kinds |-> {}, requests |-> 0, writes |-> 0, restarts |-> 1, named |-> {}]
TaskMixes == {Edits, Deletes, Copies, Runs, Quiet}

\* What becomes of the migrations.
Nothing == [shipped |-> {}, later |-> {}, unusable |-> {}, commands |-> 0, restarts |-> 1,
            losses |-> 0, faults |-> FALSE]
Command1 == [Nothing EXCEPT !.commands = 1]
Lost == [shipped |-> {1, 2}, later |-> {}, unusable |-> {}, commands |-> 1, restarts |-> 0,
         losses |-> 1, faults |-> TRUE]
Release == [Lost EXCEPT !.shipped = {1}, !.later = {2}, !.restarts = 1,
                        !.losses = 0]
LostRelease == [Release EXCEPT !.shipped = {1, 2}, !.later = {3}, !.commands = 0, !.losses = 1]
Commands == [Lost EXCEPT !.commands = 2, !.losses = 0, !.faults = FALSE]
Broken == [Release EXCEPT !.shipped = {1, 2}, !.later = {3}, !.unusable = {2}]
MigrationMixes == {Nothing, Command1, Lost, Release, LostRelease, Commands, Broken}

Pairs ==
    {<<Edits, Nothing>>, <<Deletes, Nothing>>, <<Runs, Nothing>>, <<Copies, Command1>>}
    \cup {Quiet} \X {Lost, Release, LostRelease, Commands, Broken}
=============================================================================
