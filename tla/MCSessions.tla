----------------------------- MODULE MCSessions -----------------------------
(* Small instances of Sessions for TLC.                                     *)
EXTENDS Sessions

Bare == [there |-> TRUE, active |-> TRUE, otp |-> FALSE, key |-> FALSE]
WithCode == [Bare EXCEPT !.otp = TRUE]
WithBoth == [WithCode EXCEPT !.key = TRUE]
Disabled == [Bare EXCEPT !.active = FALSE]
Gone == [Bare EXCEPT !.there = FALSE]

Passwords == [kinds |-> {"login", "preflight"}, requests |-> 4, edits |-> 0,
              docs |-> {Disabled}]
Factors == [kinds |-> {"login", "verify", "begin", "finish", "stepUp"}, requests |-> 3,
            edits |-> 1, docs |-> {WithBoth, Bare}]
Ends == [kinds |-> {"login", "renew", "logout"}, requests |-> 3, edits |-> 1,
         docs |-> {Bare, Gone}]

Mixes == {Passwords, Factors, Ends}
=============================================================================
