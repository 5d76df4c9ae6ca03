----------------------------- MODULE MCPasswords -----------------------------
(* Small instances of Passwords for TLC.                                    *)
EXTENDS Passwords, TLC

\* Every kind of request, and the changes alone, more of them.
Mixed == {[kinds |-> Kinds, requests |-> 3, edits |-> 1],
          [kinds |-> {"change"}, requests |-> 5, edits |-> 0]}
CodeOnly == {[kinds |-> {"initReset", "resetByCode"}, requests |-> 3, edits |-> 0]}
Yes == {TRUE}
No == {FALSE}
Symmetry == Permutations(Caller) \cup Permutations(Password)
=============================================================================
