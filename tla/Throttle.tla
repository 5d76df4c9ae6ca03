------------------------------ MODULE Throttle ------------------------------
(* What the brute-force counters of the API promise. The same code appears  *)
(* three times, for the password change, the login and the one-time codes:  *)
(* a counter of failures with a window, and a block set from the threshold  *)
(* on. A caller reads the block, later tries a secret, and afterwards       *)
(* counts the failure or clears both keys, in separate calls to Redis.      *)
(*                                                                          *)
(* This is the abstract specification of one pair of keys; Passwords and    *)
(* Sessions are shown to implement it. tries is a history variable: the     *)
(* secrets tried since the counter was cleared, its window ended or the     *)
(* block was lifted.                                                        *)
EXTENDS Naturals, FiniteSets

CONSTANTS
    Caller,     \* the requests that may be in progress at once
    Threshold   \* failures from which a block is set

VARIABLES
    fails,      \* the counter of failures, 0 when the key is absent
    window,     \* whether the counter has a time to live
    blocked,    \* whether the block key exists
    at,         \* where each caller is
    tries       \* history: secrets tried since the last reset

vars == <<fails, window, blocked, at, tries>>

Places == {"out", "in", "trying", "knock", "window", "block", "lift"}

Init ==
    /\ fails = 0
    /\ window = FALSE
    /\ blocked = FALSE
    /\ at = [c \in Caller |-> "out"]
    /\ tries = 0

Move(c, p) == at' = [at EXCEPT ![c] = p]

(* The block is read once, at the start.                                    *)
Enter(c) ==
    /\ at[c] = "out"
    /\ ~blocked
    /\ Move(c, "in")
    /\ UNCHANGED <<fails, window, blocked, tries>>

(* Refused before the secret was looked at: nothing is counted.             *)
Leave(c) ==
    /\ at[c] = "in"
    /\ Move(c, "out")
    /\ UNCHANGED <<fails, window, blocked, tries>>

Try(c) ==
    /\ at[c] = "in"
    /\ Move(c, "trying")
    /\ tries' = tries + 1
    /\ UNCHANGED <<fails, window, blocked>>

(* Where a caller goes when its failure was the n-th.                       *)
Counted(n) ==
    IF n = 1 THEN "window" ELSE IF n < Threshold THEN "out" ELSE "block"

Count(c) ==
    /\ at[c] \in {"trying", "knock"}
    /\ fails' = fails + 1
    /\ Move(c, Counted(fails + 1))
    /\ UNCHANGED <<window, blocked, tries>>

(* A request that finds the block may count one more failure.               *)
Knock(c) ==
    /\ at[c] = "out"
    /\ blocked
    /\ Move(c, "knock")
    /\ UNCHANGED <<fails, window, blocked, tries>>

(* The first failure opens the window, in a second call to Redis.           *)
SetWindow(c) ==
    /\ at[c] = "window"
    /\ window' = (fails > 0)
    /\ Move(c, IF Threshold <= 1 THEN "block" ELSE "out")
    /\ UNCHANGED <<fails, blocked, tries>>

Block(c) ==
    /\ at[c] = "block"
    /\ blocked' = TRUE
    /\ Move(c, "out")
    /\ UNCHANGED <<fails, window, tries>>

(* The secret was right but the caller is turned away for another reason:   *)
(* neither a failure nor a success.                                         *)
Excuse(c) ==
    /\ at[c] = "trying"
    /\ Move(c, "out")
    /\ tries' = IF tries = 0 THEN 0 ELSE tries - 1
    /\ UNCHANGED <<fails, window, blocked>>

(* A success deletes the counter, then the block.                           *)
Clear(c) ==
    /\ at[c] = "trying"
    /\ fails' = 0
    /\ window' = FALSE
    /\ tries' = 0
    /\ Move(c, "lift")
    /\ UNCHANGED blocked

Lift(c) ==
    /\ at[c] = "lift"
    /\ blocked' = FALSE
    /\ tries' = 0
    /\ Move(c, "out")
    /\ UNCHANGED <<fails, window>>

WindowEnds ==
    /\ window
    /\ fails' = 0
    /\ window' = FALSE
    /\ tries' = 0
    /\ UNCHANGED <<blocked, at>>

BlockEnds ==
    /\ blocked
    /\ blocked' = FALSE
    /\ tries' = 0
    /\ UNCHANGED <<fails, window, at>>

Next ==
    \/ \E c \in Caller :
        \/ Enter(c) \/ Leave(c) \/ Try(c) \/ Count(c) \/ Knock(c)
        \/ SetWindow(c) \/ Block(c) \/ Excuse(c) \/ Clear(c) \/ Lift(c)
    \/ WindowEnds
    \/ BlockEnds

Spec == Init /\ [][Next]_vars

-----------------------------------------------------------------------------
(* The callers that did read the block and did not try yet.                 *)
Inside == {c \in Caller : at[c] = "in"}

(* At most Threshold - 1 secrets are tried before one of the callers is at  *)
(* the call that blocks, and from there on each caller tries one at most:   *)
(* the number of secrets tried between two resets is bounded by the         *)
(* threshold and the number of requests in progress, whatever their order.  *)
TriesBounded == tries <= Threshold - 1 + Cardinality(Caller)
=============================================================================
