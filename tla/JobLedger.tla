------------------------------- MODULE JobLedger -------------------------------
(***************************************************************************)
(* What the jobs collection promises to its readers, without the queue, the *)
(* listeners, the requests and the restarts that keep the promise: a job    *)
(* that is entered once ends at most once, and what is recorded of it may    *)
(* lag behind and may be pessimistic, but a success is recorded only after  *)
(* the job has returned, and is never reopened.                            *)
(***************************************************************************)
CONSTANTS Job

VARIABLES
    phase,     \* how far the job is, seen from the daemon
    verdict    \* what the collection says about it

ledger == <<phase, verdict>>

Phase == {"absent", "open", "returned", "failed"}
Verdict == {"none", "open", "success", "failure"}

LedgerTypeOK == phase \in [Job -> Phase] /\ verdict \in [Job -> Verdict]

Init == /\ phase = [j \in Job |-> "absent"]
        /\ verdict = [j \in Job |-> "none"]

Enter(j) == /\ phase[j] = "absent"
            /\ phase' = [phase EXCEPT ![j] = "open"]
            /\ UNCHANGED verdict

End(j) == /\ phase[j] = "open"
          /\ \E p \in {"returned", "failed"} : phase' = [phase EXCEPT ![j] = p]
          /\ UNCHANGED verdict

\* A success may be revised to a failure, by a request that gave up.
Report(j, v) ==
    /\ phase[j] # "absent"
    /\ v = "success" => phase[j] = "returned"
    /\ v = "open" => verdict[j] # "success"
    /\ verdict' = [verdict EXCEPT ![j] = v]
    /\ UNCHANGED phase

Next == \E j \in Job : \/ Enter(j) \/ End(j)
                       \/ \E v \in Verdict \ {"none"} : Report(j, v)

Spec == Init /\ [][Next]_ledger

\* A recorded success has really happened.
SuccessHappened == \A j \in Job : verdict[j] = "success" => phase[j] = "returned"
=============================================================================
