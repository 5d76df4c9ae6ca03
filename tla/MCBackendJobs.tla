---------------------------- MODULE MCBackendJobs ----------------------------
(* Small instances of BackendJobs for TLC.                                  *)
EXTENDS BackendJobs, TLC

OnlySync == {FALSE}
OnlyAsync == {TRUE}
BothModes == BOOLEAN

AllReturns == Returns
OkOrError == {"ok", "error"}

NoIdentity == {}

\* The operations of each instance.
Core == {"sync", "delete", "undelete", "edit", "validate"}
Racing == {"sync", "mutation"}
Detached == {"syncAll", "delete", "enable", "password"}

\* Ids are interchangeable: nothing orders or distinguishes them.
Symmetry == Permutations(Identity) \cup Permutations(Job) \cup Permutations(Caller)
=============================================================================
