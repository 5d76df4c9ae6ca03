----------------------------- MODULE Migrations -----------------------------
(* The migrations of the database (migrations.service.ts): which of them a  *)
(* process executes when it starts, from a lock file and a collection that  *)
(* say how far the previous ones went. The API is such a process, and so is *)
(* each console command.                                                    *)
EXTENDS Integers, FiniteSets

CONSTANTS
    None,     \* no lock file
    Torn,     \* a lock file cut short: what is parsed is not a number
    Stamp,    \* the timestamps of the migrations that are ever written
    Server,   \* the API
    Command,  \* the console commands in progress at once
    Mixes     \* what is explored: releases, and how often each thing happens

Process == {Server} \cup Command

MigrationsAssumption ==
    /\ Stamp \subseteq Nat \ {0}
    /\ None # Torn /\ {None, Torn} \cap Nat = {}
    /\ Server \notin Command
    /\ Mixes \subseteq [shipped : SUBSET Stamp, later : SUBSET Stamp, unusable : SUBSET Stamp,
                        commands : Nat, restarts : Nat, losses : Nat, faults : BOOLEAN]

VARIABLES
    lock,      \* migrations.lock
    recorded,  \* the timestamps of the "migrations" collection
    shipped,   \* the files of jobs/ in the release that is installed
    pc,        \* how far each process is
    read,      \* currentTimestamp
    saved,     \* dbMigration
    todo,      \* the migrations a process has loaded and not executed
    pending,   \* the calls of _writeMigrationLockFile that have not ended
    \* history variables
    executed,  \* the migrations whose up() succeeded
    forced,    \* those that an operator forced
    mix, left  \* what is explored, and what remains of it

known == <<lock, recorded>>
local == <<read, saved, todo>>
past == <<executed, forced>>
vars == <<known, shipped, pc, local, pending, past, mix, left>>

Value == Nat \cup {Torn}
Write == [stamp : Stamp, stage : {"file", "record"}]

Init ==
    /\ mix \in Mixes
    /\ lock = None /\ recorded = {}
    /\ shipped = mix.shipped
    /\ pc = [p \in Process |-> IF p = Server THEN "read" ELSE "off"]
    /\ read = [p \in Process |-> 0] /\ saved = [p \in Process |-> 0]
    /\ todo = [p \in Process |-> {}]
    /\ pending = [p \in Process |-> {}]
    /\ executed = {} /\ forced = {}
    /\ left = [commands |-> mix.commands, restarts |-> mix.restarts, losses |-> mix.losses]

At(p, where) == pc[p] = where
Go(p, where) == pc' = [pc EXCEPT ![p] = where]
Forget(p) == read' = [read EXCEPT ![p] = 0] /\ saved' = [saved EXCEPT ![p] = 0]
Leave(p) == Forget(p) /\ todo' = [todo EXCEPT ![p] = {}]
Spend(what) == left[what] > 0 /\ left' = [left EXCEPT ![what] = @ - 1]

-----------------------------------------------------------------------------
(* onModuleInit: _checkMigrationLockFile.                                   *)

(* A write empties the file before it fills it: whoever reads it meanwhile, *)
(* or after a write that was cut short, parses nothing.                     *)
Writing(p) == At(p, "create") \/ \E w \in pending[p] : w.stage = "file"

ReadLock(p) ==
    /\ At(p, "read")
    /\ Go(p, "find")
    /\ \E v \in {IF lock = None THEN 0 ELSE lock}
                 \cup (IF \E q \in Process \ {p} : Writing(q) THEN {Torn} ELSE {}) :
         read' = [read EXCEPT ![p] = v]
    /\ UNCHANGED <<known, shipped, saved, todo, pending, past, mix, left>>

(* The greatest timestamp; NaN is sorted before the numbers.                *)
LastRecord ==
    LET numbers == recorded \ {Torn}
    IN  IF recorded = {} THEN {0}
        ELSE IF numbers = {} THEN {Torn}
        ELSE {m \in numbers : \A r \in numbers : r <= m}

FindRecord(p) ==
    /\ At(p, "find")
    /\ \/ /\ read[p] = 0
          /\ \E last \in LastRecord : saved' = [saved EXCEPT ![p] = last]
          /\ Go(p, "create")
       \/ /\ read[p] # 0
          /\ Go(p, IF recorded = {} THEN "sync" ELSE "load")
          /\ UNCHANGED saved
    /\ UNCHANGED <<known, shipped, read, todo, pending, past, mix, left>>

(* A file that cannot be written is only logged. What was found in the      *)
(* collection goes to the file, and not to the caller.                      *)
CreateLock(p) ==
    /\ At(p, "create")
    /\ lock' \in {saved[p]} \cup (IF mix.faults THEN {lock, Torn} ELSE {})
    /\ Go(p, "load")
    /\ UNCHANGED <<recorded, shipped, local, pending, past, mix, left>>

SyncRecord(p) ==
    /\ At(p, "sync")
    /\ recorded' = recorded \cup {read[p]}
    /\ Go(p, "load")
    /\ UNCHANGED <<lock, shipped, local, pending, past, mix, left>>

-----------------------------------------------------------------------------
(* _loadMigrationsFiles and _executeMigrations.                             *)

(* Nothing is smaller than or equal to NaN.                                 *)
Later(m, last) == last = Torn \/ last < m

(* A migration without default export or without up() stops the others.     *)
Pending(last) ==
    {m \in shipped : Later(m, last)
       /\ \A u \in shipped \cap mix.unusable : Later(u, last) => m < u}

Continue(p, rest) ==
    /\ todo' = [todo EXCEPT ![p] = rest]
    /\ Go(p, IF rest = {} THEN "ready" ELSE "run")

LoadFiles(p) ==
    /\ At(p, "load")
    /\ Continue(p, Pending(read[p]))
    /\ Forget(p)
    /\ UNCHANGED <<known, shipped, pending, past, mix, left>>

IsNext(p, m) == m \in todo[p] /\ \A k \in todo[p] : m <= k

(* up() has succeeded; the write of the lock is started and not awaited.    *)
Up(p, m) ==
    /\ At(p, "run") /\ IsNext(p, m)
    /\ Continue(p, todo[p] \ {m})
    /\ executed' = executed \cup {m}
    /\ pending' = [pending EXCEPT ![p] = @ \cup {[stamp |-> m, stage |-> "file"]}]
    /\ UNCHANGED <<known, shipped, read, saved, forced, mix, left>>

(* Mutant: a migration that fails is left out.                              *)
UpFailsContinues(p) ==
    /\ At(p, "run")
    /\ \E m \in todo[p] : IsNext(p, m) /\ Continue(p, todo[p] \ {m})
    /\ UNCHANGED <<known, shipped, read, saved, pending, past, mix, left>>

(* The first that fails ends the list; the process starts all the same.     *)
UpFails(p) ==
    /\ At(p, "run")
    /\ Continue(p, {})
    /\ UNCHANGED <<known, shipped, read, saved, pending, past, mix, left>>

(* _writeMigrationLockFile: the file, then the record.                      *)
WriteLock(p, m) ==
    LET w == [stamp |-> m, stage |-> "file"]
    IN  /\ w \in pending[p]
        /\ lock' = m
        /\ pending' = [pending EXCEPT ![p] = (@ \ {w}) \cup {[w EXCEPT !.stage = "record"]}]
        /\ UNCHANGED <<recorded, shipped, pc, local, past, mix, left>>

InsertRecord(p, m) ==
    LET w == [stamp |-> m, stage |-> "record"]
    IN  /\ w \in pending[p]
        /\ recorded' = recorded \cup {m}
        /\ pending' = [pending EXCEPT ![p] = @ \ {w}]
        /\ UNCHANGED <<lock, shipped, pc, local, past, mix, left>>

(* It fails: without a handler of such errors the process stops, which is   *)
(* Exit or Restart; otherwise it goes on.                                   *)
WriteFails(p) ==
    /\ mix.faults
    /\ \E w \in pending[p] :
         /\ pending' = [pending EXCEPT ![p] = @ \ {w}]
         /\ lock' \in {lock} \cup (IF w.stage = "file" THEN {Torn} ELSE {})
    /\ UNCHANGED <<recorded, shipped, pc, local, past, mix, left>>

-----------------------------------------------------------------------------
(* The console commands.                                                    *)

Spawn(p) ==
    /\ p \in Command /\ At(p, "off")
    /\ Spend("commands")
    /\ Go(p, "read")
    /\ UNCHANGED <<known, shipped, local, pending, past, mix>>

(* forceRun, whatever the lock says.                                        *)
ForceRun(p, m) ==
    /\ p \in Command /\ At(p, "ready")
    /\ m \in shipped \ mix.unusable
    /\ executed' = executed \cup {m}
    /\ forced' = forced \cup {m}
    /\ pending' = [pending EXCEPT ![p] = @ \cup {[stamp |-> m, stage |-> "file"]}]
    /\ Go(p, "forced")
    /\ UNCHANGED <<known, shipped, local, mix, left>>

(* What a process that stops leaves of the file.                            *)
Cut(p) == lock' \in {lock} \cup (IF Writing(p) THEN {Torn} ELSE {})

(* A command exits once it is done, or fails earlier: nobody waits for the  *)
(* writes of the migrations it executed when it started.                    *)
Exit(p) ==
    /\ p \in Command /\ ~At(p, "off")
    /\ mix.faults \/ pending[p] = {}
    /\ Cut(p)
    /\ Go(p, "off") /\ Leave(p)
    /\ pending' = [pending EXCEPT ![p] = {}]
    /\ UNCHANGED <<recorded, shipped, past, mix, left>>

-----------------------------------------------------------------------------
(* The API stops, because a write of the lock was rejected or for another   *)
(* reason, and starts again, maybe from a release with one more migration.  *)
Installed ==
    {shipped} \cup {shipped \cup {m} : m \in {s \in mix.later : \A k \in shipped : k < s}}

Restart ==
    /\ Spend("restarts")
    /\ mix.faults \/ (At(Server, "ready") /\ pending[Server] = {})
    /\ Cut(Server)
    /\ Go(Server, "read") /\ Leave(Server)
    /\ pending' = [pending EXCEPT ![Server] = {}]
    /\ shipped' \in Installed
    /\ UNCHANGED <<recorded, past, mix>>

(* The storage is started anew: the lock file is on no volume, say.         *)
LockLost ==
    /\ Spend("losses")
    /\ lock' = None
    /\ UNCHANGED <<recorded, shipped, pc, local, pending, past, mix>>

Boot(p) ==
    \/ ReadLock(p) \/ FindRecord(p) \/ CreateLock(p) \/ SyncRecord(p) \/ LoadFiles(p)
    \/ UpFails(p) \/ WriteFails(p)
    \/ \E m \in Stamp : Up(p, m) \/ WriteLock(p, m) \/ InsertRecord(p, m)

Operate(p) == Exit(p) \/ \E m \in Stamp : ForceRun(p, m)

Next ==
    \/ \E p \in Process : Boot(p)
    \/ \E p \in Command : Spawn(p) \/ Operate(p)
    \/ LockLost \/ Restart

Spec == Init /\ [][Next]_vars

-----------------------------------------------------------------------------
(* The variables keep their types.                                          *)
TypeOK ==
    /\ lock \in Value \cup {None}
    /\ recorded \subseteq Value
    /\ shipped \subseteq Stamp
    /\ pc \in [Process -> {"off", "read", "find", "create", "sync", "load", "run", "ready",
                          "forced"}]
    /\ read \in [Process -> Value] /\ saved \in [Process -> Value]
    /\ todo \in [Process -> SUBSET Stamp]
    /\ pending \in [Process -> SUBSET Write]
    /\ executed \subseteq Stamp /\ forced \subseteq Stamp
    /\ mix \in Mixes
    /\ left \in [{"commands", "restarts", "losses"} -> Nat]

(* The migrations up to x have been executed, but for those below one that  *)
(* an operator forced.                                                      *)
Covered(x) == \A m \in shipped : m <= x /\ (\A f \in forced : f < m) => m \in executed

(* No migration is left out: whatever the processes that executed them at   *)
(* the same time, those that failed or were stopped, and whatever was left  *)
(* of the lock, what it names and what comes before has been executed       *)
(* (_executeMigrations, _writeMigrationLockFile).                           *)
NothingSkipped == lock \in Nat => Covered(lock)
=============================================================================
