------------------------------ MODULE BackendJobs ------------------------------
(***************************************************************************)
(* The job pipeline of the API (core/backends/backends.service.ts).        *)
(*                                                                         *)
(* An HTTP request about some identities becomes, one identity after the   *)
(* other, a job of the BullMQ queue that an external daemon executes, a     *)
(* document of the "jobs" collection, and writes to the identity.  Four     *)
(* writers race on these two documents without any transaction:            *)
(*   - the request itself, when it waits for the answer of the daemon;      *)
(*   - the listeners of the queue's events (active, failed, completed),     *)
(*     asynchronous callbacks that the emitter does not await;             *)
(*   - the reconciliation executed when the API starts;                    *)
(*   - the other requests and the edits of the same identity.              *)
(* Every await of the code is a step boundary here.  The API may stop       *)
(* between two steps: what it was doing is lost, and so are the events the  *)
(* queue publishes until its listeners are attached again.                 *)
(***************************************************************************)
EXTENDS Naturals, FiniteSets

CONSTANTS
    Identity,     \* documents of the "identities" collection
    Known,        \* those that the backends already know at the start
    Job,          \* fresh job ids: the bound on the number of jobs
    Caller,       \* request handlers that may be in flight at the same time
    None,         \* the null of the code
    Requests,     \* the operations that clients use in this instance
    AsyncModes,   \* the values of ?async= that clients use
    Outcomes,     \* what a job that ends normally may return
    SlowDaemon,   \* may the daemon take longer than syncTimeout?
    MaxCrashes    \* how often the API may stop

Operations == {"sync", "syncAll", "lifecycle", "mutation", "delete", "disable",
               "enable", "password", "undelete", "edit", "validate"}

\* returnvalue.status = 0, returnvalue.status > 0, and no returnvalue
Returns == {"ok", "error", "void"}

JobState == {"COMPLETED", "IN_PROGRESS", "CREATED", "FAILED"}

ASSUME BackendJobsAssumption ==
    /\ None \notin Identity \cup Job \cup JobState
    /\ Known \subseteq Identity
    /\ Requests \subseteq Operations
    /\ AsyncModes \subseteq BOOLEAN
    /\ Outcomes \subseteq Returns
    /\ SlowDaemon \in BOOLEAN
    /\ MaxCrashes \in Nat

VARIABLES
    identity,   \* the state, deletedFlag and "lastBackendSync # null" of each
    queue,      \* the state of each job in Redis
    order,      \* what the job was submitted for
    rec,        \* the documents of the jobs collection, see Record
    inbox,      \* the listener activations in flight
    caller,     \* the request handlers
    api,        \* is the process up?
    boot,       \* the reconciliation in progress
    crashes

vars == <<identity, queue, order, rec, inbox, caller, api, boot, crashes>>

----------------------------------------------------------------------------
(* The data.                                                               *)

IdentityState == {"SYNCED", "TO_SYNC", "TO_VALIDATE", "TO_CREATE",
                  "ON_ERROR", "DONT_SYNC"}
Settled  == {"COMPLETED", "FAILED"}

IdentityDoc == [state : IdentityState, deleted : BOOLEAN, synced : BOOLEAN]

\* A job that ended normally is in the state of what it returned.
QueueState == {"absent", "waiting", "active", "failed"} \cup Returns
Order == [op : Operations, async : BOOLEAN, about : Identity \cup {None}]

\* jobId has no unique index.  The document that the listener of "completed"
\* upserts when it finds none ("stub", it names no identity) and the one that
\* executeJob creates ("doc") may both exist, the stub then being the older.
Record == [stub : JobState \cup {None}, doc : JobState \cup {None}]

\* step "job" is the write to the jobs collection, "identity" the second one.
Activation == [event : {"active", "failed", "completed"}, job : Job,
               step : {"job", "identity"}]

Control == {"idle", "check", "softDelete", "undelete", "run", "create", "wait",
            "okJob", "okIdentity", "errJob", "errIdentity"}

CallerState == [pc : Control, op : Operations, async : BOOLEAN,
                left : SUBSET Identity, todo : SUBSET Identity,
                at : Identity \cup {None}, target : {"TO_SYNC", "TO_CREATE"},
                job : Job \cup {None}]

IdleCaller == [pc |-> "idle", op |-> "sync", async |-> FALSE,
               left |-> {}, todo |-> {}, at |-> None, target |-> "TO_SYNC",
               job |-> None]

NoBoot == [all |-> {}, left |-> {}, job |-> None]

TypeOK ==
    /\ identity \in [Identity -> IdentityDoc]
    /\ queue \in [Job -> QueueState]
    /\ order \in [Job -> Order]
    /\ rec \in [Job -> Record]
    /\ inbox \subseteq Activation
    /\ caller \in [Caller -> CallerState]
    /\ api \in {"up", "down", "boot"}
    /\ boot \in [all : SUBSET Job, left : SUBSET Job, job : Job \cup {None}]
    /\ crashes \in 0 .. MaxCrashes

Init ==
    /\ identity = [i \in Identity |->
                     [state   |-> IF i \in Known THEN "SYNCED" ELSE "TO_SYNC",
                      deleted |-> FALSE, synced |-> i \in Known]]
    /\ queue = [j \in Job |-> "absent"]
    /\ order = [j \in Job |-> [op |-> "sync", async |-> FALSE, about |-> None]]
    /\ rec = [j \in Job |-> [stub |-> None, doc |-> None]]
    /\ inbox = {}
    /\ caller = [c \in Caller |-> IdleCaller]
    /\ api = "up"
    /\ boot = NoBoot
    /\ crashes = 0

----------------------------------------------------------------------------
(* The two collections.                                                    *)

Returned(j) == queue[j] \in Returns

\* The document that findOneAndUpdate({jobId, state in S}) picks: the oldest.
Pick(j, S) == IF rec[j].stub \in S THEN "stub"
              ELSE IF rec[j].doc \in S THEN "doc"
              ELSE "none"

WriteJob(j, which, s) ==
    rec' = [rec EXCEPT ![j] = IF which = "none" THEN @
                              ELSE [@ EXCEPT ![which] = s]]

WriteIdentity(i, state, deleted, synced) ==
    identity' = [identity EXCEPT ![i] = [state |-> state, deleted |-> deleted,
                                         synced |-> synced]]

SetState(i, state) == identity' = [identity EXCEPT ![i].state = state]

SetStateAndFlag(i, state, deleted) ==
    identity' = [identity EXCEPT ![i].state = state, ![i].deleted = deleted]

SetSynced(i) == identity' = [identity EXCEPT ![i].state = "SYNCED", ![i].synced = TRUE]

\* The options that each operation gives executeJob.
UpdateStatus(op) == op # "password"
TargetState(op) == CASE op = "delete"    -> "DONT_SYNC"
                     [] op = "mutation"  -> "TO_SYNC"
                     [] OTHER            -> "SYNCED"

----------------------------------------------------------------------------
(* Requests.                                                               *)

Goto(c, pc) == caller' = [caller EXCEPT ![c].pc = pc]

\* The response is sent, or the exception leaves the handler.
Answer(c) == caller' = [caller EXCEPT ![c] = IdleCaller]

\* After executeJob of one identity: the next one of the payload, or the end.
NextIdentity(c) ==
    IF caller[c].todo = {} THEN Answer(c)
    ELSE caller' = [caller EXCEPT ![c].pc = "run", ![c].job = None, ![c].at = None]

\* executeJob throws: only syncAllIdentities catches, per identity.
Throw(c) == IF caller[c].op = "syncAll" THEN NextIdentity(c) ELSE Answer(c)

Accept(c, op, async, pc, left, todo) ==
    caller' = [caller EXCEPT ![c] =
                 [IdleCaller EXCEPT !.pc = pc, !.op = op, !.async = async,
                                    !.left = left, !.todo = todo]]

Ready(c, op) == api = "up" /\ caller[c].pc = "idle" /\ op \in Requests

\* sync, delete, undelete, disable and enable first look at each identity of
\* the payload; the password services look at the one they are about.
Request(c, op, async, payload) ==
    /\ Ready(c, op)
    /\ op \in {"sync", "delete", "disable", "enable", "password", "undelete"}
    /\ op = "password" => ~async /\ Cardinality(payload) = 1
    /\ Accept(c, op, async, "check", payload, {})
    /\ UNCHANGED <<identity, queue, order, rec, inbox, api, boot, crashes>>

\* syncAllIdentities executes what one find({state: TO_SYNC}) returned.
SyncAll(c, async) ==
    LET found == {i \in Identity : identity[i].state = "TO_SYNC"}
    IN  /\ Ready(c, "syncAll")
        /\ found # {}
        /\ Accept(c, "syncAll", async, "run", {}, found)
        /\ UNCHANGED <<identity, queue, order, rec, inbox, api, boot, crashes>>

\* A change of lifecycle is dispatched to the backends.  A rule with a mutation
\* also writes the identity, with state TO_SYNC, and dispatches the change with
\* targetState TO_SYNC; only its cron runs asynchronously.
LifecycleChanged(c, async, i) ==
    \E op \in {"lifecycle", "mutation"} :
      /\ Ready(c, op)
      /\ async => op = "mutation"
      /\ IF op = "mutation" THEN SetState(i, "TO_SYNC") ELSE UNCHANGED identity
      /\ Accept(c, op, async, "run", {}, {i})
      /\ UNCHANGED <<queue, order, rec, inbox, api, boot, crashes>>

\* The edit of an identity sends it back to validation.
Edit(i) ==
    /\ api = "up" /\ "edit" \in Requests
    /\ SetState(i, "TO_VALIDATE")
    /\ UNCHANGED <<queue, order, rec, inbox, caller, api, boot, crashes>>

\* updateStateMany only warns of an identity that is not in the state that the
\* client believes it to be in; its target is TO_SYNC for every such state.
Validate(i) ==
    /\ api = "up" /\ "validate" \in Requests
    /\ SetState(i, "TO_SYNC")
    /\ UNCHANGED <<queue, order, rec, inbox, caller, api, boot, crashes>>

----------------------------------------------------------------------------
(* The checks that precede the jobs: one findById per identity.            *)

Admissible(op, i) ==
    CASE op = "sync" -> identity[i].state = "TO_SYNC"
      [] op \in {"disable", "enable", "password"} -> identity[i].synced
      [] OTHER -> TRUE

Check(c, i) ==
    /\ caller[c].pc = "check" /\ i \in caller[c].left
    /\ caller[c].op # "undelete"
    /\ caller[c].op = "delete" => identity[i].synced
    /\ IF Admissible(caller[c].op, i)
       THEN caller' = [caller EXCEPT
                         ![c].left = @ \ {i},
                         ![c].todo = @ \cup {i},
                         ![c].pc = IF caller[c].left = {i} THEN "run" ELSE "check"]
       ELSE Answer(c)
    /\ UNCHANGED <<identity, queue, order, rec, inbox, api, boot, crashes>>

\* deleteIdentities meets an identity without lastBackendSync ...
CheckNeverSynced(c, i) ==
    /\ caller[c].pc = "check" /\ i \in caller[c].left
    /\ caller[c].op = "delete"
    /\ ~identity[i].synced
    /\ caller' = [caller EXCEPT ![c].pc = "softDelete", ![c].at = i]
    /\ UNCHANGED <<identity, queue, order, rec, inbox, api, boot, crashes>>

\* ... soft-deletes it, and returns [] at once.
SoftDelete(c) ==
    /\ caller[c].pc = "softDelete"
    /\ SetStateAndFlag(caller[c].at, "DONT_SYNC", TRUE)
    /\ Answer(c)
    /\ UNCHANGED <<queue, order, rec, inbox, api, boot, crashes>>

CheckUndelete(c, i) ==
    /\ caller[c].pc = "check" /\ i \in caller[c].left
    /\ caller[c].op = "undelete"
    /\ caller' = [caller EXCEPT
                    ![c].left = @ \ {i}, ![c].pc = "undelete", ![c].at = i,
                    ![c].target = IF identity[i].synced THEN "TO_SYNC"
                                  ELSE "TO_CREATE"]
    /\ UNCHANGED <<identity, queue, order, rec, inbox, api, boot, crashes>>

Undelete(c) ==
    /\ caller[c].pc = "undelete"
    /\ SetStateAndFlag(caller[c].at, caller[c].target, FALSE)
    /\ IF caller[c].left = {} THEN Answer(c) ELSE Goto(c, "check")
    /\ UNCHANGED <<queue, order, rec, inbox, api, boot, crashes>>

----------------------------------------------------------------------------
(* executeJob, for one identity of the payload.                            *)

\* Mutant: the id is not fresh, a job that has ended is added again.
SubmitAgain(c, i, j) ==
    /\ caller[c].pc = "run" /\ i \in caller[c].todo
    /\ queue[j] \notin {"waiting", "active"}
    /\ queue' = [queue EXCEPT ![j] = "waiting"]
    /\ order' = [order EXCEPT ![j] = [op |-> caller[c].op,
                                      async |-> caller[c].async, about |-> i]]
    /\ caller' = [caller EXCEPT ![c].pc = "create", ![c].todo = @ \ {i},
                                ![c].at = i, ![c].job = j]
    /\ UNCHANGED <<identity, rec, inbox, api, boot, crashes>>

\* queue.add with a fresh id: the daemon may take the job from now on.
Submit(c, i, j) ==
    /\ caller[c].pc = "run" /\ i \in caller[c].todo
    /\ queue[j] = "absent"
    /\ queue' = [queue EXCEPT ![j] = "waiting"]
    /\ order' = [order EXCEPT ![j] = [op |-> caller[c].op,
                                      async |-> caller[c].async, about |-> i]]
    /\ caller' = [caller EXCEPT ![c].pc = "create", ![c].todo = @ \ {i},
                                ![c].at = i, ![c].job = j]
    /\ UNCHANGED <<identity, rec, inbox, api, boot, crashes>>

\* jobsService.create, after the job is already in the queue.
CreateDoc(c) ==
    /\ caller[c].pc = "create"
    /\ WriteJob(caller[c].job, "doc",
                IF caller[c].async THEN "CREATED" ELSE "IN_PROGRESS")
    /\ IF caller[c].async THEN NextIdentity(c) ELSE Goto(c, "wait")
    /\ UNCHANGED <<identity, queue, order, inbox, api, boot, crashes>>

\* Mutant: the await of waitUntilFinished is missing.
WaitOkNotAwaited(c) ==
    /\ caller[c].pc = "wait"
    /\ Goto(c, "okJob")
    /\ UNCHANGED <<identity, queue, order, rec, inbox, api, boot, crashes>>

\* waitUntilFinished resolves, and status is not positive.
WaitOk(c) ==
    /\ caller[c].pc = "wait"
    /\ queue[caller[c].job] \in {"ok", "void"}
    /\ Goto(c, "okJob")
    /\ UNCHANGED <<identity, queue, order, rec, inbox, api, boot, crashes>>

OkJob(c) ==
    /\ caller[c].pc = "okJob"
    /\ WriteJob(caller[c].job, "doc", "COMPLETED")
    /\ IF UpdateStatus(caller[c].op) THEN Goto(c, "okIdentity") ELSE NextIdentity(c)
    /\ UNCHANGED <<identity, queue, order, inbox, api, boot, crashes>>

OkIdentity(c) ==
    /\ caller[c].pc = "okIdentity"
    /\ WriteIdentity(caller[c].at, TargetState(caller[c].op),
                     caller[c].op = "delete", TRUE)
    /\ NextIdentity(c)
    /\ UNCHANGED <<queue, order, rec, inbox, api, boot, crashes>>

\* It rejects, or it resolves with a positive status.
WaitError(c) ==
    /\ caller[c].pc = "wait"
    /\ queue[caller[c].job] \in {"error", "failed"}
    /\ Goto(c, "errJob")
    /\ UNCHANGED <<identity, queue, order, rec, inbox, api, boot, crashes>>

\* Mutant: the timer only runs once the daemon has taken the job.
WaitTimeoutOnceActive(c) ==
    /\ SlowDaemon
    /\ caller[c].pc = "wait"
    /\ queue[caller[c].job] = "active"
    /\ Goto(c, "errJob")
    /\ UNCHANGED <<identity, queue, order, rec, inbox, api, boot, crashes>>

\* The timer of waitUntilFinished fires, maybe while the answer is on its way.
WaitTimeout(c) ==
    /\ caller[c].pc = "wait"
    /\ SlowDaemon
    /\ Goto(c, "errJob")
    /\ UNCHANGED <<identity, queue, order, rec, inbox, api, boot, crashes>>

\* job.getState comes first, it only decides which exception is thrown.
ErrJob(c) ==
    /\ caller[c].pc = "errJob"
    /\ WriteJob(caller[c].job, "doc", "FAILED")
    /\ IF UpdateStatus(caller[c].op) THEN Goto(c, "errIdentity")
       ELSE Throw(c)
    /\ UNCHANGED <<identity, queue, order, inbox, api, boot, crashes>>

\* Mutant: the deletedFlag of the success path also on the error path.
ErrIdentityFlags(c) ==
    /\ caller[c].pc = "errIdentity"
    /\ SetStateAndFlag(caller[c].at, "ON_ERROR", caller[c].op = "delete")
    /\ Throw(c)
    /\ UNCHANGED <<queue, order, rec, inbox, api, boot, crashes>>

ErrIdentity(c) ==
    /\ caller[c].pc = "errIdentity"
    /\ SetState(caller[c].at, "ON_ERROR")
    /\ Throw(c)
    /\ UNCHANGED <<queue, order, rec, inbox, api, boot, crashes>>

----------------------------------------------------------------------------
(* The daemon, an external worker of the queue.  Each of its steps publishes *)
(* an event; the emitter starts the listener at once and awaits nothing, so *)
(* that the writes of two activations may reach the database in any order.  *)

Publish(event, j) ==
    inbox' = IF api = "up"
             THEN inbox \cup {[event |-> event, job |-> j, step |-> "job"]}
             ELSE inbox

DaemonStart(j) ==
    /\ queue[j] = "waiting"
    /\ queue' = [queue EXCEPT ![j] = "active"]
    /\ Publish("active", j)
    /\ UNCHANGED <<identity, order, rec, caller, api, boot, crashes>>

DaemonReturn(j, outcome) ==
    /\ queue[j] = "active"
    /\ queue' = [queue EXCEPT ![j] = outcome]
    /\ Publish("completed", j)
    /\ UNCHANGED <<identity, order, rec, caller, api, boot, crashes>>

DaemonFail(j) ==
    /\ queue[j] = "active"
    /\ queue' = [queue EXCEPT ![j] = "failed"]
    /\ Publish("failed", j)
    /\ UNCHANGED <<identity, order, rec, caller, api, boot, crashes>>

----------------------------------------------------------------------------
(* The listeners.                                                          *)

Done(a) == inbox' = inbox \ {a}

\* The second write is by the id of the identity that the document names:
\* findByIdAndUpdate(undefined) of a stub, or of no document, finds nothing.
ThenIdentity(a, which) ==
    inbox' = (inbox \ {a}) \cup
             (IF which = "doc" THEN {[a EXCEPT !.step = "identity"]} ELSE {})

\* Mutant: no filter on the state of the document.
OnActiveReopens(a) ==
    /\ a \in inbox /\ a.event = "active"
    /\ WriteJob(a.job, Pick(a.job, JobState), "IN_PROGRESS")
    /\ Done(a)
    /\ UNCHANGED <<identity, queue, order, caller, api, boot, crashes>>

OnActive(a) ==
    /\ a \in inbox /\ a.event = "active"
    /\ WriteJob(a.job, Pick(a.job, JobState \ {"COMPLETED"}), "IN_PROGRESS")
    /\ Done(a)
    /\ UNCHANGED <<identity, queue, order, caller, api, boot, crashes>>

\* Mutant: the state of the other enumeration.
OnFailedWrongEnum(a) ==
    LET which == Pick(a.job, JobState \ {"COMPLETED"})
    IN  /\ a \in inbox /\ a.event = "failed" /\ a.step = "job"
        /\ WriteJob(a.job, which, "ON_ERROR")
        /\ ThenIdentity(a, which)
        /\ UNCHANGED <<identity, queue, order, caller, api, boot, crashes>>

\* Mutant: the identity of a failed job is forgotten.
OnFailedJobOnly(a) ==
    /\ a \in inbox /\ a.event = "failed" /\ a.step = "job"
    /\ WriteJob(a.job, Pick(a.job, JobState \ {"COMPLETED"}), "FAILED")
    /\ Done(a)
    /\ UNCHANGED <<identity, queue, order, caller, api, boot, crashes>>

OnFailed(a) ==
    LET which == Pick(a.job, JobState \ {"COMPLETED"})
    IN  /\ a \in inbox /\ a.event = "failed" /\ a.step = "job"
        /\ WriteJob(a.job, which, "FAILED")
        /\ ThenIdentity(a, which)
        /\ UNCHANGED <<identity, queue, order, caller, api, boot, crashes>>

OnFailedIdentity(a) ==
    /\ a \in inbox /\ a.event = "failed" /\ a.step = "identity"
    /\ SetState(order[a.job].about, "ON_ERROR")
    /\ Done(a)
    /\ UNCHANGED <<queue, order, rec, caller, api, boot, crashes>>

OnCompletedVoid(a) ==
    /\ a \in inbox /\ a.event = "completed"
    /\ queue[a.job] = "void"
    /\ Done(a)
    /\ UNCHANGED <<identity, queue, order, rec, caller, api, boot, crashes>>

\* Mutant: no upsert.
OnCompletedNoUpsert(a) ==
    LET which == Pick(a.job, JobState)
    IN  /\ a \in inbox /\ a.event = "completed" /\ a.step = "job"
        /\ queue[a.job] # "void"
        /\ WriteJob(a.job, which,
                    IF queue[a.job] = "ok" THEN "COMPLETED" ELSE "FAILED")
        /\ ThenIdentity(a, which)
        /\ UNCHANGED <<identity, queue, order, caller, api, boot, crashes>>

\* The only write with upsert.
OnCompleted(a) ==
    LET found == Pick(a.job, JobState)
        which == IF found = "none" THEN "stub" ELSE found
    IN  /\ a \in inbox /\ a.event = "completed" /\ a.step = "job"
        /\ queue[a.job] # "void"
        /\ WriteJob(a.job, which,
                    IF queue[a.job] = "ok" THEN "COMPLETED" ELSE "FAILED")
        /\ ThenIdentity(a, which)
        /\ UNCHANGED <<identity, queue, order, caller, api, boot, crashes>>

\* Mutant: a job that ended is a job that succeeded.
OnCompletedIdentityTrusts(a) ==
    LET delete == order[a.job].op = "delete"
    IN  /\ a \in inbox /\ a.event = "completed" /\ a.step = "identity"
        /\ WriteIdentity(order[a.job].about,
                         IF delete THEN "DONT_SYNC" ELSE "SYNCED", delete, TRUE)
        /\ Done(a)
        /\ UNCHANGED <<queue, order, rec, caller, api, boot, crashes>>

\* The options of executeJob (updateStatus, targetState) are not consulted.
OnCompletedIdentity(a) ==
    LET ok     == queue[a.job] = "ok"
        delete == order[a.job].op = "delete"
    IN  /\ a \in inbox /\ a.event = "completed" /\ a.step = "identity"
        /\ WriteIdentity(order[a.job].about,
                         CASE ~ok    -> "ON_ERROR"
                           [] delete /\ ok -> "DONT_SYNC"
                           [] OTHER  -> "SYNCED",
                         delete, ok)
        /\ Done(a)
        /\ UNCHANGED <<queue, order, rec, caller, api, boot, crashes>>

----------------------------------------------------------------------------
(* Stop, and start again.                                                  *)

Crash ==
    /\ api # "down" /\ crashes < MaxCrashes
    /\ crashes' = crashes + 1
    /\ api' = "down"
    /\ caller' = [c \in Caller |-> IdleCaller]
    /\ inbox' = {}
    /\ boot' = NoBoot
    /\ UNCHANGED <<identity, queue, order, rec>>

\* Mutant: every job of the queue, not only the completed ones.
BootTakesAll ==
    /\ api = "down"
    /\ api' = "boot"
    /\ boot' = LET jobs == {j \in Job : queue[j] # "absent"}
               IN  [all |-> jobs, left |-> jobs, job |-> None]
    /\ UNCHANGED <<identity, queue, order, rec, inbox, caller, crashes>>

\* queue.getCompleted: jobs that returned, not those that failed.
Boot ==
    /\ api = "down"
    /\ api' = "boot"
    /\ boot' = LET completed == {j \in Job : Returned(j)}
               IN  [all |-> completed, left |-> completed, job |-> None]
    /\ UNCHANGED <<identity, queue, order, rec, inbox, caller, crashes>>

\* Mutant: only the documents that no listener has touched.
BootJobCreatedOnly(j) ==
    LET which == Pick(j, {"CREATED"})
    IN  /\ api = "boot" /\ boot.job = None /\ j \in boot.left
        /\ WriteJob(j, which, "COMPLETED")
        /\ boot' = [boot EXCEPT !.left = @ \ {j},
                               !.job = IF which = "doc" THEN j ELSE None]
        /\ UNCHANGED <<identity, queue, order, inbox, caller, api, crashes>>

BootJob(j) ==
    LET which == Pick(j, JobState \ Settled)
    IN  /\ api = "boot" /\ boot.job = None /\ j \in boot.left
        /\ WriteJob(j, which, "COMPLETED")
        /\ boot' = [boot EXCEPT !.left = @ \ {j},
                               !.job = IF which = "doc" THEN j ELSE None]
        /\ UNCHANGED <<identity, queue, order, inbox, caller, api, crashes>>

BootIdentity ==
    /\ api = "boot" /\ boot.job # None
    /\ SetSynced(order[boot.job].about)
    /\ boot' = [boot EXCEPT !.job = None]
    /\ UNCHANGED <<queue, order, rec, inbox, caller, api, crashes>>

\* The listeners are attached, the HTTP server starts.
BootAttach ==
    /\ api = "boot" /\ boot.left = {} /\ boot.job = None
    /\ api' = "up"
    /\ boot' = NoBoot
    /\ UNCHANGED <<identity, queue, order, rec, inbox, caller, crashes>>

----------------------------------------------------------------------------
ClientStep ==
    \/ \E c \in Caller, op \in Requests, async \in AsyncModes :
          \E payload \in (SUBSET Identity) \ {{}} : Request(c, op, async, payload)
    \/ \E c \in Caller, async \in AsyncModes : SyncAll(c, async)
    \/ \E c \in Caller, async \in AsyncModes, i \in Identity :
          LifecycleChanged(c, async, i)
    \/ \E i \in Identity : Edit(i) \/ Validate(i)

CheckStep(c) == \/ \E i \in Identity :
                     Check(c, i) \/ CheckNeverSynced(c, i) \/ CheckUndelete(c, i)
                \/ SoftDelete(c) \/ Undelete(c)

JobStep(c) == \/ CreateDoc(c) \/ WaitOk(c) \/ OkJob(c) \/ OkIdentity(c)
              \/ WaitError(c) \/ WaitTimeout(c)
              \/ ErrJob(c) \/ ErrIdentity(c)

SubmitStep(c) == \E i \in Identity, j \in Job : Submit(c, i, j)

DaemonStep == \E j \in Job : \/ DaemonStart(j) \/ DaemonFail(j)
                             \/ \E outcome \in Outcomes : DaemonReturn(j, outcome)

ListenerStep == \E a \in inbox : \/ OnActive(a)
                                 \/ OnFailed(a) \/ OnFailedIdentity(a)
                                 \/ OnCompletedVoid(a)
                                 \/ OnCompleted(a) \/ OnCompletedIdentity(a)

BootStep == Boot \/ (\E j \in Job : BootJob(j)) \/ BootIdentity \/ BootAttach

Next == \/ ClientStep
        \/ \E c \in Caller : CheckStep(c) \/ SubmitStep(c) \/ JobStep(c)
        \/ DaemonStep \/ ListenerStep
        \/ Crash \/ BootStep

Spec == Init /\ [][Next]_vars

\* The event loop runs what it has started to its end: a request that holds a
\* job, and the listeners.  The daemon, the clients, crashes and whoever starts
\* the API again owe nothing.
Fairness == (\A c \in Caller : WF_vars(JobStep(c))) /\ WF_vars(ListenerStep)

FairSpec == Spec /\ Fairness

----------------------------------------------------------------------------
(* What the pipeline guarantees.                                           *)

About(i, S, ops) == \E j \in Job : /\ order[j].about = i
                                   /\ order[j].op \in ops
                                   /\ queue[j] \in S

Recorded(j, s) == s \in {rec[j].stub, rec[j].doc}

\* A job is recorded as COMPLETED only when the daemon has returned from it,
\* whichever of the request, the listeners and the reconciliation writes it.
CompletedIsAnswered ==
    \A j \in Job : Recorded(j, "COMPLETED") => Returned(j)

\* An identity becomes SYNCED, or gets a lastBackendSync, only when the daemon
\* has returned from some job about that very identity.
SyncedIsAnswered ==
    \A i \in Identity \ Known : identity[i].state = "SYNCED" \/ identity[i].synced
                                 => About(i, Returns, Operations)

\* Without restarts that answer is moreover not an error: the request and the
\* listener of "completed" both look at the status, the reconciliation does not.
SyncedIsSuccess ==
    \A i \in Identity \ Known : identity[i].state = "SYNCED" \/ identity[i].synced
                                 => About(i, {"ok", "void"}, Operations)

\* An identity becomes deleted only when a deletion job about it returned, or by
\* the soft deletion of a request that found it without lastBackendSync.
DeletedIsAnswered ==
    [][\A i \in Identity :
         ~identity[i].deleted /\ identity'[i].deleted =>
           \/ About(i, Returns, {"delete"})
           \/ \E c \in Caller : caller[c].pc = "softDelete" /\ caller[c].at = i]_vars

\* A COMPLETED record is reopened or failed by nobody but the request that
\* submitted the job and gave up waiting for it.
CompletedStays ==
    [][\A j \in Job, which \in {"stub", "doc"} :
         rec[j][which] = "COMPLETED" /\ rec'[j][which] # "COMPLETED" =>
           /\ which = "doc"
           /\ \E c \in Caller : caller[c].pc = "errJob" /\ caller[c].job = j]_vars

\* When the API serves again, no job that had returned when it started is left
\* open, unless it has two records.
RestartSettles ==
    [][api = "boot" /\ api' = "up" =>
         \A j \in boot.all : rec[j].stub = None =>
                              rec[j].doc \in Settled \cup {None}]_vars

\* When the API has nothing left to do for a job whose document is settled, the
\* identity shows what the document says, if it has no other job and the job no
\* other document.  A soft deletion may have passed over it.
Busy(j) == \/ \E a \in inbox : a.job = j
           \/ \E c \in Caller : caller[c].job = j

QuietIdentityAgrees ==
    \A j \in Job :
      LET i         == identity[order[j].about]
          succeeded == rec[j].doc = "COMPLETED"
          isDelete  == order[j].op = "delete"
      IN  /\ rec[j].doc \in Settled /\ rec[j].stub = None /\ ~Busy(j)
          /\ \A k \in Job \ {j} : order[k].about # order[j].about
          => \/ i.state = "DONT_SYNC" /\ i.deleted
             \/ succeeded /\ ~isDelete /\ i.state = "SYNCED" /\ ~i.deleted /\ i.synced
             \/ ~succeeded /\ i.state = "ON_ERROR"

\* A request never waits for ever for a job, whatever the daemon does.
RequestsEnd ==
    \A c \in Caller : \A j \in Job : caller[c].job = j ~> caller[c].job # j

\* The success of an asynchronous job ends up in the jobs collection.
SuccessIsRecorded ==
    \A j \in Job :
      queue[j] = "ok" ~> [](Recorded(j, "COMPLETED"))

\* Why: whoever is about to write a success holds a job that has returned, and
\* knows the identity that the job was submitted for.
Holding == {"create", "wait", "okJob", "okIdentity", "errJob", "errIdentity"}

CallersHoldJobs ==
    \A c \in Caller : caller[c].pc \in Holding =>
      /\ caller[c].job \in Job /\ queue[caller[c].job] # "absent"
      /\ order[caller[c].job].about = caller[c].at
      /\ caller[c].pc \in {"okJob", "okIdentity"} =>
           queue[caller[c].job] \in {"ok", "void"}

CallersAreApart ==
    \A c, d \in Caller :
      /\ caller[c].pc \in Holding /\ caller[d].pc \in Holding
      /\ caller[c].job = caller[d].job
      => c = d

CreateIsFirst ==
    \A c \in Caller : caller[c].pc = "create" => rec[caller[c].job].doc = None

ListenersHoldJobs ==
    \A a \in inbox : /\ queue[a.job] # "absent"
                     /\ a.event = "completed" => Returned(a.job)

\* No listener runs before the API serves, so that none meets the optimistic
\* COMPLETED of the reconciliation.
ListenersAreUp == api # "up" => inbox = {}

ErrorIsNews ==
    \A a \in inbox : /\ a.event = "completed" /\ a.step = "job"
                     /\ queue[a.job] = "error"
                     => ~Recorded(a.job, "COMPLETED")

BootHoldsJobs == \A j \in boot.left \cup {boot.job} : j # None => Returned(j)

RecordsHaveJobs ==
    \A j \in Job : queue[j] = "absent" => rec[j].stub = None /\ rec[j].doc = None

IInv == /\ TypeOK
        /\ CallersHoldJobs /\ CallersAreApart /\ CreateIsFirst
        /\ ListenersHoldJobs /\ ListenersAreUp /\ ErrorIsNews
        /\ BootHoldsJobs /\ RecordsHaveJobs
        /\ CompletedIsAnswered /\ SyncedIsAnswered

\* The collection keeps the promise of JobLedger, with the more favourable of
\* the two records as the verdict.
LedgerPhase == [j \in Job |-> CASE Returned(j)           -> "returned"
                               [] queue[j] = "failed"   -> "failed"
                               [] queue[j] = "absent"   -> "absent"
                               [] OTHER                 -> "open"]

LedgerVerdict ==
    [j \in Job |-> LET records == {rec[j].stub, rec[j].doc}
                  IN  IF "COMPLETED" \in records THEN "success"
                      ELSE IF "FAILED" \in records THEN "failure"
                      ELSE IF records = {None} THEN "none"
                      ELSE "open"]

Ledger == INSTANCE JobLedger WITH phase <- LedgerPhase, verdict <- LedgerVerdict

LedgerSpec == Ledger!Spec
=============================================================================
