----------------------------- MODULE CronTasks -----------------------------
(* The tasks of configs/cron and the jobs that execute them                 *)
(* (cron.service.ts, cron-hooks.service.ts, load-cron-tasks.function.ts).   *)
(*                                                                          *)
(* A task passes through four places: a YAML file, the cache of the loader, *)
(* the list of the service, and the job of the scheduler. A request writes  *)
(* the file and calls handleCron, which brings the others up to date; the   *)
(* hourly tick calls it too. Files are read and written synchronously, so a *)
(* step is what happens between two awaits: the loader awaits the           *)
(* validation of each file, handleCron the loader.                          *)
EXTENDS Integers, FiniteSets

CONSTANTS
    None,
    Name,         \* the names of tasks; each has a file of its own, <name>.yml
    Shared,       \* a file that may define several tasks
    Defaults,     \* what defaults/cron defines in Shared
    Schedule, Handler, Option,
    Body,         \* the tasks that are asked to be created
    Caller,       \* the requests in progress at once
    Plans,        \* the mixes explored: kinds of requests, and how many of each thing
    MaxWrites     \* bound: writes to the files, in any plan

File == Name \cup {Shared}
Kinds == {"create", "update", "delete", "run"}
Task == [enabled : BOOLEAN, schedule : Schedule, handler : Handler, options : Option]
Tasks == [Name -> Task \cup {None}]
NoTask == [n \in Name |-> None]

(* The hourly tick and the start of the API are a caller of their own.      *)
Tick == "tick"
Process == Caller \cup {Tick}

ASSUME CronTasksAssumption ==
    /\ Shared \notin Name /\ Tick \notin Caller
    /\ None \notin Name \cup Task \cup Nat
    /\ None \notin [mtime : Nat, tasks : Tasks]
    /\ Defaults \in Tasks /\ Defaults # NoTask
    /\ Body \subseteq Task
    /\ MaxWrites \in Nat
    /\ Plans \subseteq [kinds : SUBSET Kinds, requests : Nat, writes : 0 .. MaxWrites,
                        restarts : Nat, named : SUBSET Name]

VARIABLES
    files,    \* the content of each file and when it was written
    cache,    \* __cronTaskCache and its mtime
    tasks,    \* cronTasks
    jobs,     \* the jobs of the SchedulerRegistry
    proc,     \* the calls in progress
    busy,     \* manualRunInProgress
    running,  \* the commands started by hand that have not ended
    serving,  \* whether the API answers requests
    plan, count

service == <<cache, tasks, jobs>>
manual == <<busy, running>>
vars == <<files, service, proc, manual, serving, plan, count>>

Content == [mtime : Nat, tasks : Tasks]
Job == [schedule : Schedule, handler : Handler]

Idle == [op |-> None, pc |-> "idle", name |-> None, previous |-> NoTask, todo |-> {},
         read |-> NoTask, got |-> NoTask, mtime |-> 0]

-----------------------------------------------------------------------------
(* Files. No two writes have the same time.                                 *)

Written(fs, f, ts) == [fs EXCEPT ![f] = [mtime |-> count.writes + 1, tasks |-> ts]]

(* onModuleInit, of the API or of a console command: the default file that  *)
(* is missing is copied.                                                    *)
Copied == IF files[Shared] = None THEN Written(files, Shared, Defaults) ELSE files

Write(fs) ==
    /\ files' = fs
    /\ IF fs = files THEN UNCHANGED count
       ELSE /\ count.writes < plan.writes
            /\ count' = [count EXCEPT !.writes = @ + 1]

Present(fs) == {f \in File : fs[f] # None}
Defines(fs, n) == {f \in Present(fs) : fs[f].tasks[n] # None}
Latest(fs) == CHOOSE m \in {fs[f].mtime : f \in Present(fs)} :
                \A f \in Present(fs) : fs[f].mtime <= m

-----------------------------------------------------------------------------
(* loadcronTasks.                                                           *)

Reload(fs) == Present(fs) # {} /\ (cache = None \/ cache.mtime # Latest(fs))

(* No file, or nothing newer than the cache.                                *)
Loaded(fs, r) ==
    [r EXCEPT !.pc = "install", !.previous = tasks,
              !.got = IF Present(fs) = {} THEN NoTask ELSE cache.tasks]

Opened(fs, r, f) ==
    [r EXCEPT !.pc = "read", !.previous = tasks, !.todo = Present(fs) \ {f},
              !.read = fs[f].tasks, !.mtime = Latest(fs)]

(* The beginning of a load, up to the validation of its first file.         *)
Begin(p, fs, r) ==
    IF Reload(fs) THEN \E f \in Present(fs) : proc' = [proc EXCEPT ![p] = Opened(fs, r, f)]
    ELSE proc' = [proc EXCEPT ![p] = Loaded(fs, r)]

Merge(got, read) == [n \in Name |-> IF read[n] # None THEN read[n] ELSE got[n]]
Duplicate(got, read) == \E n \in Name : got[n] # None /\ read[n] # None

(* The file just validated is added, the next one is read.                  *)
ReadNext(p) ==
    LET r == proc[p]
        got == Merge(r.got, r.read)
    IN  /\ r.pc = "read"
        /\ ~Duplicate(r.got, r.read)
        /\ \E f \in r.todo :
             /\ files[f] # None
             /\ proc' = [proc EXCEPT ![p].got = got, ![p].read = files[f].tasks,
                                     ![p].todo = @ \ {f}]
        /\ UNCHANGED <<files, service, manual, serving, plan, count>>

(* Mutant: the cache is stored with the time of the last write.             *)
LoadedAtTheEnd(p) ==
    LET r == proc[p]
    IN  /\ r.pc = "read" /\ r.todo = {}
        /\ ~Duplicate(r.got, r.read)
        /\ LET got == Merge(r.got, r.read)
           IN  /\ cache' = [mtime |-> count.writes, tasks |-> got]
               /\ proc' = [proc EXCEPT ![p] = [Idle EXCEPT !.op = r.op, !.pc = "install",
                             !.name = r.name, !.previous = r.previous, !.got = got]]
        /\ UNCHANGED <<files, tasks, jobs, manual, serving, plan, count>>

(* The last file is added: the cache holds what was read, with the time     *)
(* that was looked up before anything was read.                             *)
LoadEnds(p) ==
    LET r == proc[p]
    IN  /\ r.pc = "read" /\ r.todo = {}
        /\ ~Duplicate(r.got, r.read)
        /\ LET got == Merge(r.got, r.read)
           IN  /\ cache' = [mtime |-> r.mtime, tasks |-> got]
               /\ proc' = [proc EXCEPT ![p] = [Idle EXCEPT !.op = r.op, !.pc = "install",
                             !.name = r.name, !.previous = r.previous, !.got = got]]
        /\ UNCHANGED <<files, tasks, jobs, manual, serving, plan, count>>

(* Mutant: a load that fails has no result.                                 *)
LoadWithoutResult(p) ==
    LET r == proc[p]
    IN  /\ r.pc = "read"
        /\ Duplicate(r.got, r.read) \/ \E f \in r.todo : files[f] = None
        /\ cache' = None
        /\ proc' = [proc EXCEPT ![p] = [Idle EXCEPT !.op = r.op, !.pc = "install",
                      !.name = r.name, !.previous = r.previous, !.got = None]]
        /\ UNCHANGED <<files, tasks, jobs, manual, serving, plan, count>>

(* A file has gone since it was listed, or defines a task again: the cache  *)
(* is dropped, and what was read so far is the result. Of the file that     *)
(* defines a task again, the tasks before that one have been added.         *)
LoadFails(p) ==
    LET r == proc[p]
        kept == IF Duplicate(r.got, r.read)
                THEN {[n \in Name |-> IF n \in S /\ r.got[n] = None THEN r.read[n] ELSE r.got[n]] :
                        S \in SUBSET Name}
                ELSE {Merge(r.got, r.read)}
    IN  /\ r.pc = "read"
        /\ Duplicate(r.got, r.read) \/ \E f \in r.todo : files[f] = None
        /\ cache' = None
        /\ \E got \in kept :
             proc' = [proc EXCEPT ![p] = [Idle EXCEPT !.op = r.op, !.pc = "install",
                        !.name = r.name, !.previous = r.previous, !.got = got]]
        /\ UNCHANGED <<files, tasks, jobs, manual, serving, plan, count>>

(* refreshCronTasksFileCache.                                               *)
Install(p) ==
    /\ proc[p].pc = "install"
    /\ tasks' = proc[p].got
    /\ proc' = [proc EXCEPT ![p].pc = IF proc[p].op = "run" THEN "found" ELSE "apply",
                            ![p].got = NoTask]
    /\ UNCHANGED <<files, cache, jobs, manual, serving, plan, count>>

-----------------------------------------------------------------------------
(* handleCron, after the refresh. A job keeps the handler it was built      *)
(* with; its options are read when it fires.                                *)

Build(t) == [schedule |-> t.schedule, handler |-> t.handler]

OptionsOf(t) == IF t = None THEN None ELSE t.options

(* Mutant: the schedule is not compared.                                    *)
SyncedOptionsOnly(job, before, t) ==
    IF t = None THEN None
    ELSE IF ~t.enabled THEN None
    ELSE IF job = None THEN Build(t)
    ELSE IF OptionsOf(before) # t.options THEN Build(t) ELSE job

Synced(job, before, t) ==
    IF t = None THEN None
    ELSE IF ~t.enabled THEN None
    ELSE IF job = None THEN Build(t)
    ELSE IF OptionsOf(before) # t.options \/ job.schedule # t.schedule THEN Build(t) ELSE job

Apply(p) ==
    /\ proc[p].pc = "apply"
    /\ jobs' = [n \in Name |-> Synced(jobs[n], proc[p].previous[n], tasks[n])]
    /\ proc' = [proc EXCEPT ![p] = Idle]
    /\ serving' = TRUE
    /\ UNCHANGED <<files, cache, tasks, manual, plan, count>>

(* The hourly tick.                                                         *)
TickFires ==
    /\ proc[Tick] = Idle
    /\ Begin(Tick, files, [Idle EXCEPT !.op = "tick"])
    /\ UNCHANGED <<files, service, manual, serving, plan, count>>

-----------------------------------------------------------------------------
(* The requests: create, update with setEnabled, delete, runImmediately.    *)

Ask(c, op, n) ==
    /\ serving
    /\ proc[c] = Idle
    /\ op \in plan.kinds /\ n \in plan.named
    /\ count.requests < plan.requests
    /\ count' = [count EXCEPT !.requests = @ + 1]
    /\ IF op = "create" THEN tasks[n] = None ELSE tasks[n] # None
    /\ proc' = [proc EXCEPT ![c] = [Idle EXCEPT !.op = op, !.pc = op, !.name = n]]
    /\ UNCHANGED <<files, service, manual, serving, plan>>

End(c) == proc' = [proc EXCEPT ![c] = Idle]

(* createTaskInConfig: the task has a file of its own, a file that defines  *)
(* tasks is not overwritten.                                                *)
Taken(n) == files[n] # None /\ files[n].tasks # NoTask

Conflict(c) ==
    LET n == proc[c].name
    IN  /\ proc[c].pc = "create"
        /\ Taken(n)
        /\ End(c)
        /\ UNCHANGED <<files, service, manual, serving, plan, count>>

Create(c) ==
    LET n == proc[c].name
    IN  /\ proc[c].pc = "create"
        /\ ~Taken(n)
        /\ \E t \in Body :
             LET fs == Written(files, n, [NoTask EXCEPT ![n] = t])
             IN  Write(fs) /\ Begin(c, fs, proc[c])
        /\ UNCHANGED <<service, manual, serving, plan>>

(* updateTaskInConfig and deleteTaskFromConfig take the first file that     *)
(* defines the task, as it is on the disk.                                  *)
Missing(c) ==
    /\ proc[c].pc \in {"update", "delete"}
    /\ Defines(files, proc[c].name) = {}
    /\ End(c)
    /\ UNCHANGED <<files, service, manual, serving, plan, count>>

(* The body changes some of the fields.                                     *)
Changed(t) ==
    {[t EXCEPT !.enabled = ~@]} \cup {[t EXCEPT !.schedule = s] : s \in Schedule}
    \cup {[t EXCEPT !.handler = x[1], !.options = x[2]] : x \in Handler \X Option}

Update(c) ==
    LET n == proc[c].name
    IN  /\ proc[c].pc = "update"
        /\ \E f \in Defines(files, n) : \E t \in Changed(files[f].tasks[n]) :
             LET fs == Written(files, f, [files[f].tasks EXCEPT ![n] = t])
             IN  Write(fs) /\ Begin(c, fs, proc[c])
        /\ UNCHANGED <<service, manual, serving, plan>>

(* A file without tasks is removed.                                         *)
Delete(c) ==
    LET n == proc[c].name
    IN  /\ proc[c].pc = "delete"
        /\ \E f \in Defines(files, n) :
             LET left == [files[f].tasks EXCEPT ![n] = None]
                 fs == IF left = NoTask THEN [files EXCEPT ![f] = None]
                       ELSE Written(files, f, left)
             IN  Write(fs) /\ Begin(c, fs, proc[c])
        /\ UNCHANGED <<service, manual, serving, plan>>

(* runTaskNow.                                                              *)
Busy(c) ==
    /\ proc[c].pc = "run"
    /\ busy
    /\ End(c)
    /\ UNCHANGED <<files, service, manual, serving, plan, count>>

StartRun(c) ==
    /\ proc[c].pc \in {"run", "found"}
    /\ proc[c].pc = "run" => ~busy
    /\ tasks[proc[c].name] # None
    /\ busy' = TRUE
    /\ running' = running + 1
    /\ End(c)
    /\ UNCHANGED <<files, service, serving, plan, count>>

(* A task that is not in the list is looked for in the files.               *)
SearchRun(c) ==
    /\ proc[c].pc = "run"
    /\ ~busy
    /\ tasks[proc[c].name] = None
    /\ Begin(c, files, proc[c])
    /\ UNCHANGED <<files, service, manual, serving, plan, count>>

NotFound(c) ==
    /\ proc[c].pc = "found"
    /\ tasks[proc[c].name] = None
    /\ End(c)
    /\ UNCHANGED <<files, service, manual, serving, plan, count>>

RunEnds ==
    /\ running > 0
    /\ running' = running - 1
    /\ busy' = FALSE
    /\ UNCHANGED <<files, service, proc, serving, plan, count>>

-----------------------------------------------------------------------------
(* A command, started by a job, by a request or in a shell, boots a console *)
(* of the API.                                                              *)
Console ==
    /\ Copied # files
    /\ Write(Copied)
    /\ UNCHANGED <<service, proc, manual, serving, plan>>

Restart ==
    /\ count.restarts < plan.restarts
    /\ Copied # files => count.writes < plan.writes
    /\ files' = Copied
    /\ count' = [count EXCEPT !.restarts = @ + 1,
                              !.writes = IF Copied = files THEN @ ELSE @ + 1]
    /\ cache' = None /\ tasks' = NoTask /\ jobs' = [n \in Name |-> None]
    /\ busy' = FALSE /\ running' = 0
    /\ serving' = FALSE
    /\ proc' = [p \in Process |-> IF p = Tick THEN [Idle EXCEPT !.op = "tick", !.pc = "boot"]
                                  ELSE Idle]
    /\ UNCHANGED plan

Boot ==
    /\ proc[Tick].pc = "boot"
    /\ Begin(Tick, files, proc[Tick])
    /\ UNCHANGED <<files, service, manual, serving, plan, count>>

Init ==
    /\ plan \in Plans
    /\ files = [f \in File |-> IF f = Shared THEN [mtime |-> 0, tasks |-> Defaults] ELSE None]
    /\ cache = None /\ tasks = NoTask /\ jobs = [n \in Name |-> None]
    /\ proc = [p \in Process |-> IF p = Tick THEN [Idle EXCEPT !.op = "tick", !.pc = "boot"]
                                 ELSE Idle]
    /\ busy = FALSE /\ running = 0
    /\ serving = FALSE
    /\ count = [requests |-> 0, writes |-> 0, restarts |-> 0]

Load(p) == ReadNext(p) \/ LoadEnds(p) \/ LoadFails(p) \/ Install(p) \/ Apply(p)

Handle(c) ==
    \/ Conflict(c) \/ Create(c) \/ Missing(c) \/ Update(c) \/ Delete(c)
    \/ Busy(c) \/ StartRun(c) \/ SearchRun(c) \/ NotFound(c)

Work ==
    \/ \E p \in Process : Load(p)
    \/ \E c \in Caller : Handle(c) \/ \E op \in Kinds, n \in Name : Ask(c, op, n)
    \/ TickFires \/ RunEnds

Next == Work \/ Boot \/ Console \/ Restart

Spec == Init /\ [][Next]_vars

(* What awaits goes on, the tick fires every hour, a command ends.          *)
Fairness ==
    /\ \A p \in Process : WF_vars(Load(p))
    /\ \A c \in Caller : WF_vars(Handle(c))
    /\ WF_vars(Boot) /\ WF_vars(TickFires) /\ WF_vars(RunEnds)

FairSpec == Spec /\ Fairness

-----------------------------------------------------------------------------
Stored(n) == LET F == Defines(files, n)
             IN  IF F = {} THEN None ELSE files[CHOOSE f \in F : TRUE].tasks[n]

(* The variables keep their types; the API answers once the first tasks are *)
(* scheduled.                                                               *)
TypeOK ==
    /\ files \in [File -> Content \cup {None}]
    /\ cache \in Content \cup {None}
    /\ tasks \in Tasks
    /\ jobs \in [Name -> Job \cup {None}]
    /\ busy \in BOOLEAN /\ running \in Nat /\ serving \in BOOLEAN
    /\ plan \in Plans
    /\ count \in [requests : 0 .. plan.requests, writes : 0 .. plan.writes,
                  restarts : 0 .. plan.restarts]
    /\ proc \in [Process ->
                   [op : Kinds \cup {"tick", None}, name : Name \cup {None},
                    pc : Kinds \cup {"idle", "boot", "read", "install", "apply", "found"},
                    previous : Tasks, todo : SUBSET File, read : Tasks, got : Tasks,
                    mtime : Nat]]

(* No task is defined twice, which the loader takes for an error.           *)
Apart == \A n \in Name : Cardinality(Defines(files, n)) <= 1

(* Once nothing is written any more, each enabled task of the list has its  *)
(* job, with its schedule, and no other task has one: whatever calls of     *)
(* handleCron overlapped and whatever each of them had read (handleCron).   *)
JobsFollowTasks ==
    <>[]Apart =>
      <>[](\A n \in Name :
             IF tasks[n] = None THEN jobs[n] = None
             ELSE IF ~tasks[n].enabled THEN jobs[n] = None
             ELSE jobs[n] # None /\ jobs[n].schedule = tasks[n].schedule)

(* Once nothing is written any more, the list holds each task as its file   *)
(* defines it, although loads overlap and the cache decides on one date for *)
(* all the files (loadcronTasks).                                           *)
StoredIsListed ==
    <>[]Apart => <>[](\A n \in Name : Stored(n) # None => tasks[n] = Stored(n))

(* "Supprimer les jobs qui ne sont plus dans les taches desirees": a task   *)
(* that no file defines any more has no job for ever.                       *)
DeletedIsStopped == \A n \in Name : []<>(Stored(n) = None => jobs[n] = None)

=============================================================================
