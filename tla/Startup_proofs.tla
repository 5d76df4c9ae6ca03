--------------------------- MODULE Startup_proofs ---------------------------
(* The processes that start, work and migrate together still do what        *)
(* CronTasks and Migrations say of each, so what is proved of these holds   *)
(* of the system; and the types of the tasks, which rest on the times of    *)
(* their files.                                                             *)
EXTENDS Startup, FiniteSetTheorems, TLAPS

(* Migrations as its proofs see it.                                         *)
P == INSTANCE Migrations_proofs

LEMMA SameStart == M!Init => P!Init
  BY DEF M!Init, P!Init, M!Process, P!Process

LEMMA SameStep == [M!Next]_migrations => [P!Next]_(P!vars)
  BY DEF M!Next, P!Next, M!Process, P!Process, M!Boot, P!Boot, M!Operate, P!Operate,
         M!ReadLock, P!ReadLock, M!FindRecord, P!FindRecord, M!LastRecord, P!LastRecord,
         M!CreateLock, P!CreateLock, M!SyncRecord, P!SyncRecord, M!LoadFiles, P!LoadFiles,
         M!Pending, P!Pending, M!Later, P!Later, M!Continue, P!Continue, M!IsNext, P!IsNext,
         M!Up, P!Up, M!UpFails, P!UpFails, M!WriteLock, P!WriteLock,
         M!InsertRecord, P!InsertRecord, M!WriteFails, P!WriteFails,
         M!Spawn, P!Spawn, M!ForceRun, P!ForceRun,
         M!Writing, P!Writing, M!Cut, P!Cut, M!Exit, P!Exit, M!Installed, P!Installed,
         M!Restart, P!Restart, M!LockLost, P!LockLost, M!At, P!At, M!Go, P!Go,
         M!Forget, P!Forget, M!Leave, P!Leave, M!Spend, P!Spend,
         M!known, P!known, M!local, P!local, M!past, P!past, P!vars, migrations

(* A step of the system is a step of each component, or leaves it alone.    *)
LEMMA StepOfBoth == [SystemNext]_all => [Next]_vars /\ [M!Next]_migrations
  <1> SUFFICES ASSUME [SystemNext]_all PROVE [Next]_vars /\ [M!Next]_migrations
    OBVIOUS
  <1>1. CASE Working
    BY <1>1 DEF Working, Next
  <1>2. CASE Bootstrap
    BY <1>2 DEF Bootstrap, Next
  <1>3. CASE Migrating
    BY <1>3 DEF Migrating, M!Next
  <1>4. CASE Restarting
    BY <1>4 DEF Restarting, Next, M!Next
  <1>5. ASSUME NEW p \in Command, Launch(p) PROVE [Next]_vars /\ [M!Next]_migrations
    BY <1>5 DEF Launch, Next, M!Next
  <1>6. CASE UNCHANGED all
    BY <1>6 DEF all
  <1> QED BY <1>1, <1>2, <1>3, <1>4, <1>5, <1>6 DEF SystemNext

(* The cron tasks of a system that migrates do what CronTasks says: nothing *)
(* but the time of their start depends on the migrations.                   *)
THEOREM TasksAsAlone == SystemSpec => Spec
  <1>1. SystemInit => Init
    BY DEF SystemInit
  <1>2. [SystemNext]_all => [Next]_vars
    BY StepOfBoth
  <1> QED BY <1>1, <1>2, PTL DEF SystemSpec, Spec

(* No start of the API or of a command, no failure, crash or loss makes the *)
(* lock name a migration while an earlier one was left out                  *)
(* (_executeMigrations, _writeMigrationLockFile).                           *)
THEOREM SystemInOrder == SystemSpec => []NothingSkipped
  <1>1. SystemInit => P!Init
    BY SameStart DEF SystemInit
  <1>2. [SystemNext]_all => [P!Next]_(P!vars)
    BY StepOfBoth, SameStep
  <1>3. P!MigrationsAssumption
    BY StartupAssumption DEF StartupAssumption, M!MigrationsAssumption, P!MigrationsAssumption
  <1>4. P!Spec => []P!NothingSkipped
    BY <1>3, P!MigrationsInOrder
  <1>5. P!NothingSkipped => NothingSkipped
    BY DEF P!NothingSkipped, NothingSkipped, M!NothingSkipped, P!Covered, M!Covered
  <1> QED BY <1>1, <1>2, <1>4, <1>5, PTL DEF SystemSpec, P!Spec

-----------------------------------------------------------------------------
(* The types of the tasks.                                                  *)

(* A set of numbers that is bounded has a maximum: the least of the sets of *)
(* what is at or above one of its members, which are finite.                *)
LEMMA BoundedHasMax ==
    ASSUME NEW T \in SUBSET Nat, NEW n \in Nat, T # {}, \A t \in T : t <= n
    PROVE  \E m \in T : \A t \in T : t <= m
  <1> DEFINE Above(x) == {t \in T : x <= t}
             A == {Above(x) : x \in T}
  <1>1. IsFiniteSet(T)
    BY FS_BoundedSetOfNaturals
  <1>2. FiniteSubsetsOf(T) = SUBSET T
    BY <1>1, FS_FiniteSubsetsOfFinite
  <1>3. IsWellFoundedOn(StrictSubsetOrdering(T), SUBSET T)
    BY <1>2, FS_StrictSubsetOrderingWellFounded
  <1>4. A \subseteq SUBSET T /\ A # {}
    OBVIOUS
  <1> HIDE DEF A
  <1>5. PICK a \in A : \A b \in A : ~(<<b, a>> \in StrictSubsetOrdering(T))
    BY <1>3, <1>4, WFMin
  <1>6. PICK m \in T : a = Above(m)
    BY <1>5 DEF A
  <1>7. ASSUME NEW t \in T
        PROVE  t <= m
    <2>1. SUFFICES ASSUME m < t PROVE FALSE
      OBVIOUS
    <2>2. Above(t) \in A
      BY DEF A
    <2>3. Above(t) \subseteq Above(m) /\ m \in Above(m) /\ m \notin Above(t)
      <3>1. m \in Nat /\ t \in Nat /\ \A x \in T : x \in Nat
        OBVIOUS
      <3>2. \A x \in T : t <= x => m <= x
        BY <2>1, <3>1
      <3>3. m <= m /\ ~(t <= m)
        BY <2>1, <3>1
      <3> QED BY <3>2, <3>3
    <2>4. Above(t) # Above(m)
      BY <2>3
    <2>5. <<Above(t), Above(m)>> \in StrictSubsetOrdering(T)
      BY <2>3, <2>4 DEF StrictSubsetOrdering
    <2> QED BY <1>5, <1>6, <2>2, <2>5
  <1> QED BY <1>7

(* No file is newer than the last write, so the newest one has a time.      *)
Dated(fs) == \A f \in Present(fs) : fs[f].mtime <= count.writes

LEMMA LatestIs ==
    ASSUME NEW n \in Nat, NEW fs \in [File -> Content \cup {None}], Present(fs) # {},
           \A f \in Present(fs) : fs[f].mtime <= n
    PROVE  Latest(fs) \in Nat
  <1> DEFINE T == {fs[f].mtime : f \in Present(fs)}
  <1>1. T \in SUBSET Nat /\ T # {}
    BY DEF Present, Content
  <1>2. \A t \in T : t <= n
    OBVIOUS
  <1>3. \E m \in T : \A t \in T : t <= m
    <2> HIDE DEF T
    <2> QED BY <1>1, <1>2, BoundedHasMax
  <1>4. \E m \in T : \A f \in Present(fs) : fs[f].mtime <= m
    BY <1>3
  <1>5. Latest(fs) \in T
    BY <1>4 DEF Latest
  <1> QED BY <1>1, <1>5

Call == [op : Kinds \cup {"tick", None}, name : Name \cup {None},
         pc : Kinds \cup {"idle", "boot", "read", "install", "apply", "found"},
         previous : Tasks, todo : SUBSET File, read : Tasks, got : Tasks, mtime : Nat]

Counts == [requests : 0 .. plan.requests, writes : 0 .. plan.writes, restarts : 0 .. plan.restarts]

Numbers == plan.requests \in Nat /\ plan.writes \in Nat /\ plan.restarts \in Nat

TaskTypes == TypeOK /\ Dated(files)

LEMMA TaskConstants ==
    /\ Tick \in Process /\ Caller \subseteq Process /\ Idle \in Call /\ NoTask \in Tasks
    /\ None \notin Name /\ None \notin Task /\ None \notin Nat /\ None \notin Content
    /\ Shared \in File /\ Name \subseteq File /\ Defaults \in Tasks /\ Body \subseteq Task
  <1>1. NoTask \in Tasks
    BY DEF NoTask, Tasks
  <1>2. Idle \in Call
    BY <1>1 DEF Idle, Call
  <1> QED BY <1>1, <1>2, CronTasksAssumption DEF Process, File, Content

LEMMA Numbered ==
    ASSUME TypeOK
    PROVE  Numbers /\ count.writes \in Nat /\ plan.named \subseteq Name
  <1>1. /\ plan \in [kinds : SUBSET Kinds, requests : Nat, writes : 0 .. MaxWrites,
                     restarts : Nat, named : SUBSET Name]
        /\ MaxWrites \in Nat
    BY CronTasksAssumption DEF TypeOK
  <1>2. Numbers
    BY <1>1 DEF Numbers
  <1> QED BY <1>1, <1>2 DEF TypeOK, Numbers

(* A file that is written is newer than the writes before it.               *)
LEMMA WrittenTypes ==
    ASSUME TaskTypes, NEW f, NEW ts \in Tasks
    PROVE  /\ Written(files, f, ts) \in [File -> Content \cup {None}]
           /\ \A g \in Present(Written(files, f, ts)) :
                Written(files, f, ts)[g].mtime <= count.writes + 1
  <1>1. count.writes \in Nat /\ files \in [File -> Content \cup {None}]
    BY Numbered DEF TaskTypes, TypeOK
  <1> DEFINE w == [mtime |-> count.writes + 1, tasks |-> ts]
  <1>2. w \in Content /\ w.mtime = count.writes + 1
    BY <1>1 DEF Content
  <1>3. Written(files, f, ts) = [files EXCEPT ![f] = w]
    BY DEF Written
  <1> HIDE DEF w
  <1>4. ASSUME NEW g \in Present(files)
        PROVE  files[g].mtime <= count.writes + 1
    <2>1. files[g] \in Content
      BY <1>1 DEF Present
    <2>2. files[g].mtime <= count.writes
      BY DEF TaskTypes, Dated
    <2> QED BY <1>1, <2>1, <2>2 DEF Content
  <1>5. ASSUME NEW g \in Present([files EXCEPT ![f] = w])
        PROVE  [files EXCEPT ![f] = w][g].mtime <= count.writes + 1
    <2>1. CASE g = f
      BY <1>1, <1>2, <2>1 DEF Present
    <2>2. CASE g # f
      <3>1. g \in Present(files)
        BY <1>1, <2>2 DEF Present
      <3> QED BY <1>1, <1>4, <2>2, <3>1 DEF Present
    <2> QED BY <2>1, <2>2
  <1> QED BY <1>1, <1>2, <1>3, <1>5

(* A write keeps the types, if what it leaves is well typed.                *)
LEMMA WriteTypes ==
    ASSUME TaskTypes, NEW fs \in [File -> Content \cup {None}], Write(fs), plan' = plan,
           \A g \in Present(fs) : fs[g].mtime <= count.writes + 1
    PROVE  /\ files' = fs /\ Dated(files)' /\ count' \in Counts
  <1>1. Numbers /\ count.writes \in Nat /\ count \in Counts
    BY Numbered DEF TaskTypes, TypeOK, Counts
  <1>2. CASE fs = files
    BY <1>1, <1>2 DEF Write, TaskTypes, Dated, Present
  <1>3. CASE fs # files
    <2>1. count' = [count EXCEPT !.writes = count.writes + 1] /\ files' = fs /\ count.writes < plan.writes
      BY <1>3 DEF Write
    <2>2. count'.writes = count.writes + 1
      BY <1>1, <2>1 DEF Counts
    <2>3. count.writes + 1 \in 0 .. plan.writes
      BY <1>1, <2>1 DEF Numbers
    <2>4. count' \in Counts
      BY <1>1, <2>1, <2>3 DEF Counts
    <2> QED BY <2>1, <2>2, <2>4 DEF Dated, Present
  <1> QED BY <1>2, <1>3

(* The beginning of a load.                                                 *)
LEMMA BeginTypes ==
    ASSUME TaskTypes, NEW p \in Process, NEW fs \in [File -> Content \cup {None}], NEW r \in Call,
           \A g \in Present(fs) : fs[g].mtime <= count.writes + 1, Begin(p, fs, r)
    PROVE  proc' \in [Process -> Call]
  <1>0. proc \in [Process -> Call] /\ tasks \in Tasks /\ cache \in Content \cup {None} /\ count.writes + 1 \in Nat
    BY Numbered DEF TaskTypes, TypeOK, Call
  <1>1. CASE Reload(fs)
    <2>1. PICK f \in Present(fs) : proc' = [proc EXCEPT ![p] = Opened(fs, r, f)]
      BY <1>1 DEF Begin
    <2>2. Latest(fs) \in Nat
      BY <1>0, LatestIs, <1>1 DEF Reload
    <2>3. fs[f].tasks \in Tasks /\ Present(fs) \ {f} \in SUBSET File
      BY DEF Present, Content
    <2>4. Opened(fs, r, f) \in Call
      BY <1>0, <2>2, <2>3 DEF Opened, Call
    <2> QED BY <1>0, <2>1, <2>4
  <1>2. CASE ~Reload(fs)
    <2>1. proc' = [proc EXCEPT ![p] = Loaded(fs, r)]
      BY <1>2 DEF Begin
    <2>2. (IF Present(fs) = {} THEN NoTask ELSE cache.tasks) \in Tasks
      BY <1>0, <1>2, TaskConstants DEF Reload, Content
    <2>3. Loaded(fs, r) \in Call
      BY <1>0, <2>2 DEF Loaded, Call
    <2> QED BY <1>0, <2>1, <2>3
  <1> QED BY <1>1, <1>2

(* What the tasks' variables hold, apart from the calls and the files.      *)
Rest ==
    /\ cache \in Content \cup {None}
    /\ tasks \in Tasks
    /\ jobs \in [Name -> Job \cup {None}]
    /\ busy \in BOOLEAN /\ running \in Nat /\ serving \in BOOLEAN
    /\ plan \in Plans

LEMMA TypesSplit ==
    TaskTypes <=> /\ files \in [File -> Content \cup {None}] /\ Dated(files)
                  /\ Rest /\ count \in Counts /\ proc \in [Process -> Call]
  BY DEF TaskTypes, TypeOK, Rest, Counts, Call

(* Merging what was read keeps it a list of tasks.                          *)
LEMMA MergeTypes ==
    ASSUME NEW got \in Tasks, NEW new \in Tasks
    PROVE  Merge(got, new) \in Tasks
  BY DEF Merge, Tasks

LEMMA LoadTypes ==
    ASSUME TaskTypes, NEW p \in Process, Load(p)
    PROVE  TaskTypes'
  <1>1. /\ files \in [File -> Content \cup {None}] /\ Dated(files)
        /\ Rest /\ count \in Counts /\ proc \in [Process -> Call]
    BY TypesSplit
  <1>2. proc[p] \in Call /\ proc[p].got \in Tasks /\ proc[p].read \in Tasks /\ proc[p].mtime \in Nat
        /\ proc[p].previous \in Tasks
    BY <1>1 DEF Call
  <1>3. ASSUME NEW got \in Tasks
        PROVE  [Idle EXCEPT !.op = proc[p].op, !.pc = "install", !.name = proc[p].name,
                            !.previous = proc[p].previous, !.got = got] \in Call
    BY <1>2, TaskConstants DEF Call
  <1>4. Merge(proc[p].got, proc[p].read) \in Tasks
    BY <1>2, MergeTypes
  <1> SUFFICES /\ files' \in [File -> Content \cup {None}] /\ Dated(files)'
               /\ Rest' /\ count' \in Counts' /\ proc' \in [Process -> Call]
    BY DEF TaskTypes, TypeOK, Rest, Counts, Call
  <1>5. CASE ReadNext(p)
    <2> DEFINE got == Merge(proc[p].got, proc[p].read)
    <2>1. PICK f \in proc[p].todo :
             /\ files[f] # None
             /\ proc' = [proc EXCEPT ![p].got = got, ![p].read = files[f].tasks, ![p].todo = @ \ {f}]
      BY <1>5 DEF ReadNext
    <2> DEFINE r == [proc[p] EXCEPT !.got = got, !.read = files[f].tasks, !.todo = @ \ {f}]
    <2>2. proc' = [proc EXCEPT ![p] = r]
      BY <1>1, <2>1
    <2>3. f \in File
      BY <1>2, <2>1 DEF Call
    <2>4. files[f].tasks \in Tasks
      BY <1>1, <2>1, <2>3 DEF Content
    <2>5. r \in Call
      BY <1>2, <1>4, <2>4 DEF Call
    <2> HIDE DEF r
    <2> QED BY <1>1, <1>5, <2>2, <2>5
        DEF ReadNext, service, manual, Rest, Counts, Dated, Present
  <1>6. CASE LoadEnds(p)
    <2>1. PICK got \in Tasks :
             /\ cache' = [mtime |-> proc[p].mtime, tasks |-> got]
             /\ proc' = [proc EXCEPT ![p] = [Idle EXCEPT !.op = proc[p].op, !.pc = "install",
                            !.name = proc[p].name, !.previous = proc[p].previous, !.got = got]]
      BY <1>4, <1>6 DEF LoadEnds
    <2>2. cache' \in Content
      BY <1>2, <2>1 DEF Content
    <2>3. proc' \in [Process -> Call]
      BY <1>1, <1>3, <2>1
    <2> QED BY <1>1, <1>6, <2>2, <2>3 DEF LoadEnds, manual, Rest, Counts, Dated, Present
  <1>7. CASE LoadFails(p)
    <2>1. ASSUME NEW S \in SUBSET Name
          PROVE  [n \in Name |-> IF n \in S /\ proc[p].got[n] = None THEN proc[p].read[n]
                                 ELSE proc[p].got[n]] \in Tasks
      BY <1>2 DEF Tasks
    <2>2. PICK got \in Tasks :
             proc' = [proc EXCEPT ![p] = [Idle EXCEPT !.op = proc[p].op, !.pc = "install",
                        !.name = proc[p].name, !.previous = proc[p].previous, !.got = got]]
      BY <1>4, <1>7, <2>1 DEF LoadFails
    <2>3. proc' \in [Process -> Call]
      BY <1>1, <1>3, <2>2
    <2> QED BY <1>1, <1>7, <2>3 DEF LoadFails, manual, Rest, Counts, Dated, Present
  <1>8. CASE Install(p)
    <2> DEFINE r == [proc[p] EXCEPT !.pc = IF proc[p].op = "run" THEN "found" ELSE "apply",
                                    !.got = NoTask]
    <2>1. proc' = [proc EXCEPT ![p] = r]
      BY <1>1, <1>8 DEF Install
    <2>2. r \in Call
      BY <1>2, TaskConstants DEF Call
    <2> HIDE DEF r
    <2> QED BY <1>1, <1>2, <1>8, <2>1, <2>2 DEF Install, manual, Rest, Counts, Dated, Present
  <1>9. CASE Apply(p)
    <2>1. ASSUME NEW n \in Name
          PROVE  Synced(jobs[n], proc[p].previous[n], tasks[n]) \in Job \cup {None}
      <3>1. jobs[n] \in Job \cup {None} /\ tasks[n] \in Task \cup {None}
        BY <1>1 DEF Rest, Tasks
      <3>2. tasks[n] # None => Build(tasks[n]) \in Job
        BY <3>1 DEF Build, Job, Task
      <3> QED BY <3>1, <3>2 DEF Synced
    <2>2. jobs' \in [Name -> Job \cup {None}]
      BY <1>9, <2>1 DEF Apply
    <2>3. proc' \in [Process -> Call] /\ serving' = TRUE
      BY <1>1, <1>9, TaskConstants DEF Apply
    <2> QED BY <1>1, <1>9, <2>2, <2>3 DEF Apply, manual, Rest, Counts, Dated, Present
  <1> QED BY <1>5, <1>6, <1>7, <1>8, <1>9 DEF Load

LEMMA EndTypes ==
    ASSUME TaskTypes, NEW c \in Process, End(c)
    PROVE  proc' \in [Process -> Call]
  BY TypesSplit, TaskConstants DEF End

LEMMA ChangedTypes ==
    ASSUME NEW x \in Task, NEW y \in Changed(x)
    PROVE  y \in Task
  <1>1. [x EXCEPT !.enabled = ~@] \in Task
    BY DEF Task
  <1>2. \/ y = [x EXCEPT !.enabled = ~@]
        \/ y \in {[x EXCEPT !.schedule = s] : s \in Schedule}
        \/ y \in {[x EXCEPT !.handler = z[1], !.options = z[2]] : z \in Handler \X Option}
    BY DEF Changed
  <1> QED BY <1>1, <1>2 DEF Task

(* The requests.                                                            *)
LEMMA HandleTypes ==
    ASSUME TaskTypes, NEW c \in Caller, Handle(c)
    PROVE  TaskTypes'
  <1>1. /\ files \in [File -> Content \cup {None}] /\ Dated(files)
        /\ Rest /\ count \in Counts /\ proc \in [Process -> Call]
    BY TypesSplit
  <1>2. c \in Process /\ proc[c] \in Call
    BY <1>1, TaskConstants
  <1>a. \A g \in Present(files) : files[g].mtime <= count.writes + 1
    <2>1. count.writes \in Nat
      BY Numbered DEF TaskTypes
    <2> QED BY <1>1, <2>1 DEF Dated, Present, Content
  <1> SUFFICES /\ files' \in [File -> Content \cup {None}] /\ Dated(files)'
               /\ Rest' /\ count' \in Counts' /\ proc' \in [Process -> Call]
    BY DEF TaskTypes, TypeOK, Rest, Counts, Call
  <1>b. ASSUME NEW fs \in [File -> Content \cup {None}], Write(fs), Begin(c, fs, proc[c]),
               \A g \in Present(fs) : fs[g].mtime <= count.writes + 1,
               UNCHANGED <<service, manual, serving, plan>>
        PROVE  /\ files' \in [File -> Content \cup {None}] /\ Dated(files)'
               /\ Rest' /\ count' \in Counts' /\ proc' \in [Process -> Call]
    <2>1. files' = fs /\ Dated(files)' /\ count' \in Counts
      BY <1>b, WriteTypes
    <2>2. proc' \in [Process -> Call]
      BY <1>2, <1>b, BeginTypes
    <2> QED BY <1>1, <1>b, <2>1, <2>2 DEF service, manual, Rest, Counts
  <1>3. CASE Conflict(c) \/ Missing(c) \/ Busy(c) \/ NotFound(c)
    <2>1. End(c) /\ UNCHANGED <<files, service, manual, serving, plan, count>>
      BY <1>3 DEF Conflict, Missing, Busy, NotFound
    <2>2. proc' \in [Process -> Call]
      BY <1>2, <2>1, EndTypes
    <2> QED BY <1>1, <2>1, <2>2 DEF service, manual, Rest, Counts, Dated, Present
  <1>4. CASE StartRun(c)
    <2>1. proc' \in [Process -> Call]
      BY <1>2, <1>4, EndTypes DEF StartRun
    <2>2. running' \in Nat /\ busy' = TRUE
      BY <1>1, <1>4 DEF StartRun, Rest
    <2> QED BY <1>1, <1>4, <2>1, <2>2 DEF StartRun, service, Rest, Counts, Dated, Present
  <1>5. CASE SearchRun(c)
    <2>1. proc' \in [Process -> Call]
      BY <1>1, <1>2, <1>5, <1>a, BeginTypes DEF SearchRun
    <2> QED BY <1>1, <1>5, <2>1 DEF SearchRun, service, manual, Rest, Counts, Dated, Present
  <1>6. CASE Create(c)
    <2>1. PICK t \in Body : LET fs == Written(files, proc[c].name, [NoTask EXCEPT ![proc[c].name] = t])
                            IN  Write(fs) /\ Begin(c, fs, proc[c])
      BY <1>6 DEF Create
    <2>2. [NoTask EXCEPT ![proc[c].name] = t] \in Tasks
      BY TaskConstants DEF Tasks
    <2> QED BY <1>6, <1>b, <2>1, <2>2, WrittenTypes DEF Create
  <1>7. CASE Update(c)
    <2>0. PICK f \in Defines(files, proc[c].name) : \E t \in Changed(files[f].tasks[proc[c].name]) :
             LET fs == Written(files, f, [files[f].tasks EXCEPT ![proc[c].name] = t])
             IN  Write(fs) /\ Begin(c, fs, proc[c])
      BY <1>7 DEF Update
    <2>1. PICK t \in Changed(files[f].tasks[proc[c].name]) :
             LET fs == Written(files, f, [files[f].tasks EXCEPT ![proc[c].name] = t])
             IN  Write(fs) /\ Begin(c, fs, proc[c])
      BY <2>0
    <2>2. [files[f].tasks EXCEPT ![proc[c].name] = t] \in Tasks
      <3>1. files[f].tasks \in Tasks /\ files[f].tasks[proc[c].name] # None
        BY <1>1 DEF Defines, Present, Content
      <3>2. CASE proc[c].name \in Name
        <4>1. files[f].tasks[proc[c].name] \in Task
          BY <3>1, <3>2 DEF Tasks
        <4>2. t \in Task
          BY <2>1, <4>1, ChangedTypes
        <4> QED BY <3>1, <4>2 DEF Tasks
      <3>3. CASE proc[c].name \notin Name
        BY <3>1, <3>3 DEF Tasks
      <3> QED BY <3>2, <3>3
    <2> QED BY <1>7, <1>b, <2>1, <2>2, WrittenTypes DEF Update
  <1>8. CASE Delete(c)
    <2>1. PICK f \in Defines(files, proc[c].name) :
             LET rest == [files[f].tasks EXCEPT ![proc[c].name] = None]
                 fs == IF rest = NoTask THEN [files EXCEPT ![f] = None]
                       ELSE Written(files, f, rest)
             IN  Write(fs) /\ Begin(c, fs, proc[c])
      BY <1>8 DEF Delete
    <2>2. [files[f].tasks EXCEPT ![proc[c].name] = None] \in Tasks
      <3>1. files[f].tasks \in Tasks
        BY <1>1 DEF Defines, Present, Content
      <3> QED BY <3>1 DEF Tasks
    <2>3. /\ [files EXCEPT ![f] = None] \in [File -> Content \cup {None}]
          /\ \A g \in Present([files EXCEPT ![f] = None]) :
               [files EXCEPT ![f] = None][g].mtime <= count.writes + 1
      BY <1>1, <1>a DEF Present
    <2> QED BY <1>8, <1>b, <2>1, <2>2, <2>3, WrittenTypes DEF Delete
  <1> QED BY <1>3, <1>4, <1>5, <1>6, <1>7, <1>8 DEF Handle

LEMMA CopiedTypes ==
    ASSUME TaskTypes
    PROVE  /\ Copied \in [File -> Content \cup {None}]
           /\ \A g \in Present(Copied) : Copied[g].mtime <= count.writes + 1
  <1>1. count.writes \in Nat /\ files \in [File -> Content \cup {None}] /\ Dated(files)
    BY Numbered DEF TaskTypes, TypeOK
  <1>2. \A g \in Present(files) : files[g].mtime <= count.writes + 1
    BY <1>1 DEF Dated, Present, Content
  <1> QED BY <1>1, <1>2, TaskConstants, WrittenTypes DEF Copied

LEMMA TaskTypesNext ==
    ASSUME TaskTypes, [Next]_vars
    PROVE  TaskTypes'
  <1>1. /\ files \in [File -> Content \cup {None}] /\ Dated(files)
        /\ Rest /\ count \in Counts /\ proc \in [Process -> Call]
    BY TypesSplit
  <1>2. Numbers /\ count.writes \in Nat /\ plan.named \subseteq Name
    BY Numbered DEF TaskTypes
  <1>a. \A g \in Present(files) : files[g].mtime <= count.writes + 1
    BY <1>1, <1>2 DEF Dated, Present, Content
  <1>s. /\ files' \in [File -> Content \cup {None}] /\ Dated(files)'
        /\ Rest' /\ count' \in Counts' /\ proc' \in [Process -> Call]
        => TaskTypes'
    BY DEF TaskTypes, TypeOK, Rest, Counts, Call
  <1>3. ASSUME NEW p \in Process, Load(p)
        PROVE  TaskTypes'
    BY <1>3, LoadTypes
  <1>4. ASSUME NEW c \in Caller, Handle(c)
        PROVE  TaskTypes'
    BY <1>4, HandleTypes
  <1>5. ASSUME NEW c \in Caller, NEW op \in Kinds, NEW n \in Name, Ask(c, op, n)
        PROVE  TaskTypes'
    <2>1. [Idle EXCEPT !.op = op, !.pc = op, !.name = n] \in Call
      BY TaskConstants DEF Call
    <2>2. proc' \in [Process -> Call]
      BY <1>1, <1>5, <2>1 DEF Ask
    <2>3. /\ count' = [count EXCEPT !.requests = @ + 1] /\ count.requests < plan.requests
          /\ UNCHANGED <<files, service, manual, serving, plan>>
      BY <1>5 DEF Ask
    <2>4. count' \in Counts /\ count'.writes = count.writes
      BY <1>1, <1>2, <2>3 DEF Counts, Numbers
    <2> QED BY <1>1, <1>s, <2>2, <2>3, <2>4 DEF service, manual, Rest, Counts, Dated, Present
  <1>6. CASE TickFires
    <2>1. [Idle EXCEPT !.op = "tick"] \in Call
      BY TaskConstants DEF Call
    <2>2. proc' \in [Process -> Call]
      BY <1>1, <1>6, <1>a, <2>1, BeginTypes, TaskConstants DEF TickFires
    <2> QED BY <1>1, <1>6, <1>s, <2>2 DEF TickFires, service, manual, Rest, Counts, Dated, Present
  <1>7. CASE RunEnds
    <2>1. running' \in Nat
      BY <1>1, <1>7 DEF RunEnds, Rest
    <2> QED BY <1>1, <1>7, <1>s, <2>1 DEF RunEnds, service, Rest, Counts, Dated, Present
  <1>8. CASE Boot
    <2>1. proc[Tick] \in Call
      BY <1>1, TaskConstants
    <2>2. proc' \in [Process -> Call]
      BY <1>1, <1>8, <1>a, <2>1, BeginTypes, TaskConstants DEF Boot
    <2> QED BY <1>1, <1>8, <1>s, <2>2 DEF Boot, service, manual, Rest, Counts, Dated, Present
  <1>9. CASE Console
    <2>1. files' = Copied /\ Dated(files)' /\ count' \in Counts
      BY <1>9, CopiedTypes, WriteTypes DEF Console
    <2> QED BY <1>1, <1>9, <1>s, <2>1, CopiedTypes DEF Console, service, manual, Rest, Counts
  <1>10. CASE Restart
    <2>1. Copied \in [File -> Content \cup {None}] /\ files' = Copied /\ plan' = plan
      BY <1>10, CopiedTypes DEF Restart
    <2> DEFINE w == IF Copied = files THEN count.writes ELSE count.writes + 1
    <2>2. w \in 0 .. plan.writes /\ \A g \in Present(Copied) : Copied[g].mtime <= w
      BY <1>1, <1>2, <1>10, CopiedTypes DEF Restart, Numbers, Counts, Dated
    <2>3. count' = [count EXCEPT !.restarts = count.restarts + 1, !.writes = w]
      BY <1>10 DEF Restart
    <2> HIDE DEF w
    <2>a. count.restarts + 1 \in 0 .. plan.restarts
      BY <1>1, <1>2, <1>10 DEF Restart, Counts, Numbers
    <2>4. count' \in Counts /\ count'.writes = w
      BY <1>1, <2>a, <2>2, <2>3 DEF Counts
    <2>5. Dated(files)'
      BY <2>1, <2>2, <2>4 DEF Dated, Present
    <2>6. [Idle EXCEPT !.op = "tick", !.pc = "boot"] \in Call
      BY TaskConstants DEF Call
    <2>7. proc' \in [Process -> Call]
      BY <1>10, <2>6, TaskConstants DEF Restart
    <2>8. Rest'
      BY <1>1, <1>10, TaskConstants DEF Restart, Rest
    <2> QED BY <1>s, <2>1, <2>4, <2>5, <2>7, <2>8 DEF Counts
  <1>11. CASE UNCHANGED vars
    BY <1>1, <1>11, <1>s DEF vars, service, manual, Rest, Counts, Dated, Present
  <1> QED BY <1>3, <1>4, <1>5, <1>6, <1>7, <1>8, <1>9, <1>10, <1>11 DEF Next, Work

LEMMA TaskTypesInit ==
    ASSUME Init
    PROVE  TaskTypes
  <1>1. plan \in Plans /\ count = [requests |-> 0, writes |-> 0, restarts |-> 0]
    BY DEF Init
  <1>2. plan.requests \in Nat /\ plan.writes \in Nat /\ plan.restarts \in Nat
    BY <1>1, CronTasksAssumption
  <1>3. count \in Counts
    BY <1>1, <1>2 DEF Counts
  <1>4. files \in [File -> Content \cup {None}]
    BY TaskConstants DEF Init, Content
  <1>5. Dated(files)
    BY <1>1, TaskConstants DEF Init, Dated, Present
  <1>6. [Idle EXCEPT !.op = "tick", !.pc = "boot"] \in Call
    BY TaskConstants DEF Call
  <1>7. proc \in [Process -> Call]
    BY <1>6, TaskConstants DEF Init
  <1>8. Rest
    BY TaskConstants DEF Init, Rest
  <1> QED BY <1>3, <1>4, <1>5, <1>7, <1>8, TypesSplit

(* Every variable of the tasks keeps its type: what a load takes for the    *)
(* time of the newest file is one, for any names, as no file is newer than  *)
(* the last write (loadcronTasks, handleCron).                              *)
THEOREM TasksTyped == Spec => []TypeOK
  <1>1. Init => TaskTypes
    BY TaskTypesInit
  <1>2. TaskTypes /\ [Next]_vars => TaskTypes'
    BY TaskTypesNext
  <1>3. TaskTypes => TypeOK
    BY DEF TaskTypes
  <1> QED BY <1>1, <1>2, <1>3, PTL DEF Spec

(* The variables of the tasks and of the migrations keep their types when   *)
(* the API and its commands start, migrate and work together.               *)
THEOREM SystemTyped == SystemSpec => []TypesOK
  <1>1. SystemInit => P!Init
    BY SameStart DEF SystemInit
  <1>2. [SystemNext]_all => [P!Next]_(P!vars)
    BY StepOfBoth, SameStep
  <1>3. P!MigrationsAssumption
    BY StartupAssumption DEF StartupAssumption, M!MigrationsAssumption, P!MigrationsAssumption
  <1>4. P!Init => P!TypeOK
    BY <1>3, P!InitSound DEF P!IInv
  <1>5. P!TypeOK /\ [P!Next]_(P!vars) => P!TypeOK'
    BY <1>3, P!TypeStep
  <1>6. P!TypeOK => M!TypeOK
    BY DEF P!TypeOK, M!TypeOK, P!Process, M!Process, P!Value, M!Value, P!Write, M!Write
  <1>7. SystemSpec => Spec
    BY TasksAsAlone
  <1>8. TypeOK /\ M!TypeOK => TypesOK
    BY DEF TypesOK
  <1> QED BY <1>1, <1>2, <1>4, <1>5, <1>6, <1>7, <1>8, TasksTyped, PTL DEF SystemSpec
=============================================================================
