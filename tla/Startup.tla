------------------------------ MODULE Startup ------------------------------
(* A process starts (AppModule): it copies the default tasks and executes   *)
(* the migrations (onModuleInit); the API then schedules the tasks          *)
(* (onApplicationBootstrap) and answers. A task that is executed starts a   *)
(* process of its own, a console command that goes through the same steps   *)
(* while the API works.                                                     *)
EXTENDS CronTasks

CONSTANTS
    Torn, Stamp, Server, Command, Mixes,
    Joint     \* the mixes explored together

VARIABLES lock, recorded, shipped, pc, read, saved, todo, pending, executed, forced, mix, left

migrations == <<lock, recorded, shipped, pc, read, saved, todo, pending, executed, forced, mix, left>>

M == INSTANCE Migrations

ASSUME StartupAssumption ==
    /\ M!MigrationsAssumption
    /\ Joint \subseteq Plans \X Mixes

(* The API works, whatever the commands do.                                 *)
Working == Work /\ UNCHANGED migrations

(* The first hook of the last module awaits the migrations.                 *)
Bootstrap == M!At(Server, "ready") /\ Boot /\ UNCHANGED migrations

(* A command is started by a task that is executed, or by hand.             *)
Launch(p) == M!Spawn(p) /\ (Console \/ (Copied = files /\ UNCHANGED vars))

Migrating ==
    /\ \/ \E p \in M!Process : M!Boot(p)
       \/ \E p \in Command : M!Operate(p)
       \/ M!LockLost
    /\ UNCHANGED vars

Restarting == Restart /\ M!Restart

SystemInit == Init /\ M!Init /\ <<plan, mix>> \in Joint

SystemNext ==
    \/ Working \/ Bootstrap \/ Migrating \/ Restarting
    \/ \E p \in Command : Launch(p)

all == <<vars, migrations>>

SystemSpec == SystemInit /\ [][SystemNext]_all

(* An up() ends, and so does what it awaits.                                *)
FairSystem ==
    /\ SystemSpec
    /\ \A p \in Process : WF_all(Load(p) /\ UNCHANGED migrations)
    /\ \A c \in Caller : WF_all(Handle(c) /\ UNCHANGED migrations)
    /\ WF_all(Bootstrap)
    /\ WF_all(TickFires /\ UNCHANGED migrations) /\ WF_all(RunEnds /\ UNCHANGED migrations)
    /\ WF_all(M!Boot(Server) /\ UNCHANGED vars)

-----------------------------------------------------------------------------
(* The variables of both keep their types.                                  *)
TypesOK == TypeOK /\ M!TypeOK

(* No migration is left out: whatever the processes that executed them at   *)
(* the same time, those that failed or were stopped, and whatever was left  *)
(* of the lock, what it names and what comes before has been executed       *)
(* (_executeMigrations, _writeMigrationLockFile).                           *)
NothingSkipped == M!NothingSkipped
=============================================================================
