-------------------------- MODULE BackendJobs_proofs --------------------------
(***************************************************************************)
(* Theorems about BackendJobs, for every number of identities, jobs and     *)
(* request handlers, every mix of operations and any number of restarts.    *)
(***************************************************************************)
EXTENDS BackendJobs, TLAPS

----------------------------------------------------------------------------
(* The building blocks of the actions keep the types.                      *)

LEMMA CallerTypes ==
    ASSUME caller \in [Caller -> CallerState], BackendJobsAssumption,
           NEW c \in Caller
    PROVE  /\ \A pc \in Control : Goto(c, pc) => caller' \in [Caller -> CallerState]
           /\ Answer(c) => caller' \in [Caller -> CallerState]
           /\ NextIdentity(c) => caller' \in [Caller -> CallerState]
           /\ Throw(c) => caller' \in [Caller -> CallerState]
<1>1. IdleCaller \in CallerState
  BY DEF IdleCaller, CallerState, Control, Operations, IdentityState
<1>2. \A pc \in Control : Goto(c, pc) => caller' \in [Caller -> CallerState]
  BY DEF Goto, CallerState
<1>3. Answer(c) => caller' \in [Caller -> CallerState]
  BY <1>1 DEF Answer
<1>4. NextIdentity(c) => caller' \in [Caller -> CallerState]
  BY <1>3 DEF NextIdentity, CallerState, Control
<1>5. Throw(c) => caller' \in [Caller -> CallerState]
  BY <1>3, <1>4 DEF Throw
<1> QED
  BY <1>2, <1>3, <1>4, <1>5

LEMMA AcceptTypes ==
    ASSUME caller \in [Caller -> CallerState], NEW c \in Caller
    PROVE  \A op \in Operations, async \in BOOLEAN, pc \in Control :
             \A left, todo \in SUBSET Identity :
               Accept(c, op, async, pc, left, todo)
                 => caller' \in [Caller -> CallerState]
<1>1. IdleCaller \in CallerState
  BY DEF IdleCaller, CallerState, Control, Operations, IdentityState
<1> SUFFICES ASSUME NEW op \in Operations, NEW async \in BOOLEAN, NEW pc \in Control,
                    NEW left \in SUBSET Identity, NEW todo \in SUBSET Identity,
                    Accept(c, op, async, pc, left, todo)
             PROVE  caller' \in [Caller -> CallerState]
  OBVIOUS
<1>2. [IdleCaller EXCEPT !.pc = pc, !.op = op, !.async = async,
                         !.left = left, !.todo = todo] \in CallerState
  BY <1>1 DEF CallerState
<1> QED
  BY <1>2 DEF Accept

LEMMA PickTypes ==
    ASSUME NEW j, NEW S
    PROVE  Pick(j, S) \in {"stub", "doc", "none"}
BY DEF Pick

LEMMA WriteJobTypes ==
    ASSUME rec \in [Job -> Record], NEW j, NEW which \in {"stub", "doc", "none"},
           NEW s \in JobState, WriteJob(j, which, s)
    PROVE  rec' \in [Job -> Record]
<1>1. CASE which = "none"
  BY <1>1 DEF WriteJob, Record
<1>2. CASE which = "stub"
  BY <1>2 DEF WriteJob, Record
<1>3. CASE which = "doc"
  BY <1>3 DEF WriteJob, Record
<1> QED
  BY <1>1, <1>2, <1>3

LEMMA IdentityTypes ==
    ASSUME identity \in [Identity -> IdentityDoc], NEW i, NEW s \in IdentityState,
           NEW d \in BOOLEAN, NEW y \in BOOLEAN
    PROVE  /\ SetState(i, s) => identity' \in [Identity -> IdentityDoc]
           /\ WriteIdentity(i, s, d, y) => identity' \in [Identity -> IdentityDoc]
           /\ SetStateAndFlag(i, s, d) => identity' \in [Identity -> IdentityDoc]
           /\ SetSynced(i) => identity' \in [Identity -> IdentityDoc]
<1>1. "SYNCED" \in IdentityState
  BY DEF IdentityState
<1>2. SetState(i, s) => identity' \in [Identity -> IdentityDoc]
  BY DEF SetState, IdentityDoc
<1>3. WriteIdentity(i, s, d, y) => identity' \in [Identity -> IdentityDoc]
  <2>1. [state |-> s, deleted |-> d, synced |-> y] \in IdentityDoc
    BY DEF IdentityDoc
  <2> QED
    BY <2>1 DEF WriteIdentity
<1>4. SetStateAndFlag(i, s, d) => identity' \in [Identity -> IdentityDoc]
  <2>1. CASE i \in Identity
    BY <2>1 DEF SetStateAndFlag, IdentityDoc
  <2>2. CASE i \notin Identity
    BY <2>2 DEF SetStateAndFlag, IdentityDoc
  <2> QED
    BY <2>1, <2>2
<1>5. SetSynced(i) => identity' \in [Identity -> IdentityDoc]
  <2>1. CASE i \in Identity
    BY <1>1, <2>1 DEF SetSynced, IdentityDoc
  <2>2. CASE i \notin Identity
    BY <2>2 DEF SetSynced, IdentityDoc
  <2> QED
    BY <2>1, <2>2
<1> QED
  BY <1>2, <1>3, <1>4, <1>5

----------------------------------------------------------------------------
(* Type correctness, one step per action.                                  *)

LEMMA InitTypes == BackendJobsAssumption /\ Init => TypeOK
BY DEF BackendJobsAssumption, Init, TypeOK, IdentityDoc, IdentityState, QueueState,
       Returns, Order, Operations, Record, JobState, CallerState, IdleCaller,
       Control, NoBoot

LEMMA ClientTypes ==
    ASSUME BackendJobsAssumption, TypeOK, ClientStep
    PROVE  TypeOK'
<1>0. \A c \in Caller, op \in Operations, async \in BOOLEAN, pc \in Control :
        \A left, todo \in SUBSET Identity :
          Accept(c, op, async, pc, left, todo) => caller' \in [Caller -> CallerState]
  BY AcceptTypes DEF TypeOK
<1>1. ASSUME NEW c \in Caller, NEW op \in Requests, NEW async \in AsyncModes,
             NEW payload \in (SUBSET Identity) \ {{}},
             Request(c, op, async, payload)
      PROVE  TypeOK'
  <2>1. caller' \in [Caller -> CallerState]
    <3>1. op \in Operations /\ async \in BOOLEAN /\ "check" \in Control
      BY DEF BackendJobsAssumption, Control
    <3>2. payload \in SUBSET Identity /\ {} \in SUBSET Identity
      OBVIOUS
    <3>3. Accept(c, op, async, "check", payload, {})
      BY <1>1 DEF Request
    <3> QED
      BY <1>0, <3>1, <3>2, <3>3
  <2> QED
    BY <1>1, <2>1 DEF TypeOK, Request
<1>2. ASSUME NEW c \in Caller, NEW async \in AsyncModes, SyncAll(c, async)
      PROVE  TypeOK'
  <2> DEFINE found == {i \in Identity : identity[i].state = "TO_SYNC"}
  <2>1. Accept(c, "syncAll", async, "run", {}, found)
    BY <1>2 DEF SyncAll
  <2>2. caller' \in [Caller -> CallerState]
    <3>1. "syncAll" \in Operations /\ async \in BOOLEAN /\ "run" \in Control
      BY DEF BackendJobsAssumption, Operations, Control
    <3>2. found \subseteq Identity /\ {} \subseteq Identity
      BY DEF found
    <3> HIDE DEF found
    <3> QED
      BY <1>0, <2>1, <3>1, <3>2
  <2> QED
    BY <1>2, <2>2 DEF TypeOK, SyncAll
<1>3. ASSUME NEW c \in Caller, NEW async \in AsyncModes, NEW i \in Identity,
             LifecycleChanged(c, async, i)
      PROVE  TypeOK'
  <2>1. caller' \in [Caller -> CallerState]
    <3>1. PICK op \in {"lifecycle", "mutation"} : Accept(c, op, async, "run", {}, {i})
      BY <1>3 DEF LifecycleChanged
    <3>2. op \in Operations /\ async \in BOOLEAN /\ "run" \in Control
      BY DEF BackendJobsAssumption, Operations, Control
    <3> QED
      BY <1>0, <3>1, <3>2
  <2>2. identity' \in [Identity -> IdentityDoc]
    BY <1>3, IdentityTypes DEF TypeOK, LifecycleChanged, IdentityState
  <2> QED
    BY <1>3, <2>1, <2>2 DEF TypeOK, LifecycleChanged
<1>4. ASSUME NEW i \in Identity, Edit(i) \/ Validate(i)
      PROVE  TypeOK'
  <2>1. identity' \in [Identity -> IdentityDoc]
    BY <1>4, IdentityTypes DEF TypeOK, Edit, Validate, IdentityState
  <2> QED
    BY <1>4, <2>1 DEF TypeOK, Edit, Validate
<1> QED
  BY <1>1, <1>2, <1>3, <1>4 DEF ClientStep

LEMMA CheckTypes ==
    ASSUME BackendJobsAssumption, TypeOK, NEW c \in Caller, CheckStep(c)
    PROVE  TypeOK'
<1>1. ASSUME NEW i \in Identity, Check(c, i)
      PROVE  TypeOK'
  <2>1. caller' \in [Caller -> CallerState]
    <3>1. CASE Admissible(caller[c].op, i)
      BY <1>1, <3>1 DEF TypeOK, Check, CallerState, Control
    <3>2. CASE ~Admissible(caller[c].op, i)
      BY <1>1, <3>2, CallerTypes DEF TypeOK, Check
    <3> QED
      BY <3>1, <3>2
  <2> QED
    BY <1>1, <2>1 DEF TypeOK, Check
<1>2. ASSUME NEW i \in Identity, CheckNeverSynced(c, i)
      PROVE  TypeOK'
  <2>1. caller' \in [Caller -> CallerState]
    <3>1. caller[c] \in CallerState
      BY DEF TypeOK
    <3>2. [caller[c] EXCEPT !.pc = "softDelete", !.at = i] \in CallerState
      BY <3>1 DEF CallerState, Control
    <3> QED
      BY <1>2, <3>2 DEF TypeOK, CheckNeverSynced
  <2> QED
    BY <1>2, <2>1 DEF TypeOK, CheckNeverSynced
<1>3. ASSUME NEW i \in Identity, CheckUndelete(c, i)
      PROVE  TypeOK'
  <2>1. caller' \in [Caller -> CallerState]
    BY <1>3 DEF TypeOK, CheckUndelete, CallerState, Control, IdentityState
  <2> QED
    BY <1>3, <2>1 DEF TypeOK, CheckUndelete
<1>4. CASE SoftDelete(c)
  <2>1. caller' \in [Caller -> CallerState]
    BY <1>4, CallerTypes DEF TypeOK, SoftDelete
  <2>2. identity' \in [Identity -> IdentityDoc]
    BY <1>4, IdentityTypes DEF TypeOK, SoftDelete, IdentityState
  <2> QED
    BY <1>4, <2>1, <2>2 DEF TypeOK, SoftDelete
<1>5. CASE Undelete(c)
  <2>1. caller' \in [Caller -> CallerState]
    BY <1>5, CallerTypes DEF TypeOK, Undelete, Control
  <2>2. caller[c].target \in IdentityState
    BY DEF TypeOK, CallerState, IdentityState
  <2>3. identity' \in [Identity -> IdentityDoc]
    BY <1>5, <2>2, IdentityTypes DEF TypeOK, Undelete
  <2> QED
    BY <1>5, <2>1, <2>3 DEF TypeOK, Undelete
<1> QED
  BY <1>1, <1>2, <1>3, <1>4, <1>5 DEF CheckStep

LEMMA SubmitTypes ==
    ASSUME BackendJobsAssumption, TypeOK, NEW c \in Caller, SubmitStep(c)
    PROVE  TypeOK'
<1>1. PICK i \in Identity, j \in Job : Submit(c, i, j)
  BY DEF SubmitStep
<1>2. caller' \in [Caller -> CallerState]
  BY <1>1 DEF TypeOK, Submit, CallerState, Control
<1>3. order' \in [Job -> Order] /\ queue' \in [Job -> QueueState]
  BY <1>1 DEF TypeOK, Submit, CallerState, Order, QueueState
<1> QED
  BY <1>1, <1>2, <1>3 DEF TypeOK, Submit

LEMMA JobStepTypes ==
    ASSUME BackendJobsAssumption, TypeOK, NEW c \in Caller, JobStep(c)
    PROVE  TypeOK'
<1>1. CASE CreateDoc(c)
  <2>1. rec' \in [Job -> Record]
    BY <1>1, WriteJobTypes DEF TypeOK, CreateDoc, JobState
  <2>2. caller' \in [Caller -> CallerState]
    BY <1>1, CallerTypes DEF TypeOK, CreateDoc, Control
  <2> QED
    BY <1>1, <2>1, <2>2 DEF TypeOK, CreateDoc
<1>2. CASE WaitOk(c) \/ WaitError(c) \/ WaitTimeout(c)
  <2>1. caller' \in [Caller -> CallerState]
    BY <1>2, CallerTypes DEF TypeOK, WaitOk, WaitError, WaitTimeout, Control
  <2> QED
    BY <1>2, <2>1 DEF TypeOK, WaitOk, WaitError, WaitTimeout
<1>3. CASE OkJob(c) \/ ErrJob(c)
  <2>1. rec' \in [Job -> Record]
    BY <1>3, WriteJobTypes DEF TypeOK, OkJob, ErrJob, JobState
  <2>2. caller' \in [Caller -> CallerState]
    BY <1>3, CallerTypes DEF TypeOK, OkJob, ErrJob, Control
  <2> QED
    BY <1>3, <2>1, <2>2 DEF TypeOK, OkJob, ErrJob
<1>4. CASE OkIdentity(c) \/ ErrIdentity(c)
  <2>1. TargetState(caller[c].op) \in IdentityState
    BY DEF TargetState, IdentityState
  <2>2. identity' \in [Identity -> IdentityDoc]
    <3>1. CASE OkIdentity(c)
      <4>1. (caller[c].op = "delete") \in BOOLEAN
        OBVIOUS
      <4> QED
        BY <2>1, <3>1, <4>1, IdentityTypes DEF TypeOK, OkIdentity
    <3>2. CASE ErrIdentity(c)
      BY <3>2, IdentityTypes DEF TypeOK, ErrIdentity, IdentityState
    <3> QED
      BY <1>4, <3>1, <3>2
  <2>3. caller' \in [Caller -> CallerState]
    BY <1>4, CallerTypes DEF TypeOK, OkIdentity, ErrIdentity
  <2> QED
    BY <1>4, <2>2, <2>3 DEF TypeOK, OkIdentity, ErrIdentity
<1> QED
  BY <1>1, <1>2, <1>3, <1>4 DEF JobStep

LEMMA DaemonTypes ==
    ASSUME BackendJobsAssumption, TypeOK, DaemonStep
    PROVE  TypeOK'
<1>1. PICK j \in Job : \/ DaemonStart(j) \/ DaemonFail(j)
                       \/ \E outcome \in Outcomes : DaemonReturn(j, outcome)
  BY DEF DaemonStep
<1>2. inbox' \subseteq Activation
  BY <1>1 DEF TypeOK, DaemonStart, DaemonFail, DaemonReturn, Publish, Activation
<1>3. queue' \in [Job -> QueueState]
  BY <1>1 DEF TypeOK, DaemonStart, DaemonFail, DaemonReturn, QueueState, Returns,
              BackendJobsAssumption
<1> QED
  BY <1>1, <1>2, <1>3 DEF TypeOK, DaemonStart, DaemonFail, DaemonReturn

LEMMA ListenerTypes ==
    ASSUME TypeOK, ListenerStep
    PROVE  TypeOK'
<1>1. PICK a \in inbox : \/ OnActive(a)
                         \/ OnFailed(a) \/ OnFailedIdentity(a)
                         \/ OnCompletedVoid(a)
                         \/ OnCompleted(a) \/ OnCompletedIdentity(a)
  BY DEF ListenerStep
<1>2. a \in Activation
  BY DEF TypeOK
<1>3. inbox' \subseteq Activation
  BY <1>1, <1>2
  DEF TypeOK, OnActive, OnFailed, OnFailedIdentity, OnCompletedVoid, OnCompleted,
      OnCompletedIdentity, Done, ThenIdentity, Activation
<1>4. CASE OnActive(a) \/ OnFailed(a) \/ OnCompleted(a)
  <2>1. rec' \in [Job -> Record]
    BY <1>4, WriteJobTypes, PickTypes
    DEF TypeOK, OnActive, OnFailed, OnCompleted, JobState
  <2> QED
    BY <1>3, <1>4, <2>1 DEF TypeOK, OnActive, OnFailed, OnCompleted
<1>5. CASE OnFailedIdentity(a) \/ OnCompletedIdentity(a)
  <2>1. identity' \in [Identity -> IdentityDoc]
    <3>1. CASE OnFailedIdentity(a)
      BY <3>1, IdentityTypes DEF TypeOK, OnFailedIdentity, IdentityState
    <3>2. CASE OnCompletedIdentity(a)
      BY <3>2, IdentityTypes DEF TypeOK, OnCompletedIdentity, IdentityState
    <3> QED
      BY <1>5, <3>1, <3>2
  <2> QED
    BY <1>3, <1>5, <2>1 DEF TypeOK, OnFailedIdentity, OnCompletedIdentity
<1>6. CASE OnCompletedVoid(a)
  BY <1>3, <1>6 DEF TypeOK, OnCompletedVoid
<1> QED
  BY <1>1, <1>4, <1>5, <1>6

LEMMA RestartTypes ==
    ASSUME BackendJobsAssumption, TypeOK, Crash \/ BootStep
    PROVE  TypeOK'
<1>1. CASE Crash
  BY <1>1 DEF TypeOK, Crash, BackendJobsAssumption, NoBoot, CallerState, IdleCaller,
              Control, Operations, IdentityState
<1>2. CASE Boot
  BY <1>2 DEF TypeOK, Boot
<1>3. ASSUME NEW j \in Job, BootJob(j)
      PROVE  TypeOK'
  <2>1. rec' \in [Job -> Record]
    BY <1>3, WriteJobTypes, PickTypes DEF TypeOK, BootJob, JobState
  <2> QED
    BY <1>3, <2>1 DEF TypeOK, BootJob
<1>4. CASE BootIdentity
  <2>1. identity' \in [Identity -> IdentityDoc]
    BY <1>4, IdentityTypes DEF TypeOK, BootIdentity, IdentityState
  <2> QED
    BY <1>4, <2>1 DEF TypeOK, BootIdentity
<1>5. CASE BootAttach
  BY <1>5 DEF TypeOK, BootAttach, NoBoot
<1> QED
  BY <1>1, <1>2, <1>3, <1>4, <1>5 DEF BootStep

LEMMA StepTypes == BackendJobsAssumption /\ TypeOK /\ [Next]_vars => TypeOK'
<1> SUFFICES ASSUME BackendJobsAssumption, TypeOK, [Next]_vars
             PROVE  TypeOK'
  OBVIOUS
<1>1. CASE UNCHANGED vars
  BY <1>1 DEF TypeOK, vars
<1>2. CASE Next
  BY <1>2, ClientTypes, CheckTypes, SubmitTypes, JobStepTypes, DaemonTypes,
     ListenerTypes, RestartTypes DEF Next
<1> QED
  BY <1>1, <1>2

\* The variables keep their types in every behaviour.
THEOREM TypeCorrect == Spec => []TypeOK
<1>1. Init => TypeOK
  BY BackendJobsAssumption, InitTypes
<1>2. TypeOK /\ [Next]_vars => TypeOK'
  BY BackendJobsAssumption, StepTypes
<1> QED
  BY <1>1, <1>2, PTL DEF Spec

----------------------------------------------------------------------------
(* What a job was submitted for, and what it returned, never changes.       *)

LEMMA Monotone ==
    ASSUME BackendJobsAssumption, TypeOK, Next, NEW j \in Job, queue[j] # "absent"
    PROVE  /\ order'[j] = order[j]
           /\ queue'[j] # "absent"
           /\ Returned(j) => queue'[j] = queue[j]
<1>1. CASE ClientStep
  BY <1>1 DEF ClientStep, Request, SyncAll, LifecycleChanged, Edit, Validate
<1>2. ASSUME NEW c \in Caller, CheckStep(c) \/ JobStep(c)
      PROVE  UNCHANGED <<order, queue>>
  BY <1>2 DEF CheckStep, Check, CheckNeverSynced, CheckUndelete, SoftDelete, Undelete,
              JobStep, CreateDoc, WaitOk, OkJob, OkIdentity, WaitError, WaitTimeout,
              ErrJob, ErrIdentity
<1>3. ASSUME NEW c \in Caller, SubmitStep(c)
      PROVE  order'[j] = order[j] /\ queue'[j] = queue[j]
  BY <1>3 DEF SubmitStep, Submit, TypeOK
<1>4. CASE DaemonStep
  <2>1. PICK k \in Job : \/ DaemonStart(k) \/ DaemonFail(k)
                         \/ \E outcome \in Outcomes : DaemonReturn(k, outcome)
    BY <1>4 DEF DaemonStep
  <2>2. order' = order
    BY <2>1 DEF DaemonStart, DaemonFail, DaemonReturn
  <2>3. CASE k # j
    BY <2>1, <2>2, <2>3 DEF DaemonStart, DaemonFail, DaemonReturn, TypeOK
  <2>4. CASE k = j
    BY <2>1, <2>2, <2>4
    DEF DaemonStart, DaemonFail, DaemonReturn, TypeOK, Returned, Returns,
        BackendJobsAssumption
  <2> QED
    BY <2>3, <2>4
<1>5. CASE ListenerStep
  BY <1>5 DEF ListenerStep, OnActive, OnFailed, OnFailedIdentity, OnCompletedVoid,
              OnCompleted, OnCompletedIdentity
<1>6. CASE Crash \/ BootStep
  BY <1>6 DEF Crash, BootStep, Boot, BootJob, BootIdentity, BootAttach
<1> QED
  BY <1>1, <1>2, <1>3, <1>4, <1>5, <1>6 DEF Next

LEMMA ReturnedStays ==
    ASSUME BackendJobsAssumption, TypeOK, Next, NEW j \in Job, Returned(j)
    PROVE  Returned(j)' /\ order'[j] = order[j] /\ queue[j] # "absent"
<1>1. queue[j] # "absent"
  BY DEF Returned, Returns
<1> QED
  BY <1>1, Monotone DEF Returned

LEMMA AboutStays ==
    ASSUME BackendJobsAssumption, TypeOK, Next, NEW i \in Identity,
           About(i, Returns, Operations)
    PROVE  About(i, Returns, Operations)'
<1>1. PICK j \in Job : order[j].about = i /\ order[j].op \in Operations /\ Returned(j)
  BY DEF About, Returned
<1> QED
  BY <1>1, ReturnedStays DEF About, Returned

----------------------------------------------------------------------------
(* The inductive invariant, one lemma per conjunct.                        *)

\* How a request handler moves: it starts to hold a job by submitting it, and
\* goes on to write a success only from a returned one.
LEMMA CallerMoves ==
    ASSUME BackendJobsAssumption, TypeOK, Next, NEW c \in Caller
    PROVE  \/ caller'[c] = caller[c]
           \/ caller'[c].pc \notin Holding
           \/ \E i \in Identity, j \in Job : Submit(c, i, j)
           \/ /\ caller[c].pc \in Holding
              /\ caller'[c].job = caller[c].job /\ caller'[c].at = caller[c].at
              /\ caller'[c].op = caller[c].op
              /\ caller'[c].pc # "create"
              /\ caller'[c].pc \in {"okJob", "okIdentity"} =>
                   \/ queue[caller[c].job] \in {"ok", "void"}
                   \/ caller[c].pc \in {"okJob", "okIdentity"}
<1> USE DEF TypeOK
<1>1. CASE ClientStep
  <2>1. ASSUME NEW d \in Caller, NEW op, NEW async, NEW pc \in {"check", "run"},
               NEW left, NEW todo, Accept(d, op, async, pc, left, todo)
        PROVE  caller'[c] = caller[c] \/ caller'[c].pc \notin Holding
    <3>1. CASE d = c
      BY <2>1, <3>1 DEF Accept, IdleCaller, Holding
    <3>2. CASE d # c
      BY <2>1, <3>2 DEF Accept
    <3> QED
      BY <3>1, <3>2
  <2>2. ASSUME NEW d \in Caller, NEW op \in Requests, NEW async \in AsyncModes,
               NEW payload \in (SUBSET Identity) \ {{}}, Request(d, op, async, payload)
        PROVE  caller'[c] = caller[c] \/ caller'[c].pc \notin Holding
    BY <2>1, <2>2 DEF Request
  <2>3. ASSUME NEW d \in Caller, NEW async \in AsyncModes, SyncAll(d, async)
        PROVE  caller'[c] = caller[c] \/ caller'[c].pc \notin Holding
    BY <2>1, <2>3 DEF SyncAll
  <2>4. ASSUME NEW d \in Caller, NEW async \in AsyncModes, NEW i \in Identity,
               LifecycleChanged(d, async, i)
        PROVE  caller'[c] = caller[c] \/ caller'[c].pc \notin Holding
    BY <2>1, <2>4 DEF LifecycleChanged
  <2>5. ASSUME NEW i \in Identity, Edit(i) \/ Validate(i)
        PROVE  caller'[c] = caller[c]
    BY <2>5 DEF Edit, Validate
  <2> QED
    BY <1>1, <2>2, <2>3, <2>4, <2>5 DEF ClientStep
<1>2. ASSUME NEW d \in Caller, d # c, CheckStep(d) \/ SubmitStep(d) \/ JobStep(d)
      PROVE  caller'[c] = caller[c]
  <2>1. CASE CheckStep(d)
    BY <1>2, <2>1
    DEF CheckStep, Check, CheckNeverSynced, CheckUndelete, SoftDelete, Undelete, Goto,
        Answer
  <2>2. CASE SubmitStep(d)
    BY <1>2, <2>2 DEF SubmitStep, Submit
  <2>3. CASE JobStep(d)
    BY <1>2, <2>3
    DEF JobStep, CreateDoc, WaitOk, OkJob, OkIdentity, WaitError, WaitTimeout, ErrJob,
        ErrIdentity, Goto, Answer, NextIdentity, Throw
  <2> QED
    BY <1>2, <2>1, <2>2, <2>3
<1>3. CASE CheckStep(c)
  <2>1. Answer(c) => caller'[c].pc \notin Holding
    BY DEF Answer, IdleCaller, Holding
  <2>2. ASSUME NEW i \in Identity, Check(c, i)
        PROVE  caller'[c].pc \notin Holding
    <3>1. CASE Admissible(caller[c].op, i)
      BY <2>2, <3>1 DEF Check, CallerState, Holding
    <3>2. CASE ~Admissible(caller[c].op, i)
      BY <2>1, <2>2, <3>2 DEF Check
    <3> QED
      BY <3>1, <3>2
  <2>3. ASSUME NEW i \in Identity, CheckNeverSynced(c, i) \/ CheckUndelete(c, i)
        PROVE  caller'[c].pc \notin Holding
    BY <2>3 DEF CheckNeverSynced, CheckUndelete, CallerState, Holding
  <2>4. Goto(c, "check") => caller'[c].pc \notin Holding
    BY DEF Goto, CallerState, Holding
  <2>5. CASE SoftDelete(c) \/ Undelete(c)
    BY <2>1, <2>4, <2>5 DEF SoftDelete, Undelete
  <2> QED
    BY <1>3, <2>2, <2>3, <2>5 DEF CheckStep
<1>4. CASE SubmitStep(c)
  BY <1>4 DEF SubmitStep
<1>5. CASE JobStep(c)
  <2>1. NextIdentity(c) => caller'[c].pc \notin Holding
    BY DEF NextIdentity, Answer, IdleCaller, Holding, CallerState
  <2>2. Throw(c) => caller'[c].pc \notin Holding
    BY <2>1 DEF Throw, Answer, IdleCaller, Holding
  <2>3. ASSUME NEW pc \in Control, Goto(c, pc)
        PROVE  /\ caller'[c].pc = pc
               /\ caller'[c].job = caller[c].job /\ caller'[c].at = caller[c].at
               /\ caller'[c].op = caller[c].op
    BY <2>3 DEF Goto, CallerState
  <2>4. CASE CreateDoc(c)
    BY <2>1, <2>3, <2>4 DEF CreateDoc, Control, Holding
  <2>5. CASE WaitOk(c)
    BY <2>3, <2>5 DEF WaitOk, Control, Holding
  <2>6. CASE WaitError(c) \/ WaitTimeout(c)
    BY <2>3, <2>6 DEF WaitError, WaitTimeout, Control, Holding
  <2>7. CASE OkJob(c) \/ ErrJob(c)
    BY <2>1, <2>2, <2>3, <2>7 DEF OkJob, ErrJob, Control, Holding
  <2>8. CASE OkIdentity(c) \/ ErrIdentity(c)
    BY <2>1, <2>2, <2>8 DEF OkIdentity, ErrIdentity
  <2> QED
    BY <1>5, <2>4, <2>5, <2>6, <2>7, <2>8 DEF JobStep
<1>6. CASE DaemonStep \/ ListenerStep \/ BootStep
  BY <1>6 DEF DaemonStep, DaemonStart, DaemonReturn, DaemonFail,
              ListenerStep, OnActive, OnFailed, OnFailedIdentity, OnCompletedVoid,
              OnCompleted, OnCompletedIdentity,
              BootStep, Boot, BootJob, BootIdentity, BootAttach
<1>7. CASE Crash
  BY <1>7 DEF Crash, IdleCaller, Holding
<1> QED
  BY <1>1, <1>2, <1>3, <1>4, <1>5, <1>6, <1>7 DEF Next

LEMMA CallersKeepJobs ==
    ASSUME BackendJobsAssumption, IInv, Next
    PROVE  CallersHoldJobs'
<1> SUFFICES ASSUME NEW c \in Caller, caller'[c].pc \in Holding
             PROVE  /\ caller'[c].job \in Job /\ queue'[caller'[c].job] # "absent"
                    /\ order'[caller'[c].job].about = caller'[c].at
                    /\ caller'[c].pc \in {"okJob", "okIdentity"} =>
                         queue'[caller'[c].job] \in {"ok", "void"}
  BY DEF CallersHoldJobs
<1> USE DEF IInv
<1>1. ASSUME NEW i \in Identity, NEW j \in Job, Submit(c, i, j)
      PROVE  /\ caller'[c].job = j /\ queue'[j] = "waiting" /\ order'[j].about = i
             /\ caller'[c].at = i /\ caller'[c].pc = "create"
  BY <1>1 DEF Submit, TypeOK, CallerState
<1>2. CASE \/ caller'[c] = caller[c]
           \/ /\ caller[c].pc \in Holding
              /\ caller'[c].job = caller[c].job /\ caller'[c].at = caller[c].at
              /\ caller'[c].pc # "create"
              /\ caller'[c].pc \in {"okJob", "okIdentity"} =>
                   \/ queue[caller[c].job] \in {"ok", "void"}
                   \/ caller[c].pc \in {"okJob", "okIdentity"}
  <2>1. /\ caller[c].pc \in Holding
        /\ caller'[c].job = caller[c].job /\ caller'[c].at = caller[c].at
    BY <1>2
  <2>2. /\ caller[c].job \in Job /\ queue[caller[c].job] # "absent"
        /\ order[caller[c].job].about = caller[c].at
        /\ caller'[c].pc \in {"okJob", "okIdentity"} =>
             queue[caller[c].job] \in {"ok", "void"}
    BY <1>2, <2>1 DEF CallersHoldJobs
  <2> QED
    <3>1. /\ order'[caller[c].job] = order[caller[c].job]
          /\ queue'[caller[c].job] # "absent"
          /\ Returned(caller[c].job) => queue'[caller[c].job] = queue[caller[c].job]
      BY <2>2, Monotone
    <3> QED
      BY <2>1, <2>2, <3>1 DEF Returned, Returns
<1> QED
  BY <1>1, <1>2, CallerMoves

\* Ids are fresh: two request handlers never hold the same job.
LEMMA CallersStayApart ==
    ASSUME BackendJobsAssumption, IInv, Next
    PROVE  CallersAreApart'
<1> SUFFICES ASSUME NEW c \in Caller, NEW d \in Caller, c # d,
                    caller'[c].pc \in Holding, caller'[d].pc \in Holding,
                    caller'[c].job = caller'[d].job
             PROVE  FALSE
  BY DEF CallersAreApart
<1> USE DEF IInv
<1>1. ASSUME NEW e \in Caller, caller'[e].pc \in Holding
      PROVE  \/ \E i \in Identity, j \in Job : Submit(e, i, j)
             \/ caller[e].pc \in Holding /\ caller'[e].job = caller[e].job
  BY <1>1, CallerMoves
<1>2. ASSUME NEW e \in Caller, NEW f \in Caller, e # f,
             NEW i \in Identity, NEW j \in Job, Submit(e, i, j)
      PROVE  caller'[e].job = j /\ queue[j] = "absent" /\ caller'[f] = caller[f]
  BY <1>2 DEF Submit, TypeOK, CallerState
<1>3. ASSUME NEW e \in Caller, NEW f \in Caller, e # f,
             NEW i \in Identity, NEW j \in Job, Submit(e, i, j),
             caller'[f].pc \in Holding
      PROVE  caller'[f].job # caller'[e].job
  <2>1. caller[f].pc \in Holding /\ caller'[f].job = caller[f].job
    BY <1>2, <1>3
  <2> QED
    BY <1>2, <1>3, <2>1 DEF CallersHoldJobs
<1>4. /\ caller[c].pc \in Holding /\ caller'[c].job = caller[c].job
      /\ caller[d].pc \in Holding /\ caller'[d].job = caller[d].job
  BY <1>1, <1>3
<1> QED
  BY <1>4 DEF CallersAreApart

LEMMA ListenersKeepJobs ==
    ASSUME BackendJobsAssumption, IInv, Next
    PROVE  ListenersHoldJobs'
<1> SUFFICES ASSUME NEW a \in inbox'
             PROVE  /\ queue'[a.job] # "absent"
                    /\ a.event = "completed" => queue'[a.job] \in Returns
  BY DEF ListenersHoldJobs, Returned
<1> USE DEF IInv
<1>1. ASSUME NEW b \in inbox, a.job = b.job, a.event = b.event
      PROVE  /\ queue'[a.job] # "absent"
             /\ a.event = "completed" => queue'[a.job] \in Returns
  <2>1. b.job \in Job /\ queue[b.job] # "absent"
        /\ (b.event = "completed" => Returned(b.job))
    BY DEF ListenersHoldJobs, TypeOK, Activation
  <2>2. /\ queue'[b.job] # "absent"
        /\ Returned(b.job) => queue'[b.job] = queue[b.job]
    BY <2>1, Monotone
  <2> QED
    BY <1>1, <2>1, <2>2 DEF Returned
<1>2. CASE inbox' \subseteq inbox
  BY <1>1, <1>2
<1>3. CASE DaemonStep
  <2>1. PICK j \in Job : \/ DaemonStart(j) \/ DaemonFail(j)
                         \/ \E outcome \in Outcomes : DaemonReturn(j, outcome)
    BY <1>3 DEF DaemonStep
  <2>2. \/ a \in inbox
        \/ /\ a.job = j /\ queue'[j] # "absent"
           /\ a.event = "completed" => queue'[j] \in Returns
    BY <2>1 DEF DaemonStart, DaemonFail, DaemonReturn, Publish, TypeOK, Returns,
                BackendJobsAssumption
  <2> QED
    BY <1>1, <2>2
<1>4. ASSUME NEW b \in inbox, NEW which, ThenIdentity(b, which)
      PROVE  a \in inbox \/ (a.job = b.job /\ a.event = b.event)
  BY <1>4 DEF ThenIdentity, TypeOK, Activation
<1>5. CASE ListenerStep
  <2>1. PICK b \in inbox : \/ OnActive(b)
                           \/ OnFailed(b) \/ OnFailedIdentity(b)
                           \/ OnCompletedVoid(b)
                           \/ OnCompleted(b) \/ OnCompletedIdentity(b)
    BY <1>5 DEF ListenerStep
  <2>2. CASE OnActive(b) \/ OnFailedIdentity(b) \/ OnCompletedVoid(b)
                        \/ OnCompletedIdentity(b)
    BY <1>2, <2>2 DEF OnActive, OnFailedIdentity, OnCompletedVoid,
                      OnCompletedIdentity, Done
  <2>3. CASE OnFailed(b) \/ OnCompleted(b)
    BY <1>1, <1>4, <2>3 DEF OnFailed, OnCompleted
  <2> QED
    BY <2>1, <2>2, <2>3
<1>6. CASE ClientStep \/ Crash \/ BootStep
  BY <1>2, <1>6 DEF ClientStep, Request, SyncAll, LifecycleChanged, Edit, Validate,
                    Crash, BootStep, Boot, BootJob, BootIdentity, BootAttach
<1>7. ASSUME NEW c \in Caller, CheckStep(c) \/ SubmitStep(c) \/ JobStep(c)
      PROVE  inbox' \subseteq inbox
  BY <1>7 DEF CheckStep, Check, CheckNeverSynced, CheckUndelete, SoftDelete, Undelete,
              SubmitStep, Submit, JobStep, CreateDoc, WaitOk, OkJob, OkIdentity,
              WaitError, WaitTimeout, ErrJob, ErrIdentity
<1> QED
  BY <1>2, <1>3, <1>5, <1>6, <1>7 DEF Next

\* The reconciliation only looks at jobs that had returned when it started.
LEMMA BootKeepsJobs ==
    ASSUME BackendJobsAssumption, IInv, Next
    PROVE  BootHoldsJobs'
<1> SUFFICES ASSUME NEW j \in boot'.left \cup {boot'.job}, j # None
             PROVE  queue'[j] \in Returns
  BY DEF BootHoldsJobs, Returned
<1> USE DEF IInv
<1>1. CASE j \in boot.left \cup {boot.job}
  <2>1. j \in Job /\ Returned(j)
    BY <1>1 DEF BootHoldsJobs, TypeOK
  <2> QED
    BY <2>1, ReturnedStays DEF Returned
<1>2. CASE UNCHANGED boot
  BY <1>1, <1>2
<1>3. CASE Crash \/ BootAttach
  BY <1>3 DEF Crash, BootAttach, NoBoot
<1>4. CASE Boot
  BY <1>4 DEF Boot, Returned
<1>5. ASSUME NEW k \in Job, BootJob(k)
      PROVE  queue'[j] \in Returns
  BY <1>1, <1>5 DEF BootJob, TypeOK
<1>6. CASE BootIdentity
  BY <1>1, <1>6 DEF BootIdentity, TypeOK
<1>7. CASE ClientStep \/ DaemonStep \/ ListenerStep
  BY <1>2, <1>7 DEF ClientStep, Request, SyncAll, LifecycleChanged, Edit, Validate,
                    DaemonStep, DaemonStart, DaemonFail, DaemonReturn, ListenerStep,
                    OnActive, OnFailed, OnFailedIdentity, OnCompletedVoid,
                    OnCompleted, OnCompletedIdentity
<1>8. ASSUME NEW c \in Caller, CheckStep(c) \/ SubmitStep(c) \/ JobStep(c)
      PROVE  UNCHANGED boot
  BY <1>8 DEF CheckStep, Check, CheckNeverSynced, CheckUndelete, SoftDelete, Undelete,
              SubmitStep, Submit, JobStep, CreateDoc, WaitOk, OkJob, OkIdentity,
              WaitError, WaitTimeout, ErrJob, ErrIdentity
<1> QED
  BY <1>2, <1>3, <1>4, <1>5, <1>6, <1>7, <1>8 DEF Next, BootStep

\* How a record changes: only for a job that was submitted, to a success only
\* after it returned, from a success only by the request that gave up, and as a
\* new document only by the request that submitted the job.
Moved(j, which, s) ==
    /\ rec'[j] = [rec[j] EXCEPT ![which] = s]
    /\ s = "COMPLETED" =>
         Returned(j) /\ (queue[j] \in {"ok", "void"} \/ api = "boot")
    /\ rec[j][which] = "COMPLETED" /\ s # "COMPLETED" =>
         /\ which = "doc" /\ s = "FAILED"
         /\ \E c \in Caller : caller[c].pc = "errJob" /\ caller[c].job = j
    /\ which = "doc" /\ rec[j].doc = None =>
         \E c \in Caller : /\ caller[c].pc \in Holding /\ caller[c].job = j
                           /\ caller'[c].pc # "create"

LEMMA RecordMoves ==
    ASSUME BackendJobsAssumption, IInv, Next, NEW j \in Job
    PROVE  \/ rec'[j] = rec[j]
           \/ /\ queue[j] # "absent"
              /\ \E which \in {"stub", "doc"}, s \in JobState : Moved(j, which, s)
<1> DEFINE Goal == \/ rec'[j] = rec[j]
                   \/ /\ queue[j] # "absent"
                      /\ \E which \in {"stub", "doc"}, s \in JobState : Moved(j, which, s)
<1> USE DEF Moved
<1> USE DEF IInv
<1>1. ASSUME NEW k \in Job, NEW which \in {"stub", "doc", "none"}, NEW s \in JobState,
             WriteJob(k, which, s)
      PROVE  \/ rec'[j] = rec[j]
             \/ k = j /\ which # "none" /\ rec'[j] = [rec[j] EXCEPT ![which] = s]
  BY <1>1 DEF WriteJob, TypeOK
<1>2. ASSUME NEW c \in Caller, JobStep(c)
      PROVE  Goal
  <2>0. ASSUME CreateDoc(c) \/ OkJob(c) \/ ErrJob(c)
        PROVE  /\ caller[c].pc \in Holding
               /\ caller[c].job \in Job /\ queue[caller[c].job] # "absent"
               /\ caller'[c].pc # "create"
    <3>1. /\ caller[c].pc \in Holding
          /\ caller[c].job \in Job /\ queue[caller[c].job] # "absent"
      BY <2>0 DEF CreateDoc, OkJob, ErrJob, CallersHoldJobs, Holding
    <3>2. caller'[c].pc # "create"
      BY <2>0 DEF CreateDoc, OkJob, ErrJob, Goto, Throw, NextIdentity, Answer,
                  IdleCaller, TypeOK, CallerState
    <3> QED
      BY <3>1, <3>2
  <2>1. CASE CreateDoc(c)
    <3> DEFINE s == IF caller[c].async THEN "CREATED" ELSE "IN_PROGRESS"
    <3>1. s \in JobState /\ s # "COMPLETED" /\ WriteJob(caller[c].job, "doc", s)
      BY <2>1 DEF CreateDoc, JobState
    <3>2. rec[caller[c].job].doc = None
      BY <2>1 DEF CreateDoc, CreateIsFirst
    <3> HIDE DEF s
    <3>3. rec[caller[c].job]["doc"] # "COMPLETED"
      BY <3>2 DEF BackendJobsAssumption, JobState
    <3> QED
      BY <1>1, <2>0, <2>1, <3>1, <3>3
  <2>2. CASE OkJob(c)
    <3>1. queue[caller[c].job] \in {"ok", "void"} /\ Returned(caller[c].job)
      BY <2>2 DEF OkJob, CallersHoldJobs, Holding, Returned, Returns
    <3>2. WriteJob(caller[c].job, "doc", "COMPLETED") /\ "COMPLETED" \in JobState
      BY <2>2 DEF OkJob, JobState
    <3> QED
      BY <1>1, <2>0, <2>2, <3>1, <3>2
  <2>3. CASE ErrJob(c)
    <3>1. WriteJob(caller[c].job, "doc", "FAILED") /\ "FAILED" \in JobState
      BY <2>3 DEF ErrJob, JobState
    <3>2. caller[c].pc = "errJob"
      BY <2>3 DEF ErrJob
    <3> QED
      BY <1>1, <2>0, <2>3, <3>1, <3>2
  <2>4. CASE UNCHANGED rec
    BY <2>4
  <2> QED
    BY <1>2, <2>1, <2>2, <2>3, <2>4
    DEF JobStep, WaitOk, OkIdentity, WaitError, WaitTimeout, ErrIdentity
<1>3. ASSUME NEW c \in Caller, CheckStep(c) \/ SubmitStep(c)
      PROVE  rec' = rec
  BY <1>3 DEF CheckStep, Check, CheckNeverSynced, CheckUndelete, SoftDelete, Undelete,
              SubmitStep, Submit
<1>4. ASSUME NEW k \in Job, NEW S, None \notin S, NEW which,
             which = Pick(k, S), which # "none"
      PROVE  rec[k][which] \in S /\ (which = "doc" => rec[k].doc # None)
  BY <1>4 DEF Pick
<1>5. CASE ListenerStep
  <2>1. PICK a \in inbox : \/ OnActive(a)
                           \/ OnFailed(a) \/ OnFailedIdentity(a)
                           \/ OnCompletedVoid(a)
                           \/ OnCompleted(a) \/ OnCompletedIdentity(a)
    BY <1>5 DEF ListenerStep
  <2>2. a.job \in Job /\ queue[a.job] # "absent"
    BY DEF ListenersHoldJobs, TypeOK, Activation
  <2>3. CASE OnActive(a) \/ OnFailed(a)
    <3> DEFINE which == Pick(a.job, JobState \ {"COMPLETED"})
    <3>1. PICK s \in JobState \ {"COMPLETED"} : WriteJob(a.job, which, s)
      BY <2>3 DEF OnActive, OnFailed, JobState
    <3>2. /\ which \in {"stub", "doc", "none"}
          /\ which # "none" => rec[a.job][which] # "COMPLETED"
          /\ which = "doc" => rec[a.job].doc # None
      BY <1>4, PickTypes, <2>2 DEF BackendJobsAssumption
    <3> HIDE DEF which
    <3>3. \/ rec'[j] = rec[j]
          \/ a.job = j /\ which # "none" /\ rec'[j] = [rec[j] EXCEPT ![which] = s]
      BY <1>1, <2>2, <3>1, <3>2
    <3> QED
      BY <2>2, <3>1, <3>2, <3>3
  <2>4. CASE OnCompleted(a)
    <3> DEFINE found == Pick(a.job, JobState)
               which == IF found = "none" THEN "stub" ELSE found
               s     == IF queue[a.job] = "ok" THEN "COMPLETED" ELSE "FAILED"
    <3>1. /\ a.event = "completed" /\ a.step = "job" /\ queue[a.job] # "void"
          /\ WriteJob(a.job, which, s) /\ s \in JobState
      BY <2>4 DEF OnCompleted, JobState
    <3>2. which \in {"stub", "doc"} /\ (which = "doc" => rec[a.job].doc # None)
      BY <1>4, <2>2, PickTypes DEF BackendJobsAssumption
    <3>3. /\ Returned(a.job)
          /\ s # "COMPLETED" => queue[a.job] = "error"
          /\ s = "COMPLETED" => queue[a.job] \in {"ok", "void"}
      BY <2>4, <3>1 DEF ListenersHoldJobs, Returned, Returns
    <3>4. s # "COMPLETED" => rec[a.job][which] # "COMPLETED"
      <4>1. s # "COMPLETED" => ~Recorded(a.job, "COMPLETED")
        BY <3>1, <3>3 DEF ErrorIsNews
      <4> QED
        BY <3>2, <4>1 DEF Recorded
    <3> HIDE DEF found, which, s
    <3>5. rec'[j] = rec[j] \/ (a.job = j /\ rec'[j] = [rec[j] EXCEPT ![which] = s])
      BY <1>1, <2>2, <3>1, <3>2
    <3> QED
      BY <2>2, <3>1, <3>2, <3>3, <3>4, <3>5
  <2>5. CASE OnFailedIdentity(a) \/ OnCompletedVoid(a) \/ OnCompletedIdentity(a)
    BY <2>5 DEF OnFailedIdentity, OnCompletedVoid, OnCompletedIdentity
  <2> QED
    BY <2>1, <2>3, <2>4, <2>5
<1>6. ASSUME NEW k \in Job, BootJob(k)
      PROVE  Goal
  <2> DEFINE which == Pick(k, JobState \ Settled)
  <2>1. WriteJob(k, which, "COMPLETED") /\ "COMPLETED" \in JobState
    BY <1>6 DEF BootJob, JobState
  <2>2. which \in {"stub", "doc", "none"} /\ (which = "doc" => rec[k].doc # None)
    BY <1>4, PickTypes DEF BackendJobsAssumption
  <2>3. Returned(k) /\ queue[k] # "absent" /\ api = "boot"
    BY <1>6, BackendJobsAssumption DEF BootJob, BootHoldsJobs, Returned, Returns
  <2> HIDE DEF which
  <2>4. \/ rec'[j] = rec[j]
        \/ k = j /\ which # "none" /\ rec'[j] = [rec[j] EXCEPT ![which] = "COMPLETED"]
    BY <1>1, <2>1, <2>2
  <2>5. CASE k = j /\ which # "none" /\ rec'[j] = [rec[j] EXCEPT ![which] = "COMPLETED"]
    <3>1. Moved(j, which, "COMPLETED")
      BY <2>2, <2>3, <2>5
    <3> QED
      BY <2>1, <2>2, <2>3, <2>5, <3>1
  <2> QED
    BY <2>4, <2>5
<1>7. CASE ClientStep \/ DaemonStep \/ Crash \/ Boot \/ BootIdentity \/ BootAttach
  BY <1>7 DEF ClientStep, Request, SyncAll, LifecycleChanged, Edit, Validate,
              DaemonStep, DaemonStart, DaemonFail, DaemonReturn, Crash, Boot,
              BootIdentity, BootAttach
<1> QED
  BY <1>2, <1>3, <1>5, <1>6, <1>7 DEF Next, BootStep

LEMMA CreateStaysFirst ==
    ASSUME BackendJobsAssumption, IInv, Next
    PROVE  CreateIsFirst'
<1> SUFFICES ASSUME NEW c \in Caller, caller'[c].pc = "create"
             PROVE  rec'[caller'[c].job].doc = None
  BY DEF CreateIsFirst
<1> USE DEF IInv
<1>1. ASSUME NEW i \in Identity, NEW j \in Job, Submit(c, i, j)
      PROVE  rec'[caller'[c].job].doc = None
  <2>1. caller'[c].job = j /\ queue[j] = "absent" /\ rec' = rec
    BY <1>1 DEF Submit, TypeOK, CallerState
  <2> QED
    BY <2>1 DEF RecordsHaveJobs
<1>2. CASE caller'[c] = caller[c]
  <2> DEFINE j == caller[c].job
  <2>1. j \in Job /\ rec[j].doc = None /\ caller[c].pc \in Holding
    BY <1>2 DEF CallersHoldJobs, CreateIsFirst, Holding
  <2>2. ASSUME NEW s \in JobState, Moved(j, "doc", s)
        PROVE  FALSE
    BY <1>2, <2>1, <2>2 DEF Moved, CallersAreApart
  <2>3. ASSUME NEW s \in JobState, Moved(j, "stub", s)
        PROVE  rec'[j].doc = None
    BY <2>1, <2>3 DEF Moved, TypeOK, Record
  <2> HIDE DEF j
  <2>4. rec'[j].doc = None
    BY <2>1, <2>2, <2>3, RecordMoves
  <2> QED
    BY <1>2, <2>4 DEF j
<1> QED
  BY <1>1, <1>2, CallerMoves DEF Holding

LEMMA RecordsKeepJobs ==
    ASSUME BackendJobsAssumption, IInv, Next
    PROVE  RecordsHaveJobs' /\ CompletedIsAnswered'
<1> USE DEF IInv
<1>1. ASSUME NEW j \in Job, queue'[j] = "absent"
      PROVE  rec'[j].stub = None /\ rec'[j].doc = None
  BY <1>1, Monotone, RecordMoves DEF RecordsHaveJobs
<1>2. ASSUME NEW j \in Job, "COMPLETED" \in {rec'[j].stub, rec'[j].doc}
      PROVE  queue'[j] \in Returns
  <2>1. ASSUME NEW which \in {"stub", "doc"}, NEW s \in JobState, Moved(j, which, s),
               ~Returned(j)
        PROVE  FALSE
    BY <1>2, <2>1 DEF Moved, TypeOK, Record, CompletedIsAnswered, Recorded
  <2>2. Returned(j)
    BY <1>2, <2>1, RecordMoves DEF CompletedIsAnswered, Recorded
  <2> QED
    BY <2>2, ReturnedStays DEF Returned
<1> QED
  BY <1>1, <1>2 DEF RecordsHaveJobs, CompletedIsAnswered, Recorded, Returned

\* How the set of listener activations changes.
LEMMA ListenerMoves ==
    ASSUME BackendJobsAssumption, IInv, Next, NEW a \in inbox'
    PROVE  \/ a \in inbox
           \/ /\ a.step = "identity"
              /\ inbox # {}
           \/ /\ api = "up" /\ api' = "up"
              /\ rec' = rec
              /\ a.job \in Job /\ ~Returned(a.job)
<1> USE DEF IInv
<1>1. CASE inbox' \subseteq inbox
  BY <1>1
<1>2. CASE DaemonStep
  BY <1>2 DEF DaemonStep, DaemonStart, DaemonFail, DaemonReturn, Publish, Returned,
              Returns
<1>3. ASSUME NEW b \in inbox, NEW which, ThenIdentity(b, which)
      PROVE  a \in inbox \/ (a.step = "identity" /\ inbox # {})
  BY <1>3 DEF ThenIdentity, TypeOK, Activation
<1>4. CASE ListenerStep
  BY <1>3, <1>4 DEF ListenerStep, OnActive, OnFailed, OnFailedIdentity,
                    OnCompletedVoid, OnCompleted, OnCompletedIdentity, Done
<1>5. CASE ClientStep \/ Crash \/ BootStep
  BY <1>5 DEF ClientStep, Request, SyncAll, LifecycleChanged, Edit, Validate,
              Crash, BootStep, Boot, BootJob, BootIdentity, BootAttach
<1>6. ASSUME NEW c \in Caller, CheckStep(c) \/ SubmitStep(c) \/ JobStep(c)
      PROVE  inbox' \subseteq inbox
  BY <1>6 DEF CheckStep, Check, CheckNeverSynced, CheckUndelete, SoftDelete, Undelete,
              SubmitStep, Submit, JobStep, CreateDoc, WaitOk, OkJob, OkIdentity,
              WaitError, WaitTimeout, ErrJob, ErrIdentity
<1> QED
  BY <1>1, <1>2, <1>4, <1>5, <1>6 DEF Next

LEMMA ApiMoves ==
    ASSUME IInv, Next, api' # "up"
    PROVE  inbox' = {} \/ (api # "up")
<1>1. CASE ClientStep \/ DaemonStep \/ ListenerStep \/ Crash \/ BootStep
  BY <1>1 DEF ClientStep, Request, SyncAll, LifecycleChanged, Edit, Validate,
              DaemonStep, DaemonStart, DaemonFail, DaemonReturn, ListenerStep,
              OnActive, OnFailed, OnFailedIdentity, OnCompletedVoid, OnCompleted,
              OnCompletedIdentity, Crash, BootStep, Boot, BootJob, BootIdentity,
              BootAttach
<1>2. ASSUME NEW c \in Caller, CheckStep(c) \/ SubmitStep(c) \/ JobStep(c)
      PROVE  api' = api
  BY <1>2 DEF CheckStep, Check, CheckNeverSynced, CheckUndelete, SoftDelete, Undelete,
              SubmitStep, Submit, JobStep, CreateDoc, WaitOk, OkJob, OkIdentity,
              WaitError, WaitTimeout, ErrJob, ErrIdentity
<1> QED
  BY <1>1, <1>2 DEF Next

LEMMA ListenersStayUp ==
    ASSUME BackendJobsAssumption, IInv, Next
    PROVE  ListenersAreUp' /\ ErrorIsNews'
<1> USE DEF IInv
<1>1. ListenersAreUp'
  BY ApiMoves, ListenerMoves DEF ListenersAreUp
<1>2. ASSUME NEW a \in inbox', a.event = "completed", a.step = "job",
             queue'[a.job] = "error"
      PROVE  rec'[a.job].stub # "COMPLETED" /\ rec'[a.job].doc # "COMPLETED"
  <2>1. CASE a \in inbox
    <3>1. /\ a.job \in Job /\ queue[a.job] = "error" /\ api = "up"
          /\ rec[a.job].stub # "COMPLETED" /\ rec[a.job].doc # "COMPLETED"
      <4>1. a.job \in Job /\ Returned(a.job) /\ api = "up"
        BY <1>2, <2>1 DEF ListenersHoldJobs, ListenersAreUp, TypeOK, Activation
      <4>2. queue[a.job] = "error"
        BY <1>2, <4>1, ReturnedStays, Monotone
      <4> QED
        BY <1>2, <2>1, <4>1, <4>2 DEF ErrorIsNews, Recorded
    <3>2. ASSUME NEW which \in {"stub", "doc"}, NEW s \in JobState,
                 Moved(a.job, which, s)
          PROVE  rec'[a.job].stub # "COMPLETED" /\ rec'[a.job].doc # "COMPLETED"
      BY <3>1, <3>2 DEF Moved, TypeOK, Record
    <3> QED
      BY <3>1, <3>2, RecordMoves
  <2>2. CASE rec' = rec /\ a.job \in Job /\ ~Returned(a.job)
    BY <2>2 DEF CompletedIsAnswered, Recorded
  <2> QED
    BY <1>2, <2>1, <2>2, ListenerMoves
<1> QED
  BY <1>1, <1>2 DEF ErrorIsNews, Recorded

\* Whoever makes an identity SYNCED, or stamps it, holds a returned job about it.
LEMMA IdentityMoves ==
    ASSUME BackendJobsAssumption, IInv, Next, NEW i \in Identity,
           identity'[i].state = "SYNCED" \/ identity'[i].synced
    PROVE  \/ identity[i].state = "SYNCED" \/ identity[i].synced
           \/ \E j \in Job : /\ order[j].about = i /\ Returned(j)
                             /\ queue[j] \in {"ok", "void"} \/ api = "boot"
<1> USE DEF IInv
<1>1. CASE identity' = identity
  BY <1>1
<1>2. ASSUME NEW k, NEW s, s # "SYNCED",
             \/ SetState(k, s)
             \/ \E d \in BOOLEAN : SetStateAndFlag(k, s, d)
      PROVE  identity[i].state = "SYNCED" \/ identity[i].synced
  <2>1. CASE k = i
    BY <1>2, <2>1 DEF SetState, SetStateAndFlag, TypeOK, IdentityDoc
  <2>2. CASE k # i
    BY <1>2, <2>2 DEF SetState, SetStateAndFlag, TypeOK, IdentityDoc
  <2> QED
    BY <2>1, <2>2
<1>3. ASSUME NEW k,
             \/ SetSynced(k)
             \/ \E s \in IdentityState, d, y \in BOOLEAN : WriteIdentity(k, s, d, y)
      PROVE  k = i \/ identity'[i] = identity[i]
  BY <1>3 DEF SetSynced, WriteIdentity, TypeOK
<1>4. CASE ClientStep
  <2>1. CASE \E c \in Caller, async \in AsyncModes, k \in Identity :
               LifecycleChanged(c, async, k)
    <3>1. PICK k \in Identity : SetState(k, "TO_SYNC") \/ identity' = identity
      BY <2>1 DEF LifecycleChanged
    <3> QED
      BY <1>1, <1>2, <3>1
  <2>2. CASE \E k \in Identity : Edit(k) \/ Validate(k)
    BY <1>2, <2>2 DEF Edit, Validate
  <2> QED
    BY <1>1, <1>4, <2>1, <2>2 DEF ClientStep, Request, SyncAll
<1>5. ASSUME NEW c \in Caller, CheckStep(c) \/ SubmitStep(c) \/ JobStep(c)
      PROVE  \/ identity[i].state = "SYNCED" \/ identity[i].synced
             \/ \E j \in Job : /\ order[j].about = i /\ Returned(j)
                               /\ queue[j] \in {"ok", "void"}
  <2>1. CASE SoftDelete(c)
    BY <1>2, <2>1 DEF SoftDelete
  <2>2. CASE Undelete(c)
    <3>1. caller[c].target # "SYNCED"
      BY DEF TypeOK, CallerState
    <3> QED
      BY <1>2, <2>2, <3>1 DEF Undelete
  <2>3. CASE OkIdentity(c)
    <3>1. /\ caller[c].job \in Job /\ Returned(caller[c].job)
          /\ queue[caller[c].job] \in {"ok", "void"}
          /\ order[caller[c].job].about = caller[c].at
      BY <2>3 DEF OkIdentity, CallersHoldJobs, Holding, Returned, Returns
    <3>2. caller[c].at = i \/ identity'[i] = identity[i]
      BY <2>3 DEF OkIdentity, WriteIdentity, TypeOK
    <3> QED
      BY <3>1, <3>2
  <2>4. CASE ErrIdentity(c)
    BY <1>2, <2>4 DEF ErrIdentity
  <2> QED
    BY <1>1, <1>5, <2>1, <2>2, <2>3, <2>4
    DEF CheckStep, Check, CheckNeverSynced, CheckUndelete, SubmitStep, Submit,
        JobStep, CreateDoc, WaitOk, OkJob, WaitError, WaitTimeout, ErrJob
<1>6. CASE ListenerStep
  <2>1. PICK a \in inbox : \/ OnActive(a)
                           \/ OnFailed(a) \/ OnFailedIdentity(a)
                           \/ OnCompletedVoid(a)
                           \/ OnCompleted(a) \/ OnCompletedIdentity(a)
    BY <1>6 DEF ListenerStep
  <2>2. CASE OnFailedIdentity(a)
    BY <1>2, <2>2 DEF OnFailedIdentity
  <2>3. CASE OnCompletedIdentity(a)
    <3>1. a.job \in Job /\ Returned(a.job)
      BY <2>3 DEF OnCompletedIdentity, ListenersHoldJobs, TypeOK, Activation
    <3>2. \/ identity'[i] = identity[i]
          \/ order[a.job].about = i /\ queue[a.job] = "ok"
      BY <2>3 DEF OnCompletedIdentity, WriteIdentity, TypeOK
    <3> QED
      BY <3>1, <3>2
  <2> QED
    BY <1>1, <2>1, <2>2, <2>3 DEF OnActive, OnFailed, OnCompletedVoid, OnCompleted
<1>7. CASE BootIdentity
  <2>1. boot.job \in Job /\ Returned(boot.job)
    BY <1>7 DEF BootIdentity, BootHoldsJobs, TypeOK
  <2> QED
    BY <1>3, <1>7, <2>1 DEF BootIdentity
<1>8. CASE DaemonStep \/ Crash \/ Boot \/ BootAttach \/ \E j \in Job : BootJob(j)
  BY <1>1, <1>8 DEF DaemonStep, DaemonStart, DaemonFail, DaemonReturn, Crash, Boot,
                    BootAttach, BootJob
<1> QED
  BY <1>4, <1>5, <1>6, <1>7, <1>8 DEF Next, BootStep

LEMMA SyncedStaysAnswered ==
    ASSUME BackendJobsAssumption, IInv, Next
    PROVE  SyncedIsAnswered'
<1> SUFFICES ASSUME NEW i \in Identity \ Known,
                    identity'[i].state = "SYNCED" \/ identity'[i].synced
             PROVE  About(i, Returns, Operations)'
  BY DEF SyncedIsAnswered
<1> USE DEF IInv
<1>1. ASSUME NEW j \in Job, order[j].about = i, Returned(j)
      PROVE  About(i, Returns, Operations)
  BY <1>1 DEF About, Returned, TypeOK, Order
<1>2. About(i, Returns, Operations)
  <2>1. CASE identity[i].state = "SYNCED" \/ identity[i].synced
    BY <2>1 DEF SyncedIsAnswered
  <2>2. CASE ~(identity[i].state = "SYNCED" \/ identity[i].synced)
    <3>1. \E j \in Job : /\ order[j].about = i /\ Returned(j)
                         /\ queue[j] \in {"ok", "void"} \/ api = "boot"
      BY <2>2, IdentityMoves
    <3>2. PICK j \in Job : order[j].about = i /\ Returned(j)
      BY <3>1
    <3> QED
      BY <1>1, <3>2
  <2> QED
    BY <2>1, <2>2
<1> QED
  BY <1>2, AboutStays

----------------------------------------------------------------------------
(* The theorems.                                                           *)

\* The invariant that makes the pipeline work is inductive.
THEOREM Inductive == Spec => []IInv
<1>1. Init => IInv
  <2> SUFFICES ASSUME Init
               PROVE  IInv
    OBVIOUS
  <2>1. TypeOK
    BY BackendJobsAssumption, InitTypes
  <2>2. \A c \in Caller : caller[c].pc = "idle"
    BY DEF Init, IdleCaller
  <2>3. CallersHoldJobs /\ CallersAreApart /\ CreateIsFirst
    BY <2>2 DEF CallersHoldJobs, CallersAreApart, CreateIsFirst, Holding
  <2>4. ListenersHoldJobs /\ ListenersAreUp /\ ErrorIsNews /\ BootHoldsJobs
    BY DEF Init, ListenersHoldJobs, ListenersAreUp, ErrorIsNews, BootHoldsJobs, NoBoot
  <2>5. RecordsHaveJobs /\ CompletedIsAnswered
    BY BackendJobsAssumption
    DEF Init, RecordsHaveJobs, CompletedIsAnswered, Recorded, BackendJobsAssumption,
        JobState
  <2>6. SyncedIsAnswered
    BY DEF Init, SyncedIsAnswered
  <2> QED
    BY <2>1, <2>3, <2>4, <2>5, <2>6 DEF IInv
<1>2. IInv /\ [Next]_vars => IInv'
  <2> SUFFICES ASSUME IInv, [Next]_vars
               PROVE  IInv'
    OBVIOUS
  <2>1. CASE Next
    BY <2>1, BackendJobsAssumption, StepTypes, CallersKeepJobs, CallersStayApart,
       CreateStaysFirst, ListenersKeepJobs, ListenersStayUp, BootKeepsJobs,
       RecordsKeepJobs, SyncedStaysAnswered DEF IInv
  <2>2. CASE UNCHANGED vars
    BY <2>2 DEF vars, IInv, TypeOK, CallersHoldJobs, CallersAreApart, CreateIsFirst,
                ListenersHoldJobs, ListenersAreUp, ErrorIsNews, BootHoldsJobs,
                RecordsHaveJobs, CompletedIsAnswered, SyncedIsAnswered, Recorded,
                Returned, About
  <2> QED
    BY <2>1, <2>2
<1> QED
  BY <1>1, <1>2, PTL DEF Spec

\* No document says COMPLETED of a job that has not returned.
THEOREM CompletedAnswered == Spec => []CompletedIsAnswered
<1>1. IInv => CompletedIsAnswered
  BY DEF IInv
<1> QED
  BY <1>1, Inductive, PTL

\* No identity is SYNCED, or stamped, without a returned job about it.
THEOREM SyncedAnswered == Spec => []SyncedIsAnswered
<1>1. IInv => SyncedIsAnswered
  BY DEF IInv
<1> QED
  BY <1>1, Inductive, PTL

\* COMPLETED is final, but for the request that gave up waiting.
THEOREM CompletedFinal == Spec => CompletedStays
<1>1. IInv /\ [Next]_vars =>
        [\A j \in Job, which \in {"stub", "doc"} :
           rec[j][which] = "COMPLETED" /\ rec'[j][which] # "COMPLETED" =>
             /\ which = "doc"
             /\ \E c \in Caller : caller[c].pc = "errJob" /\ caller[c].job = j]_vars
  <2> SUFFICES ASSUME IInv, Next, NEW j \in Job, NEW which \in {"stub", "doc"},
                      rec[j][which] = "COMPLETED", rec'[j][which] # "COMPLETED"
               PROVE  /\ which = "doc"
                      /\ \E c \in Caller : caller[c].pc = "errJob" /\ caller[c].job = j
    OBVIOUS
  <2>1. ASSUME NEW other \in {"stub", "doc"}, NEW s \in JobState, Moved(j, other, s)
        PROVE  other = which /\ s # "COMPLETED"
    BY <2>1 DEF Moved, IInv, TypeOK, Record
  <2>2. PICK other \in {"stub", "doc"}, s \in JobState : Moved(j, other, s)
    BY BackendJobsAssumption, RecordMoves
  <2> QED
    BY <2>1, <2>2 DEF Moved
<1> QED
  BY <1>1, Inductive, PTL DEF CompletedStays, Spec

----------------------------------------------------------------------------
(* The pipeline implements JobLedger.                                      *)

\* A step advances one job in the queue, or writes one job's record.
LEMMA OneJob ==
    ASSUME IInv, Next
    PROVE  /\ queue' = queue \/ rec' = rec
           /\ queue' # queue =>
                \E k \in Job :
                  /\ \A j \in Job \ {k} : queue'[j] = queue[j]
                  /\ \/ queue[k] = "absent" /\ queue'[k] = "waiting"
                     \/ queue[k] = "waiting" /\ queue'[k] = "active"
                     \/ queue[k] = "active" /\ queue'[k] \in Returns \cup {"failed"}
           /\ rec' # rec =>
                \E k \in Job : /\ \A j \in Job \ {k} : rec'[j] = rec[j]
                               /\ rec'[k] # rec[k]
<1> USE DEF IInv, TypeOK
<1> DEFINE OneRecord == \E k \in Job : /\ \A j \in Job \ {k} : rec'[j] = rec[j]
                                       /\ rec'[k] # rec[k]
           OneAdvance == \E k \in Job :
                  /\ \A j \in Job \ {k} : queue'[j] = queue[j]
                  /\ \/ queue[k] = "absent" /\ queue'[k] = "waiting"
                     \/ queue[k] = "waiting" /\ queue'[k] = "active"
                     \/ queue[k] = "active" /\ queue'[k] \in Returns \cup {"failed"}
<1>1. ASSUME NEW k, NEW which, NEW s, WriteJob(k, which, s), rec' # rec
      PROVE  OneRecord
  <2>1. rec' = [rec EXCEPT ![k] = rec'[k]]
    BY <1>1 DEF WriteJob
  <2> QED
    BY <1>1, <2>1
<1>2. CASE UNCHANGED <<queue, rec>>
  BY <1>2
<1>3. ASSUME NEW c \in Caller, CheckStep(c)
      PROVE  UNCHANGED <<queue, rec>>
  BY <1>3 DEF CheckStep, Check, CheckNeverSynced, CheckUndelete, SoftDelete, Undelete
<1>4. ASSUME NEW c \in Caller, SubmitStep(c)
      PROVE  rec' = rec /\ OneAdvance
  BY <1>4 DEF SubmitStep, Submit
<1>5. ASSUME NEW c \in Caller, JobStep(c)
      PROVE  queue' = queue /\ (rec' # rec => OneRecord)
  BY <1>1, <1>5 DEF JobStep, CreateDoc, WaitOk, OkJob, OkIdentity, WaitError,
                    WaitTimeout, ErrJob, ErrIdentity
<1>6. CASE DaemonStep
  <2>1. rec' = rec
    BY <1>6 DEF DaemonStep, DaemonStart, DaemonFail, DaemonReturn
  <2>2. OneAdvance
    BY <1>6, BackendJobsAssumption
    DEF DaemonStep, DaemonStart, DaemonFail, DaemonReturn, BackendJobsAssumption
  <2> QED
    BY <2>1, <2>2
<1>7. CASE ListenerStep
  <2>1. queue' = queue /\ (rec' # rec => OneRecord)
    BY <1>1, <1>7 DEF ListenerStep, OnActive, OnFailed, OnFailedIdentity,
                      OnCompletedVoid, OnCompleted, OnCompletedIdentity
  <2> QED
    BY <2>1
<1>8. CASE ClientStep
  BY <1>2, <1>8 DEF ClientStep, Request, SyncAll, LifecycleChanged, Edit, Validate
<1>9. CASE Crash \/ Boot \/ BootIdentity \/ BootAttach
  BY <1>2, <1>9 DEF Crash, Boot, BootIdentity, BootAttach
<1>10. ASSUME NEW j \in Job, BootJob(j)
       PROVE  queue' = queue /\ (rec' # rec => OneRecord)
  BY <1>1, <1>10 DEF BootJob
<1> QED
  BY <1>2, <1>3, <1>4, <1>5, <1>6, <1>7, <1>8, <1>9, <1>10 DEF Next, BootStep

LEMMA AdvanceIsLedger ==
    ASSUME IInv, Next, queue' # queue
    PROVE  Ledger!Next \/ UNCHANGED <<LedgerPhase, LedgerVerdict>>
<1> USE DEF IInv, TypeOK
<1>1. PICK k \in Job :
         /\ \A j \in Job \ {k} : queue'[j] = queue[j]
         /\ \/ queue[k] = "absent" /\ queue'[k] = "waiting"
            \/ queue[k] = "waiting" /\ queue'[k] = "active"
            \/ queue[k] = "active" /\ queue'[k] \in Returns \cup {"failed"}
  BY OneJob
<1>2. rec' = rec
  BY OneJob
<1>3. UNCHANGED LedgerVerdict
  BY <1>2 DEF LedgerVerdict
<1>4. \A j \in Job \ {k} : LedgerPhase'[j] = LedgerPhase[j]
  BY <1>1 DEF LedgerPhase, Returned
<1>5. CASE queue[k] = "absent" /\ queue'[k] = "waiting"
  <2>1. LedgerPhase[k] = "absent" /\ LedgerPhase'[k] = "open"
    BY <1>5 DEF LedgerPhase, Returned, Returns
  <2>2. LedgerPhase' = [LedgerPhase EXCEPT ![k] = "open"]
    BY <1>4, <2>1 DEF LedgerPhase
  <2>3. Ledger!Enter(k)
    BY <1>3, <2>1, <2>2 DEF Ledger!Enter
  <2> QED
    BY <2>3 DEF Ledger!Next
<1>6. CASE queue[k] = "waiting" /\ queue'[k] = "active"
  <2>1. LedgerPhase[k] = "open" /\ LedgerPhase'[k] = "open"
    BY <1>6 DEF LedgerPhase, Returned, Returns
  <2>2. LedgerPhase' = LedgerPhase
    BY <1>4, <2>1 DEF LedgerPhase
  <2> QED
    BY <1>3, <2>2
<1>7. CASE queue[k] = "active" /\ queue'[k] \in Returns \cup {"failed"}
  <2>1. LedgerPhase[k] = "open" /\ LedgerPhase'[k] \in {"returned", "failed"}
    BY <1>7 DEF LedgerPhase, Returned, Returns
  <2>2. PICK p \in {"returned", "failed"} : LedgerPhase'[k] = p
    BY <2>1
  <2>3. LedgerPhase' = [LedgerPhase EXCEPT ![k] = p]
    BY <1>4, <2>2 DEF LedgerPhase
  <2>4. Ledger!End(k)
    BY <1>3, <2>1, <2>3 DEF Ledger!End
  <2> QED
    BY <2>4 DEF Ledger!Next
<1> QED
  BY <1>1, <1>5, <1>6, <1>7

LEMMA RecordIsLedger ==
    ASSUME IInv, IInv', Next, rec' # rec
    PROVE  Ledger!Next
<1> USE DEF IInv, TypeOK
<1>1. PICK k \in Job : /\ \A j \in Job \ {k} : rec'[j] = rec[j]
                       /\ rec'[k] # rec[k]
  BY OneJob
<1>2. queue' = queue /\ UNCHANGED LedgerPhase
  BY OneJob DEF LedgerPhase, Returned
<1>3. PICK which \in {"stub", "doc"}, s \in JobState :
         Moved(k, which, s) /\ queue[k] # "absent"
  BY <1>1, BackendJobsAssumption, RecordMoves
<1> DEFINE v == LedgerVerdict'[k]
<1>4. LedgerVerdict' = [LedgerVerdict EXCEPT ![k] = v]
  BY <1>1 DEF LedgerVerdict
<1>5. LedgerPhase[k] # "absent"
  BY <1>3 DEF LedgerPhase, Returned
<1>6. rec'[k][which] = s /\ s # None
  BY <1>3, BackendJobsAssumption DEF Moved, Record, BackendJobsAssumption
<1>7. v \in {"open", "success", "failure"}
  <2>1. {rec'[k].stub, rec'[k].doc} # {None}
    BY <1>6
  <2> QED
    BY <2>1 DEF LedgerVerdict
<1>8. v = "success" => LedgerPhase[k] = "returned"
  <2>1. v = "success" => "COMPLETED" \in {rec'[k].stub, rec'[k].doc}
    BY DEF LedgerVerdict
  <2>2. v = "success" => Returned(k)
    BY <1>2, <2>1 DEF CompletedIsAnswered, Recorded, Returned
  <2> QED
    BY <2>2 DEF LedgerPhase, Returned, Returns
<1>9. v = "open" => LedgerVerdict[k] # "success"
  <2>1. v = "open" => /\ rec'[k].stub \notin {"COMPLETED", "FAILED"}
                      /\ rec'[k].doc \notin {"COMPLETED", "FAILED"}
    BY DEF LedgerVerdict
  <2>2. v = "open" => rec[k].stub # "COMPLETED" /\ rec[k].doc # "COMPLETED"
    BY <1>3, <1>6, <2>1 DEF Moved, Record
  <2> QED
    BY <2>2 DEF LedgerVerdict
<1> HIDE DEF v
<1>10. Ledger!Report(k, v)
  BY <1>2, <1>4, <1>5, <1>8, <1>9 DEF Ledger!Report
<1> QED
  BY <1>7, <1>10 DEF Ledger!Next, Ledger!Verdict

\* What the jobs collection shows is a behaviour of JobLedger.
THEOREM ImplementsLedger == Spec => LedgerSpec
<1>1. Init => Ledger!Init
  BY BackendJobsAssumption
  DEF Init, Ledger!Init, LedgerPhase, LedgerVerdict, Returned, Returns,
      BackendJobsAssumption, JobState
<1>2. IInv /\ IInv' /\ [Next]_vars => [Ledger!Next]_(Ledger!ledger)
  <2> SUFFICES ASSUME IInv, IInv', [Next]_vars
               PROVE  Ledger!Next \/ UNCHANGED <<LedgerPhase, LedgerVerdict>>
    BY DEF Ledger!ledger
  <2>1. CASE queue' # queue /\ Next
    BY <2>1, AdvanceIsLedger
  <2>2. CASE rec' # rec /\ Next
    BY <2>2, RecordIsLedger
  <2>3. CASE UNCHANGED <<queue, rec>>
    BY <2>3 DEF LedgerPhase, LedgerVerdict, Returned
  <2> QED
    BY <2>1, <2>2, <2>3 DEF vars
<1> QED
  BY <1>1, <1>2, Inductive, PTL DEF Spec, LedgerSpec, Ledger!Spec
----------------------------------------------------------------------------
(* Deletions, restarts, and the life of the API before its first stop.      *)

\* A request holds a job that was submitted for what the request asks.
OrdersAreTheirs ==
    \A c \in Caller : caller[c].pc \in Holding =>
                        order[caller[c].job].op = caller[c].op

\* No request is handled before the API serves.
CallersAreUp == api # "up" => \A c \in Caller : caller[c].pc = "idle"

\* What the reconciliation has gone past is settled, and stays so until the end.
BootSettles ==
    api = "boot" =>
      /\ boot.all \subseteq Job
      /\ \A j \in boot.all \ boot.left :
           rec[j].stub = None => rec[j].doc \in Settled \cup {None}

\* Until the API stops for the first time nobody but the daemon's success makes
\* a record COMPLETED, or an identity SYNCED.
FirstLife ==
    crashes = 0 =>
      /\ api = "up"
      /\ \A j \in Job : Recorded(j, "COMPLETED") => queue[j] \in {"ok", "void"}
      /\ SyncedIsSuccess

LEMMA OrdersStayTheirs ==
    ASSUME BackendJobsAssumption, IInv, OrdersAreTheirs, Next
    PROVE  OrdersAreTheirs'
<1> SUFFICES ASSUME NEW c \in Caller, caller'[c].pc \in Holding
             PROVE  order'[caller'[c].job].op = caller'[c].op
  BY DEF OrdersAreTheirs
<1> USE DEF IInv
<1>1. ASSUME NEW i \in Identity, NEW j \in Job, Submit(c, i, j)
      PROVE  order'[caller'[c].job].op = caller'[c].op
  <2>1. caller'[c].job = j /\ caller'[c].op = caller[c].op
    BY <1>1 DEF Submit, TypeOK, CallerState
  <2>2. order'[j].op = caller[c].op
    BY <1>1 DEF Submit, TypeOK
  <2> QED
    BY <2>1, <2>2
<1>2. ASSUME caller[c].pc \in Holding, caller'[c].job = caller[c].job,
             caller'[c].op = caller[c].op
      PROVE  order'[caller'[c].job].op = caller'[c].op
  <2>1. /\ caller[c].job \in Job /\ queue[caller[c].job] # "absent"
        /\ order[caller[c].job].op = caller[c].op
    BY <1>2 DEF CallersHoldJobs, OrdersAreTheirs
  <2> QED
    BY <1>2, <2>1, Monotone
<1> QED
  BY <1>1, <1>2, CallerMoves

LEMMA CallersStayUp ==
    ASSUME BackendJobsAssumption, IInv, CallersAreUp, Next
    PROVE  CallersAreUp'
<1> USE DEF CallersAreUp
<1>1. CASE ClientStep
  BY <1>1 DEF ClientStep, Request, SyncAll, LifecycleChanged, Edit, Validate, Ready
<1>2. ASSUME NEW c \in Caller, CheckStep(c) \/ SubmitStep(c) \/ JobStep(c)
      PROVE  CallersAreUp'
  <2>1. api' = api /\ caller[c].pc # "idle"
    BY <1>2 DEF CheckStep, Check, CheckNeverSynced, CheckUndelete, SoftDelete, Undelete,
                SubmitStep, Submit, JobStep, CreateDoc, WaitOk, OkJob, OkIdentity,
                WaitError, WaitTimeout, ErrJob, ErrIdentity
  <2> QED
    BY <2>1
<1>3. CASE DaemonStep \/ ListenerStep
  BY <1>3 DEF DaemonStep, DaemonStart, DaemonReturn, DaemonFail, ListenerStep,
              OnActive, OnFailed, OnFailedIdentity, OnCompletedVoid, OnCompleted,
              OnCompletedIdentity
<1>4. CASE Crash
  BY <1>4 DEF Crash, IdleCaller
<1>5. CASE BootStep
  BY <1>5 DEF BootStep, Boot, BootJob, BootIdentity, BootAttach
<1> QED
  BY <1>1, <1>2, <1>3, <1>4, <1>5 DEF Next

LEMMA BootKeepsSettling ==
    ASSUME BackendJobsAssumption, IInv, CallersAreUp, BootSettles, Next
    PROVE  BootSettles'
<1> USE DEF IInv
<1>1. CASE Crash \/ Boot \/ BootAttach
  BY <1>1 DEF Crash, Boot, BootAttach, BootSettles
<1>2. CASE api # "boot"
  <2>1. CASE ClientStep \/ DaemonStep \/ ListenerStep
    BY <1>2, <2>1
    DEF ClientStep, Request, SyncAll, LifecycleChanged, Edit, Validate,
        DaemonStep, DaemonStart, DaemonReturn, DaemonFail, ListenerStep, OnActive,
        OnFailed, OnFailedIdentity, OnCompletedVoid, OnCompleted, OnCompletedIdentity,
        BootSettles
  <2>2. ASSUME NEW c \in Caller, CheckStep(c) \/ SubmitStep(c) \/ JobStep(c)
        PROVE  api' = api
    BY <2>2 DEF CheckStep, Check, CheckNeverSynced, CheckUndelete, SoftDelete, Undelete,
                SubmitStep, Submit, JobStep, CreateDoc, WaitOk, OkJob, OkIdentity,
                WaitError, WaitTimeout, ErrJob, ErrIdentity
  <2>3. CASE BootStep
    BY <1>1, <1>2, <2>3 DEF BootStep, BootJob, BootIdentity
  <2> QED
    BY <1>1, <1>2, <2>1, <2>2, <2>3 DEF Next, BootSettles
<1>3. CASE api = "boot" /\ UNCHANGED <<rec, boot>>
  BY <1>3 DEF BootSettles
<1>4. ASSUME api = "boot", NEW k \in Job, BootJob(k)
      PROVE  BootSettles'
  <2>1. boot'.all = boot.all /\ boot'.left = boot.left \ {k}
    BY <1>4 DEF BootJob, TypeOK
  <2>2. ASSUME NEW j \in Job, j # k
        PROVE  rec'[j] = rec[j]
    BY <1>4, <2>2 DEF BootJob, WriteJob, TypeOK
  <2>3. rec'[k].stub = None => rec'[k].doc \in Settled \cup {None}
    <3>1. rec[k] \in Record
      BY DEF TypeOK
    <3> DEFINE which == Pick(k, JobState \ Settled)
    <3>2. WriteJob(k, which, "COMPLETED")
      BY <1>4 DEF BootJob
    <3>3. CASE which = "stub"
      BY <3>1, <3>2, <3>3, BackendJobsAssumption
      DEF WriteJob, TypeOK, Record, BackendJobsAssumption, JobState
    <3>4. CASE which = "doc"
      BY <3>1, <3>2, <3>4 DEF WriteJob, TypeOK, Record, Settled
    <3>5. CASE which = "none"
      <4>1. rec[k].doc \notin JobState \ Settled
        BY <3>5 DEF Pick
      <4> QED
        BY <3>1, <3>2, <3>5, <4>1 DEF WriteJob, TypeOK, Record
    <3> QED
      BY <3>3, <3>4, <3>5 DEF Pick
  <2> QED
    BY <1>4, <2>1, <2>2, <2>3 DEF BootSettles
<1>5. CASE api = "boot" /\ BootIdentity
  BY <1>5 DEF BootIdentity, BootSettles, TypeOK
<1>6. ASSUME api = "boot", NEW c \in Caller,
             CheckStep(c) \/ SubmitStep(c) \/ JobStep(c)
      PROVE  FALSE
  BY <1>6 DEF CallersAreUp, CheckStep, Check, CheckNeverSynced, CheckUndelete,
              SoftDelete, Undelete, SubmitStep, Submit, JobStep, CreateDoc, WaitOk,
              OkJob, OkIdentity, WaitError, WaitTimeout, ErrJob, ErrIdentity
<1>7. CASE api = "boot" /\ (ClientStep \/ ListenerStep)
  BY <1>7 DEF ClientStep, Request, SyncAll, LifecycleChanged, Edit, Validate, Ready,
              ListenerStep, ListenersAreUp
<1>8. CASE api = "boot" /\ DaemonStep
  BY <1>3, <1>8 DEF DaemonStep, DaemonStart, DaemonReturn, DaemonFail
<1> QED
  BY <1>1, <1>2, <1>4, <1>5, <1>6, <1>7, <1>8 DEF Next, BootStep

LEMMA CrashesCount ==
    ASSUME TypeOK, Next, crashes' = 0
    PROVE  crashes = 0 /\ ~Crash
<1>1. ~Crash
  BY DEF Crash, TypeOK
<1>2. CASE ClientStep \/ DaemonStep \/ ListenerStep \/ BootStep
  BY <1>2
  DEF ClientStep, Request, SyncAll, LifecycleChanged, Edit, Validate,
      DaemonStep, DaemonStart, DaemonReturn, DaemonFail, ListenerStep, OnActive,
      OnFailed, OnFailedIdentity, OnCompletedVoid, OnCompleted, OnCompletedIdentity,
      BootStep, Boot, BootJob, BootIdentity, BootAttach, Crash
<1>3. ASSUME NEW c \in Caller, CheckStep(c) \/ SubmitStep(c) \/ JobStep(c)
      PROVE  crashes' = crashes
  BY <1>3 DEF CheckStep, Check, CheckNeverSynced, CheckUndelete, SoftDelete, Undelete,
              SubmitStep, Submit, JobStep, CreateDoc, WaitOk, OkJob, OkIdentity,
              WaitError, WaitTimeout, ErrJob, ErrIdentity
<1> QED
  BY <1>1, <1>2, <1>3 DEF Next

LEMMA FirstLifeGoesOn ==
    ASSUME BackendJobsAssumption, IInv, FirstLife, Next
    PROVE  FirstLife'
<1> USE DEF IInv
<1> SUFFICES ASSUME crashes' = 0
             PROVE  /\ api' = "up"
                    /\ \A j \in Job : Recorded(j, "COMPLETED")' =>
                                        queue'[j] \in {"ok", "void"}
                    /\ SyncedIsSuccess'
  BY DEF FirstLife
<1>1. crashes = 0 /\ ~Crash
  BY CrashesCount
<1>2. crashes = 0 /\ api' = api
  <2>1. CASE ClientStep \/ DaemonStep \/ ListenerStep
    BY <1>1, <2>1
    DEF ClientStep, Request, SyncAll, LifecycleChanged, Edit, Validate,
        DaemonStep, DaemonStart, DaemonReturn, DaemonFail, ListenerStep, OnActive,
        OnFailed, OnFailedIdentity, OnCompletedVoid, OnCompleted, OnCompletedIdentity
  <2>2. ASSUME NEW c \in Caller, CheckStep(c) \/ SubmitStep(c) \/ JobStep(c)
        PROVE  UNCHANGED api
    BY <2>2 DEF CheckStep, Check, CheckNeverSynced, CheckUndelete, SoftDelete, Undelete,
                SubmitStep, Submit, JobStep, CreateDoc, WaitOk, OkJob, OkIdentity,
                WaitError, WaitTimeout, ErrJob, ErrIdentity
  <2>3. CASE BootStep
    BY <1>1, <2>3 DEF BootStep, Boot, BootJob, BootIdentity, BootAttach, FirstLife
  <2> QED
    BY <1>1, <2>1, <2>2, <2>3 DEF Next
<1>3. /\ api = "up"
      /\ \A j \in Job : Recorded(j, "COMPLETED") => queue[j] \in {"ok", "void"}
      /\ SyncedIsSuccess
  BY <1>2 DEF FirstLife
<1>4. ASSUME NEW j \in Job, queue[j] \in {"ok", "void"}
      PROVE  queue'[j] \in {"ok", "void"} /\ order'[j] = order[j]
  BY <1>4, Monotone DEF Returned, Returns
<1>5. ASSUME NEW j \in Job, Recorded(j, "COMPLETED")'
      PROVE  queue'[j] \in {"ok", "void"}
  <2>1. CASE rec'[j] = rec[j]
    BY <1>3, <1>4, <1>5, <2>1 DEF Recorded
  <2>2. ASSUME NEW which \in {"stub", "doc"}, NEW s \in JobState, Moved(j, which, s)
        PROVE  queue'[j] \in {"ok", "void"}
    <3>1. CASE s = "COMPLETED"
      BY <1>3, <1>4, <2>2, <3>1 DEF Moved
    <3>2. CASE s # "COMPLETED"
      BY <1>3, <1>4, <1>5, <2>2, <3>2 DEF Moved, Recorded, TypeOK, Record
    <3> QED
      BY <3>1, <3>2
  <2> QED
    BY <2>1, <2>2, RecordMoves
<1>6. ASSUME NEW i \in Identity \ Known,
             identity'[i].state = "SYNCED" \/ identity'[i].synced
      PROVE  About(i, {"ok", "void"}, Operations)'
  <2>1. PICK j \in Job : order[j].about = i /\ queue[j] \in {"ok", "void"}
    BY <1>3, <1>6, IdentityMoves DEF SyncedIsSuccess, About
  <2>2. queue'[j] \in {"ok", "void"} /\ order'[j] = order[j]
    BY <1>4, <2>1
  <2> QED
    BY <2>1, <2>2 DEF About, TypeOK, Order
<1> QED
  BY <1>2, <1>3, <1>5, <1>6 DEF SyncedIsSuccess

LEMMA DeletionMoves ==
    ASSUME BackendJobsAssumption, IInv, OrdersAreTheirs, Next, NEW i \in Identity,
           ~identity[i].deleted, identity'[i].deleted
    PROVE  \/ About(i, Returns, {"delete"})
           \/ \E c \in Caller : caller[c].pc = "softDelete" /\ caller[c].at = i
<1> USE DEF IInv
<1>1. ASSUME NEW k, NEW s, SetState(k, s) \/ SetSynced(k)
      PROVE  FALSE
  <2>1. CASE k = i
    BY <1>1, <2>1 DEF SetState, SetSynced, TypeOK, IdentityDoc
  <2>2. CASE k # i
    BY <1>1, <2>2 DEF SetState, SetSynced, TypeOK, IdentityDoc
  <2> QED
    BY <2>1, <2>2
<1>2. CASE identity' = identity
  BY <1>2
<1>3. CASE ClientStep
  BY <1>1, <1>2, <1>3
  DEF ClientStep, Request, SyncAll, LifecycleChanged, Edit, Validate
<1>4. ASSUME NEW c \in Caller, SoftDelete(c) \/ Undelete(c)
      PROVE  caller[c].pc = "softDelete" /\ caller[c].at = i
  <2>1. CASE caller[c].at = i
    BY <1>4, <2>1 DEF SoftDelete, Undelete, SetStateAndFlag, TypeOK, IdentityDoc
  <2>2. CASE caller[c].at # i
    BY <1>4, <2>2 DEF SoftDelete, Undelete, SetStateAndFlag, TypeOK, IdentityDoc
  <2> QED
    BY <2>1, <2>2
<1>5. ASSUME NEW k, NEW s, NEW d \in BOOLEAN, NEW y, WriteIdentity(k, s, d, y)
      PROVE  k = i /\ d
  BY <1>5 DEF WriteIdentity, TypeOK
<1>6. ASSUME NEW c \in Caller, OkIdentity(c)
      PROVE  About(i, Returns, {"delete"})
  <2>1. caller[c].at = i /\ caller[c].op = "delete"
    BY <1>5, <1>6 DEF OkIdentity
  <2>2. /\ caller[c].job \in Job /\ queue[caller[c].job] \in Returns
        /\ order[caller[c].job].about = caller[c].at
        /\ order[caller[c].job].op = caller[c].op
    BY <1>6 DEF OkIdentity, CallersHoldJobs, OrdersAreTheirs, Holding, Returns
  <2> QED
    BY <2>1, <2>2 DEF About
<1>7. ASSUME NEW a \in inbox, OnCompletedIdentity(a)
      PROVE  About(i, Returns, {"delete"})
  <2>1. a.job \in Job /\ queue[a.job] \in Returns
    BY <1>7 DEF OnCompletedIdentity, ListenersHoldJobs, Returned, TypeOK, Activation
  <2>2. order[a.job].about = i /\ order[a.job].op = "delete"
    BY <1>5, <1>7 DEF OnCompletedIdentity
  <2> QED
    BY <2>1, <2>2 DEF About
<1>8. ASSUME NEW c \in Caller, CheckStep(c) \/ SubmitStep(c) \/ JobStep(c)
      PROVE  \/ identity' = identity \/ SoftDelete(c) \/ Undelete(c) \/ OkIdentity(c)
             \/ \E s : SetState(caller[c].at, s)
  BY <1>8 DEF CheckStep, Check, CheckNeverSynced, CheckUndelete, SubmitStep, Submit,
              JobStep, CreateDoc, WaitOk, OkJob, WaitError, WaitTimeout, ErrJob,
              ErrIdentity
<1>9. CASE ListenerStep
  BY <1>1, <1>2, <1>7, <1>9
  DEF ListenerStep, OnActive, OnFailed, OnFailedIdentity, OnCompletedVoid, OnCompleted
<1>10. CASE DaemonStep \/ Crash \/ BootStep
  BY <1>1, <1>2, <1>10 DEF DaemonStep, DaemonStart, DaemonFail, DaemonReturn, Crash,
                           BootStep, Boot, BootJob, BootIdentity, BootAttach
<1> QED
  BY <1>1, <1>2, <1>3, <1>4, <1>6, <1>8, <1>9, <1>10 DEF Next

\* These four facts hold in every behaviour.
THEOREM LivesAreOrderly ==
    Spec => [](OrdersAreTheirs /\ CallersAreUp /\ BootSettles /\ FirstLife)
<1> DEFINE Lives == OrdersAreTheirs /\ CallersAreUp /\ BootSettles /\ FirstLife
<1>1. Init => Lives
  <2> SUFFICES ASSUME Init
               PROVE  Lives
    OBVIOUS
  <2>1. OrdersAreTheirs /\ CallersAreUp /\ BootSettles
    BY DEF Init, OrdersAreTheirs, CallersAreUp, BootSettles, IdleCaller, Holding
  <2>2. FirstLife
    BY BackendJobsAssumption
    DEF Init, FirstLife, SyncedIsSuccess, Recorded, BackendJobsAssumption, JobState
  <2> QED
    BY <2>1, <2>2
<1>2. IInv /\ Lives /\ [Next]_vars => Lives'
  <2> SUFFICES ASSUME IInv, Lives, [Next]_vars
               PROVE  Lives'
    OBVIOUS
  <2>1. CASE Next
    BY <2>1, BackendJobsAssumption, OrdersStayTheirs, CallersStayUp, BootKeepsSettling,
       FirstLifeGoesOn
  <2>2. CASE UNCHANGED vars
    BY <2>2 DEF vars, OrdersAreTheirs, CallersAreUp, BootSettles, FirstLife,
                SyncedIsSuccess, Recorded, About
  <2> QED
    BY <2>1, <2>2
<1> HIDE DEF Lives
<1>3. Spec => []Lives
  BY <1>1, <1>2, Inductive, PTL DEF Spec
<1> QED
  BY <1>3, PTL DEF Lives

\* An identity becomes deleted only when a deletion of it returned, or by a soft
\* deletion, whatever other requests, listeners and restarts do.
THEOREM DeletedAnswered == Spec => DeletedIsAnswered
<1>1. IInv /\ OrdersAreTheirs /\ [Next]_vars =>
        [\A i \in Identity :
           ~identity[i].deleted /\ identity'[i].deleted =>
             \/ About(i, Returns, {"delete"})
             \/ \E c \in Caller : caller[c].pc = "softDelete" /\ caller[c].at = i]_vars
  BY BackendJobsAssumption, DeletionMoves
<1> QED
  BY <1>1, Inductive, LivesAreOrderly, PTL DEF DeletedIsAnswered, Spec

\* When the API serves again, the reconciliation has settled every job that had
\* returned when it began, but for the jobs with two records.
THEOREM RestartsSettle == Spec => RestartSettles
<1>1. BootSettles /\ [Next]_vars =>
        [api = "boot" /\ api' = "up" =>
           \A j \in boot.all : rec[j].stub = None =>
                                 rec[j].doc \in Settled \cup {None}]_vars
  <2> SUFFICES ASSUME BootSettles, Next, api = "boot", api' = "up"
               PROVE  \A j \in boot.all : rec[j].stub = None =>
                                            rec[j].doc \in Settled \cup {None}
    OBVIOUS
  <2>1. CASE ClientStep \/ DaemonStep \/ ListenerStep \/ Crash
    BY <2>1
    DEF ClientStep, Request, SyncAll, LifecycleChanged, Edit, Validate,
        DaemonStep, DaemonStart, DaemonReturn, DaemonFail, ListenerStep, OnActive,
        OnFailed, OnFailedIdentity, OnCompletedVoid, OnCompleted, OnCompletedIdentity,
        Crash
  <2>2. ASSUME NEW c \in Caller, CheckStep(c) \/ SubmitStep(c) \/ JobStep(c)
        PROVE  api' = api
    BY <2>2 DEF CheckStep, Check, CheckNeverSynced, CheckUndelete, SoftDelete, Undelete,
                SubmitStep, Submit, JobStep, CreateDoc, WaitOk, OkJob, OkIdentity,
                WaitError, WaitTimeout, ErrJob, ErrIdentity
  <2>3. CASE BootStep
    BY <2>3 DEF BootStep, Boot, BootJob, BootIdentity, BootAttach, BootSettles
  <2> QED
    BY <2>1, <2>2, <2>3 DEF Next
<1> QED
  BY <1>1, LivesAreOrderly, PTL DEF RestartSettles, Spec

\* Until the API stops for the first time, no identity is SYNCED, or stamped,
\* by a job that reported an error.
THEOREM SyncedBySuccess == Spec => [](crashes = 0 => SyncedIsSuccess)
<1>1. FirstLife => (crashes = 0 => SyncedIsSuccess)
  BY DEF FirstLife
<1> QED
  BY <1>1, LivesAreOrderly, PTL

----------------------------------------------------------------------------
(* An API that only works asynchronously, before it stops for the first     *)
(* time, brings the identities in line with the jobs.                       *)

\* Clients ask for nothing that writes an identity's state on its own.
Undisturbed ==
    /\ AsyncModes \subseteq {TRUE}
    /\ Requests \cap {"undelete", "mutation", "edit", "validate"} = {}

\* Only submitted jobs are about an identity.
OrdersAreAbout ==
    \A j \in Job : IF queue[j] = "absent" THEN order[j].about = None
                   ELSE order[j].about \in Identity

\* What an activation in flight says of its job.
EventsTell ==
    \A a \in inbox : /\ a.event = "active" => a.step = "job"
                     /\ a.event = "failed" => queue[a.job] = "failed"
                     /\ a.event = "completed" /\ a.step = "identity" =>
                          queue[a.job] \in {"ok", "error"}

\* No request waits for its job.
CallersAreDetached ==
    \A c \in Caller :
      /\ caller[c].pc \in {"idle", "check", "softDelete", "run", "create"}
      /\ caller[c].pc # "idle" => caller[c].async /\ caller[c].op # "undelete"

OkIsCompleted ==
    \A a \in inbox : /\ a.event = "completed" /\ a.step = "identity"
                     /\ queue[a.job] = "ok"
                     => rec[a.job].doc = "COMPLETED"

Closed(j) == rec[j].doc \in Settled /\ rec[j].stub = None
Alone(j) == \A k \in Job \ {j} : order[k].about # order[j].about

Agrees(j) ==
    LET i         == identity[order[j].about]
        succeeded == rec[j].doc = "COMPLETED"
        isDelete  == order[j].op = "delete"
    IN  \/ i.state = "DONT_SYNC" /\ i.deleted
        \/ succeeded /\ ~isDelete /\ i.state = "SYNCED" /\ ~i.deleted /\ i.synced
        \/ ~succeeded /\ i.state = "ON_ERROR"

\* The second write of the listener that closed the document is still to come.
Telling(j) == \E a \in inbox : a.job = j /\ a.step = "identity"

ClosedIsTold == \A j \in Job : Closed(j) /\ Alone(j) => Agrees(j) \/ Telling(j)

\* A job that failed has failed for ever.
LEMMA FailedStays ==
    ASSUME BackendJobsAssumption, TypeOK, Next, NEW j \in Job, queue[j] = "failed"
    PROVE  queue'[j] = "failed"
<1>1. CASE ClientStep \/ ListenerStep \/ Crash \/ BootStep
  BY <1>1 DEF ClientStep, Request, SyncAll, LifecycleChanged, Edit, Validate,
              ListenerStep, OnActive, OnFailed, OnFailedIdentity, OnCompletedVoid,
              OnCompleted, OnCompletedIdentity, Crash, BootStep, Boot, BootJob,
              BootIdentity, BootAttach
<1>2. ASSUME NEW c \in Caller, CheckStep(c) \/ JobStep(c)
      PROVE  UNCHANGED queue
  BY <1>2 DEF CheckStep, Check, CheckNeverSynced, CheckUndelete, SoftDelete, Undelete,
              JobStep, CreateDoc, WaitOk, OkJob, OkIdentity, WaitError, WaitTimeout,
              ErrJob, ErrIdentity
<1>3. ASSUME NEW c \in Caller, SubmitStep(c)
      PROVE  queue'[j] = queue[j]
  BY <1>3 DEF SubmitStep, Submit, TypeOK
<1>4. CASE DaemonStep
  BY <1>4 DEF DaemonStep, DaemonStart, DaemonFail, DaemonReturn, TypeOK
<1> QED
  BY <1>1, <1>2, <1>3, <1>4 DEF Next

LEMMA OrdersStayAbout ==
    ASSUME BackendJobsAssumption, IInv, OrdersAreAbout, Next
    PROVE  OrdersAreAbout'
<1> USE DEF IInv
<1> SUFFICES ASSUME NEW j \in Job
             PROVE  IF queue'[j] = "absent" THEN order'[j].about = None
                    ELSE order'[j].about \in Identity
  BY DEF OrdersAreAbout
<1>1. CASE queue[j] # "absent"
  BY <1>1, Monotone DEF OrdersAreAbout
<1>2. CASE order'[j] = order[j] /\ queue'[j] = queue[j]
  BY <1>2 DEF OrdersAreAbout
<1>3. ASSUME NEW c \in Caller, NEW i \in Identity, NEW k \in Job, Submit(c, i, k)
      PROVE  IF queue'[j] = "absent" THEN order'[j].about = None
             ELSE order'[j].about \in Identity
  BY <1>2, <1>3 DEF Submit, TypeOK
<1>4. CASE ClientStep \/ ListenerStep \/ Crash \/ BootStep
  BY <1>2, <1>4
  DEF ClientStep, Request, SyncAll, LifecycleChanged, Edit, Validate,
      ListenerStep, OnActive, OnFailed, OnFailedIdentity, OnCompletedVoid,
      OnCompleted, OnCompletedIdentity, Crash, BootStep, Boot, BootJob,
      BootIdentity, BootAttach
<1>5. ASSUME NEW c \in Caller, CheckStep(c) \/ JobStep(c)
      PROVE  UNCHANGED <<queue, order>>
  BY <1>5 DEF CheckStep, Check, CheckNeverSynced, CheckUndelete, SoftDelete, Undelete,
              JobStep, CreateDoc, WaitOk, OkJob, OkIdentity, WaitError, WaitTimeout,
              ErrJob, ErrIdentity
<1>6. CASE DaemonStep /\ queue[j] = "absent"
  BY <1>2, <1>6 DEF DaemonStep, DaemonStart, DaemonFail, DaemonReturn, TypeOK
<1> QED
  BY <1>1, <1>2, <1>3, <1>4, <1>5, <1>6 DEF Next, SubmitStep

\* Where a new activation comes from.
LEMMA NewActivations ==
    ASSUME IInv, Next, NEW a \in inbox', a \notin inbox
    PROVE  \/ \E b \in inbox :
                /\ a = [b EXCEPT !.step = "identity"]
                /\ \/ OnFailed(b)
                   \/ OnCompleted(b) /\ Pick(b.job, JobState) = "doc"
           \/ a.step = "job" /\ a.event \in {"active", "completed"}
           \/ a.step = "job" /\ a.event = "failed" /\ queue'[a.job] = "failed"
<1> USE DEF IInv
<1>1. CASE DaemonStep
  BY <1>1 DEF DaemonStep, DaemonStart, DaemonFail, DaemonReturn, Publish, TypeOK
<1>2. ASSUME NEW b \in inbox, OnFailed(b)
      PROVE  a = [b EXCEPT !.step = "identity"]
  BY <1>2 DEF OnFailed, ThenIdentity
<1>3. ASSUME NEW b \in inbox, OnCompleted(b)
      PROVE  a = [b EXCEPT !.step = "identity"] /\ Pick(b.job, JobState) = "doc"
  BY <1>3 DEF OnCompleted, ThenIdentity
<1>4. CASE ListenerStep
  BY <1>2, <1>3, <1>4 DEF ListenerStep, OnActive, OnFailedIdentity, OnCompletedVoid,
                          OnCompletedIdentity, Done
<1>5. CASE ClientStep \/ Crash \/ BootStep
  BY <1>5 DEF ClientStep, Request, SyncAll, LifecycleChanged, Edit, Validate,
              Crash, BootStep, Boot, BootJob, BootIdentity, BootAttach
<1>6. ASSUME NEW c \in Caller, CheckStep(c) \/ SubmitStep(c) \/ JobStep(c)
      PROVE  inbox' \subseteq inbox
  BY <1>6 DEF CheckStep, Check, CheckNeverSynced, CheckUndelete, SoftDelete, Undelete,
              SubmitStep, Submit, JobStep, CreateDoc, WaitOk, OkJob, OkIdentity,
              WaitError, WaitTimeout, ErrJob, ErrIdentity
<1> QED
  BY <1>1, <1>4, <1>5, <1>6 DEF Next

LEMMA EventsKeepTelling ==
    ASSUME BackendJobsAssumption, IInv, EventsTell, Next
    PROVE  EventsTell'
<1> USE DEF IInv
<1> SUFFICES ASSUME NEW a \in inbox'
             PROVE  /\ a.event = "active" => a.step = "job"
                    /\ a.event = "failed" => queue'[a.job] = "failed"
                    /\ a.event = "completed" /\ a.step = "identity" =>
                         queue'[a.job] \in {"ok", "error"}
  BY DEF EventsTell
<1>1. ASSUME NEW b \in inbox
      PROVE  /\ b.job \in Job
             /\ b.event = "active" => b.step = "job"
             /\ b.event = "failed" => queue'[b.job] = "failed"
             /\ queue[b.job] \in {"ok", "error"} => queue'[b.job] \in {"ok", "error"}
             /\ b.event = "completed" /\ b.step = "identity" =>
                  queue[b.job] \in {"ok", "error"}
  <2>1. /\ b.job \in Job
        /\ b.event = "active" => b.step = "job"
        /\ b.event = "failed" => queue[b.job] = "failed"
        /\ b.event = "completed" /\ b.step = "identity" =>
             queue[b.job] \in {"ok", "error"}
    BY DEF EventsTell, TypeOK, Activation
  <2>2. queue[b.job] \in {"ok", "error"} => queue'[b.job] \in {"ok", "error"}
    BY <2>1, Monotone DEF Returned, Returns
  <2> QED
    BY <2>1, <2>2, FailedStays
<1>2. CASE a \in inbox
  BY <1>1, <1>2
<1>3. ASSUME NEW b \in inbox, a = [b EXCEPT !.step = "identity"], OnFailed(b)
      PROVE  a.event = "failed" /\ queue'[a.job] = "failed"
  BY <1>1, <1>3 DEF OnFailed, TypeOK, Activation
<1>4. ASSUME NEW b \in inbox, a = [b EXCEPT !.step = "identity"], OnCompleted(b)
      PROVE  a.event = "completed" /\ queue'[a.job] \in {"ok", "error"}
  <2>1. a.event = "completed" /\ a.job = b.job /\ b.event = "completed"
    BY <1>4 DEF OnCompleted, TypeOK, Activation
  <2>2. queue[b.job] \in {"ok", "error"}
    BY <1>4, <2>1 DEF OnCompleted, ListenersHoldJobs, Returned, Returns
  <2> QED
    BY <1>1, <2>1, <2>2
<1> QED
  BY <1>2, <1>3, <1>4, NewActivations

LEMMA CallersStayDetached ==
    ASSUME BackendJobsAssumption, Undisturbed, IInv, CallersAreDetached, Next
    PROVE  CallersAreDetached'
<1> USE DEF IInv
<1> SUFFICES ASSUME NEW c \in Caller
             PROVE  /\ caller'[c].pc \in {"idle", "check", "softDelete", "run", "create"}
                    /\ caller'[c].pc # "idle" =>
                         caller'[c].async /\ caller'[c].op # "undelete"
  BY DEF CallersAreDetached
<1> DEFINE Detached == /\ caller'[c].pc \in {"idle", "check", "softDelete", "run", "create"}
                       /\ caller'[c].pc # "idle" =>
                            caller'[c].async /\ caller'[c].op # "undelete"
<1>1. caller'[c] = caller[c] => Detached
  BY DEF CallersAreDetached
<1>2. ASSUME NEW d \in Caller, Answer(d)
      PROVE  Detached
  BY <1>1, <1>2 DEF Answer, IdleCaller, TypeOK
<1>3. ASSUME NEW d \in Caller, NEW op \in Requests, NEW async \in AsyncModes,
             NEW pc \in {"check", "run"}, NEW left, NEW todo,
             Accept(d, op, async, pc, left, todo)
      PROVE  Detached
  <2>1. async = TRUE /\ op # "undelete"
    BY DEF Undisturbed
  <2> QED
    BY <1>1, <1>3, <2>1 DEF Accept, IdleCaller, TypeOK
<1>4. CASE ClientStep
  <2>1. ASSUME NEW d \in Caller, NEW async \in AsyncModes, NEW i \in Identity,
               LifecycleChanged(d, async, i)
        PROVE  FALSE
    BY <2>1 DEF LifecycleChanged, Ready, Undisturbed
  <2>2. ASSUME NEW d \in Caller, NEW async \in AsyncModes, SyncAll(d, async)
        PROVE  Detached
    BY <1>3, <2>2 DEF SyncAll, Ready
  <2>3. ASSUME NEW d \in Caller, NEW op \in Requests, NEW async \in AsyncModes,
               NEW payload, Request(d, op, async, payload)
        PROVE  Detached
    BY <1>3, <2>3 DEF Request
  <2>4. ASSUME NEW i \in Identity, Edit(i) \/ Validate(i)
        PROVE  Detached
    BY <1>1, <2>4 DEF Edit, Validate
  <2> QED
    BY <1>4, <2>1, <2>2, <2>3, <2>4 DEF ClientStep
<1>5. ASSUME NEW d \in Caller, CheckStep(d)
      PROVE  Detached
  <2>1. ASSUME NEW i \in Identity, Check(d, i)
        PROVE  Detached
    BY <1>1, <1>2, <2>1 DEF Check, TypeOK, CallerState, CallersAreDetached
  <2>2. ASSUME NEW i \in Identity, CheckNeverSynced(d, i)
        PROVE  Detached
    BY <1>1, <2>2 DEF CheckNeverSynced, TypeOK, CallerState, CallersAreDetached
  <2>3. ASSUME NEW i \in Identity, CheckUndelete(d, i)
        PROVE  FALSE
    BY <2>3 DEF CheckUndelete, CallersAreDetached
  <2>4. ASSUME Undelete(d)
        PROVE  FALSE
    BY <2>4 DEF Undelete, CallersAreDetached
  <2> QED
    BY <1>2, <1>5, <2>1, <2>2, <2>3, <2>4 DEF CheckStep, SoftDelete
<1>6. ASSUME NEW d \in Caller, SubmitStep(d)
      PROVE  Detached
  BY <1>1, <1>6 DEF SubmitStep, Submit, TypeOK, CallerState, CallersAreDetached
<1>7. ASSUME NEW d \in Caller, JobStep(d)
      PROVE  Detached
  <2>1. CreateDoc(d)
    BY <1>7 DEF JobStep, WaitOk, OkJob, OkIdentity, WaitError, WaitTimeout, ErrJob,
                ErrIdentity, CallersAreDetached
  <2>2. caller[d].async /\ caller[d].op # "undelete"
    BY <2>1 DEF CreateDoc, CallersAreDetached
  <2>3. NextIdentity(d)
    BY <2>1, <2>2 DEF CreateDoc
  <2> QED
    BY <1>1, <1>2, <2>2, <2>3 DEF NextIdentity, TypeOK, CallerState
<1>8. CASE DaemonStep \/ ListenerStep \/ BootStep
  BY <1>1, <1>8 DEF DaemonStep, DaemonStart, DaemonReturn, DaemonFail,
              ListenerStep, OnActive, OnFailed, OnFailedIdentity, OnCompletedVoid,
              OnCompleted, OnCompletedIdentity,
              BootStep, Boot, BootJob, BootIdentity, BootAttach
<1>9. CASE Crash
  BY <1>9 DEF Crash, IdleCaller
<1> QED
  BY <1>4, <1>5, <1>6, <1>7, <1>8, <1>9 DEF Next

LEMMA OkStaysCompleted ==
    ASSUME BackendJobsAssumption, IInv, EventsTell, CallersAreDetached, OkIsCompleted,
           Next
    PROVE  OkIsCompleted'
<1> USE DEF IInv
<1> SUFFICES ASSUME NEW a \in inbox', a.event = "completed", a.step = "identity",
                    queue'[a.job] = "ok"
             PROVE  rec'[a.job].doc = "COMPLETED"
  BY DEF OkIsCompleted
<1>1. CASE a \in inbox
  <2>1. a.job \in Job /\ queue[a.job] \in {"ok", "error"}
    BY <1>1 DEF EventsTell, TypeOK, Activation
  <2>2. queue[a.job] = "ok"
    BY <2>1, Monotone DEF Returned, Returns
  <2>3. rec[a.job].doc = "COMPLETED"
    BY <1>1, <2>2 DEF OkIsCompleted
  <2>4. ASSUME NEW which \in {"stub", "doc"}, NEW s \in JobState, Moved(a.job, which, s)
        PROVE  rec'[a.job].doc = "COMPLETED"
    <3>1. \A c \in Caller : caller[c].pc # "errJob"
      BY DEF CallersAreDetached
    <3>2. rec[a.job] \in Record
      BY <2>1 DEF TypeOK
    <3> QED
      BY <2>3, <2>4, <3>1, <3>2 DEF Moved, Record
  <2> QED
    BY <2>1, <2>3, <2>4, RecordMoves
<1>2. ASSUME NEW b \in inbox, a = [b EXCEPT !.step = "identity"], OnCompleted(b),
             Pick(b.job, JobState) = "doc"
      PROVE  rec'[a.job].doc = "COMPLETED"
  <2>1. b \in Activation /\ a.job = b.job /\ b.job \in Job
    BY <1>2 DEF TypeOK, Activation
  <2>2. queue[b.job] = "ok"
    BY <1>2, <2>1 DEF OnCompleted
  <2>3. WriteJob(b.job, "doc", "COMPLETED")
    BY <1>2, <2>2 DEF OnCompleted
  <2> QED
    BY <2>1, <2>3 DEF WriteJob, TypeOK, Record
<1>3. ASSUME NEW b \in inbox, a = [b EXCEPT !.step = "identity"], OnFailed(b)
      PROVE  FALSE
  BY <1>3 DEF OnFailed, TypeOK, Activation
<1> QED
  BY <1>1, <1>2, <1>3, NewActivations

\* A step that leaves the identity and the document of a job alone, and takes no
\* activation that is still to tell, preserves what ClosedIsTold says of the job.
LEMMA ToldStays ==
    ASSUME BackendJobsAssumption, IInv, OrdersAreAbout, ClosedIsTold, Next,
           NEW j \in Job, Closed(j)', Alone(j)',
           rec'[j] = rec[j],
           identity'[order[j].about] = identity[order[j].about],
           \A a \in inbox : a.job = j /\ a.step = "identity" => a \in inbox'
    PROVE  Agrees(j)' \/ Telling(j)'
<1> USE DEF IInv
<1>1. Closed(j)
  BY DEF Closed
<1>2. queue[j] # "absent"
  BY <1>1, BackendJobsAssumption
  DEF RecordsHaveJobs, Closed, Settled, BackendJobsAssumption, JobState
<1>3. order'[j] = order[j] /\ order[j].about \in Identity
  BY <1>2, Monotone DEF OrdersAreAbout
<1>4. Alone(j)
  <2> SUFFICES ASSUME NEW k \in Job \ {j}, order[k].about = order[j].about
               PROVE  FALSE
    BY DEF Alone
  <2>1. queue[k] # "absent"
    BY <1>3, BackendJobsAssumption DEF OrdersAreAbout, BackendJobsAssumption
  <2>2. order'[k] = order[k]
    BY <2>1, Monotone
  <2> QED
    BY <1>3, <2>2 DEF Alone
<1>5. Agrees(j) \/ Telling(j)
  BY <1>1, <1>4 DEF ClosedIsTold
<1> QED
  BY <1>3, <1>5 DEF Agrees, Telling

LEMMA ClosedStaysTold ==
    ASSUME BackendJobsAssumption, Undisturbed, IInv, OrdersAreAbout, FirstLife,
           EventsTell, CallersAreDetached, OkIsCompleted, ClosedIsTold, Next,
           crashes' = 0
    PROVE  ClosedIsTold'
<1> USE DEF IInv
<1> SUFFICES ASSUME NEW j \in Job, Closed(j)', Alone(j)'
             PROVE  Agrees(j)' \/ Telling(j)'
  BY DEF ClosedIsTold
<1> DEFINE i == order[j].about
           Told == Agrees(j)' \/ Telling(j)'
           Keeps == \A a \in inbox : a.job = j /\ a.step = "identity" => a \in inbox'
<1>0. /\ rec'[j] = rec[j] /\ identity'[i] = identity[i] /\ Keeps => Told
  BY ToldStays
<1>00. queue[j] # "absent" /\ order'[j] = order[j] /\ i \in Identity
  <2>1. queue[j] # "absent"
    BY RecordMoves, BackendJobsAssumption
    DEF RecordsHaveJobs, Closed, Settled, BackendJobsAssumption, JobState
  <2> QED
    BY <2>1, Monotone DEF OrdersAreAbout
<1>1. CASE identity' = identity /\ rec' = rec /\ inbox \subseteq inbox'
  BY <1>0, <1>1
<1>2. CASE ClientStep
  <2>1. ASSUME NEW d \in Caller, NEW async \in AsyncModes, NEW k \in Identity,
               LifecycleChanged(d, async, k)
        PROVE  FALSE
    BY <2>1 DEF LifecycleChanged, Ready, Undisturbed
  <2>2. ASSUME NEW k \in Identity, Edit(k) \/ Validate(k)
        PROVE  FALSE
    BY <2>2 DEF Edit, Validate, Undisturbed
  <2> QED
    BY <1>1, <1>2, <2>1, <2>2 DEF ClientStep, Request, SyncAll
<1>3. ASSUME NEW c \in Caller, CheckStep(c)
      PROVE  Told
  <2>1. CASE SoftDelete(c)
    <3>1. CASE caller[c].at = i
      <4>1. identity'[i].state = "DONT_SYNC" /\ identity'[i].deleted
        BY <1>00, <2>1, <3>1 DEF SoftDelete, SetStateAndFlag, TypeOK, IdentityDoc
      <4> QED
        BY <1>00, <4>1 DEF Agrees
    <3>2. CASE caller[c].at # i
      <4>1. /\ rec' = rec /\ inbox' = inbox
            /\ identity'[i] = identity[i]
        BY <1>00, <2>1, <3>2 DEF SoftDelete, SetStateAndFlag, TypeOK
      <4> QED
        BY <1>0, <4>1
    <3> QED
      BY <3>1, <3>2
  <2>2. ASSUME Undelete(c)
        PROVE  FALSE
    BY <2>2 DEF Undelete, CallersAreDetached
  <2> QED
    BY <1>1, <1>3, <2>1, <2>2 DEF CheckStep, Check, CheckNeverSynced, CheckUndelete
<1>4. ASSUME NEW c \in Caller, SubmitStep(c)
      PROVE  Told
  BY <1>1, <1>4 DEF SubmitStep, Submit
<1>5. ASSUME NEW c \in Caller, JobStep(c)
      PROVE  Told
  <2>1. CreateDoc(c)
    BY <1>5 DEF JobStep, WaitOk, OkJob, OkIdentity, WaitError, WaitTimeout, ErrJob,
                ErrIdentity, CallersAreDetached
  <2>2. WriteJob(caller[c].job, "doc", "CREATED")
    BY <2>1 DEF CreateDoc, CallersAreDetached
  <2>3. caller[c].job # j
    BY <2>2 DEF WriteJob, TypeOK, Record, Closed, Settled
  <2>4. rec'[j] = rec[j] /\ identity' = identity /\ inbox' = inbox
    BY <2>1, <2>2, <2>3 DEF CreateDoc, WriteJob, TypeOK
  <2> QED
    BY <1>0, <2>4
<1>6. CASE DaemonStep
  <2>1. identity' = identity /\ rec' = rec /\ inbox \subseteq inbox'
    BY <1>6 DEF DaemonStep, DaemonStart, DaemonReturn, DaemonFail, Publish
  <2> QED
    BY <1>1, <2>1
<1>7. ASSUME NEW a \in inbox, a.step = "job",
             OnActive(a) \/ OnFailed(a) \/ OnCompletedVoid(a) \/ OnCompleted(a)
      PROVE  Told
  <2>1. identity' = identity /\ inbox \ {a} \subseteq inbox'
    BY <1>7 DEF OnActive, OnFailed, OnCompletedVoid, OnCompleted, Done, ThenIdentity
  <2>2. Keeps
    BY <1>7, <2>1
  <2>3. CASE rec'[j] = rec[j]
    BY <1>0, <2>1, <2>2, <2>3
  <2>4. ASSUME rec'[j] # rec[j]
        PROVE  a.job = j /\ Telling(j)'
    <3>1. ASSUME NEW k, NEW which, NEW s, WriteJob(k, which, s)
          PROVE  k = j /\ which # "none"
      BY <2>4, <3>1 DEF WriteJob, TypeOK
    <3>2. ASSUME NEW s, WriteJob(j, "stub", s)
          PROVE  s = None
      BY <3>2 DEF WriteJob, TypeOK, Record, Closed
    <3>3. CASE OnActive(a)
      <4>1. WriteJob(j, "doc", "IN_PROGRESS")
        BY <3>1, <3>2, <3>3, PickTypes, BackendJobsAssumption
        DEF OnActive, BackendJobsAssumption, JobState
      <4> QED
        BY <4>1 DEF WriteJob, TypeOK, Record, Closed, Settled
    <3>4. ASSUME NEW which, ThenIdentity(a, which), which = "doc", a.job = j
          PROVE  Telling(j)'
      <4>1. [a EXCEPT !.step = "identity"] \in inbox'
        BY <3>4 DEF ThenIdentity
      <4>2. /\ [a EXCEPT !.step = "identity"].job = j
            /\ [a EXCEPT !.step = "identity"].step = "identity"
        BY <3>4 DEF TypeOK, Activation
      <4> QED
        BY <4>1, <4>2 DEF Telling
    <3>5. CASE OnFailed(a)
      <4> DEFINE which == Pick(a.job, JobState \ {"COMPLETED"})
      <4>1. a.job = j /\ which # "none" /\ which # "stub"
        BY <3>1, <3>2, <3>5, BackendJobsAssumption
        DEF OnFailed, BackendJobsAssumption, JobState
      <4>2. ThenIdentity(a, which) /\ which = "doc"
        BY <3>5, <4>1, PickTypes DEF OnFailed
      <4> QED
        BY <3>4, <4>1, <4>2
    <3>6. CASE OnCompleted(a)
      <4> DEFINE found == Pick(a.job, JobState)
                 which == IF found = "none" THEN "stub" ELSE found
      <4>1. PICK s \in {"COMPLETED", "FAILED"} : WriteJob(a.job, which, s)
        BY <3>6 DEF OnCompleted
      <4>2. s # None
        BY BackendJobsAssumption DEF BackendJobsAssumption, JobState
      <4>3. a.job = j
        BY <3>1, <4>1
      <4>4. which # "stub"
        BY <3>2, <4>1, <4>2, <4>3
      <4>5. ThenIdentity(a, which) /\ which = "doc"
        BY <3>6, <4>4, PickTypes DEF OnCompleted
      <4> QED
        BY <3>4, <4>3, <4>5
    <3>7. CASE OnCompletedVoid(a)
      BY <2>4, <3>7 DEF OnCompletedVoid
    <3> QED
      BY <1>7, <3>3, <3>5, <3>6, <3>7
  <2> QED
    BY <2>3, <2>4
<1>8. ASSUME NEW a \in inbox, OnFailedIdentity(a) \/ OnCompletedIdentity(a)
      PROVE  Told
  <2>1. /\ a.job \in Job /\ a.step = "identity" /\ rec' = rec /\ order' = order
        /\ inbox' = inbox \ {a}
    BY <1>8 DEF OnFailedIdentity, OnCompletedIdentity, Done, TypeOK, Activation
  <2>2. CASE a.job # j
    <3>1. order[a.job].about # i
      BY <2>1, <2>2 DEF Alone
    <3>2. identity'[i] = identity[i]
      BY <1>00, <1>8, <3>1
      DEF OnFailedIdentity, OnCompletedIdentity, SetState, WriteIdentity, TypeOK
    <3> QED
      BY <1>0, <2>1, <2>2, <3>2
  <2>3. CASE a.job = j
    <3>1. i \in Identity
      BY <1>00
    <3>2. CASE OnFailedIdentity(a)
      <4>1. rec[j].doc # "COMPLETED"
        BY <2>3, <3>2
        DEF OnFailedIdentity, EventsTell, CompletedIsAnswered, Recorded, Returned,
            Returns
      <4>2. identity'[i].state = "ON_ERROR"
        BY <2>3, <3>1, <3>2 DEF OnFailedIdentity, SetState, TypeOK, IdentityDoc
      <4> QED
        BY <2>1, <4>1, <4>2 DEF Agrees
    <3>3. CASE OnCompletedIdentity(a) /\ queue[j] = "ok"
      <4>1. rec[j].doc = "COMPLETED"
        BY <2>3, <3>3 DEF OnCompletedIdentity, OkIsCompleted
      <4>2. /\ identity'[i].deleted = (order[j].op = "delete")
            /\ identity'[i].synced
            /\ identity'[i].state = IF order[j].op = "delete" THEN "DONT_SYNC"
                                    ELSE "SYNCED"
        BY <2>3, <3>1, <3>3 DEF OnCompletedIdentity, WriteIdentity, TypeOK
      <4>3. CASE order[j].op = "delete"
        <5>1. identity'[i].deleted /\ identity'[i].state = "DONT_SYNC"
          BY <4>2, <4>3
        <5> QED
          BY <1>00, <5>1 DEF Agrees
      <4>4. CASE order[j].op # "delete"
        <5>1. ~identity'[i].deleted /\ identity'[i].state = "SYNCED"
          BY <4>2, <4>4
        <5>2. rec'[j].doc = "COMPLETED"
          BY <2>1, <4>1
        <5> QED
          BY <1>00, <4>2, <4>4, <5>1, <5>2 DEF Agrees
      <4> QED
        BY <4>3, <4>4
    <3>4. CASE OnCompletedIdentity(a) /\ queue[j] # "ok"
      <4>1. queue[j] = "error"
        BY <2>3, <3>4 DEF OnCompletedIdentity, EventsTell
      <4>2. rec[j].doc # "COMPLETED"
        <5>1. crashes = 0
          BY <1>8 DEF OnCompletedIdentity, OnFailedIdentity
        <5> QED
          BY <4>1, <5>1 DEF FirstLife, Recorded
      <4>3. identity'[i].state = "ON_ERROR"
        BY <2>3, <3>1, <3>4 DEF OnCompletedIdentity, WriteIdentity, TypeOK
      <4> QED
        BY <2>1, <4>2, <4>3 DEF Agrees
    <3> QED
      BY <1>8, <3>2, <3>3, <3>4
  <2> QED
    BY <2>2, <2>3
<1>9. CASE ListenerStep
  <2>1. PICK a \in inbox : \/ OnActive(a)
                           \/ OnFailed(a) \/ OnFailedIdentity(a)
                           \/ OnCompletedVoid(a)
                           \/ OnCompleted(a) \/ OnCompletedIdentity(a)
    BY <1>9 DEF ListenerStep
  <2>2. OnActive(a) \/ OnFailed(a) \/ OnCompletedVoid(a) \/ OnCompleted(a) =>
          a.step = "job"
    BY DEF OnActive, OnFailed, OnCompletedVoid, OnCompleted, EventsTell, TypeOK,
           Activation
  <2> QED
    BY <1>7, <1>8, <2>1, <2>2
<1>10. CASE Crash \/ BootStep
  <2>1. ~Crash /\ crashes = 0
    BY CrashesCount
  <2> QED
    BY <1>10, <2>1
    DEF FirstLife, BootStep, Boot, BootJob, BootIdentity, BootAttach
<1> QED
  BY <1>2, <1>3, <1>4, <1>5, <1>6, <1>9, <1>10 DEF Next

\* While clients only detach jobs and the API has not stopped, an identity with
\* nothing in flight shows what the document of its only job says.
THEOREM QuietAgrees ==
    ASSUME Undisturbed
    PROVE  Spec => [](crashes = 0 => QuietIdentityAgrees)
<1> DEFINE Telling0 == OrdersAreAbout /\ EventsTell /\ CallersAreDetached
                        /\ OkIsCompleted /\ (crashes = 0 => ClosedIsTold)
<1>1. Init => Telling0
  BY BackendJobsAssumption
  DEF Init, OrdersAreAbout, EventsTell, CallersAreDetached, OkIsCompleted,
      ClosedIsTold, Closed, Settled, IdleCaller, BackendJobsAssumption, JobState
<1>2. IInv /\ FirstLife /\ Telling0 /\ [Next]_vars => Telling0'
  <2> SUFFICES ASSUME IInv, FirstLife, Telling0, [Next]_vars
               PROVE  Telling0'
    OBVIOUS
  <2>1. CASE Next
    <3>1. OrdersAreAbout' /\ EventsTell' /\ CallersAreDetached' /\ OkIsCompleted'
      BY <2>1, BackendJobsAssumption, Undisturbed, OrdersStayAbout, EventsKeepTelling,
         CallersStayDetached, OkStaysCompleted
    <3>2. crashes' = 0 => crashes = 0
      BY <2>1, CrashesCount DEF IInv
    <3>3. crashes' = 0 => ClosedIsTold'
      BY <2>1, <3>2, BackendJobsAssumption, Undisturbed, ClosedStaysTold
    <3> QED
      BY <3>1, <3>3
  <2>2. CASE UNCHANGED vars
    BY <2>2 DEF vars, OrdersAreAbout, EventsTell, CallersAreDetached, OkIsCompleted,
                ClosedIsTold, Closed, Alone, Agrees, Telling
  <2> QED
    BY <2>1, <2>2
<1>3. Telling0 /\ crashes = 0 => QuietIdentityAgrees
  BY DEF ClosedIsTold, Closed, Alone, Agrees, Telling, QuietIdentityAgrees, Busy
<1> HIDE DEF Telling0
<1>4. Spec => []Telling0
  BY <1>1, <1>2, Inductive, LivesAreOrderly, PTL DEF Spec
<1>5. Telling0 => (crashes = 0 => QuietIdentityAgrees)
  BY <1>3
<1> QED
  BY <1>4, <1>5, PTL

=============================================================================
