------------------------- MODULE Migrations_proofs -------------------------
(* No migration is left out, for every set of migrations and of commands    *)
(* and every mix of releases, failures and losses.                          *)
(*                                                                          *)
(* What the lock names is not enough to reason about: the value was in the  *)
(* collection, in the hands of a process that starts, or in a write that is *)
(* still to come. The invariant says of all of them what NothingSkipped     *)
(* says of the lock, and that a process which is executing migrations       *)
(* leaves none out below those it still has to execute.                     *)
EXTENDS Migrations, TLAPS

Known(v) == v \in Nat => v \in shipped \cup {0} /\ Covered(v)

(* All below an element of rest is in rest or executed.                     *)
Ahead(rest) ==
    \A t \in rest, m \in shipped :
      m < t /\ m \notin rest /\ (\A f \in forced : f < m) => m \in executed

Sound(p) ==
    /\ Known(read[p]) /\ Known(saved[p])
    /\ todo[p] \subseteq shipped /\ Ahead(todo[p])
    /\ \A w \in pending[p] : Known(w.stamp)

StoredKnown == Known(lock) /\ \A r \in recorded : Known(r)
ProcessesSound == \A p \in Process : Sound(p)

IInv == TypeOK /\ StoredKnown /\ ProcessesSound

(* Nothing that is known is lost when migrations are executed or forced.    *)
LEMMA KnownStays ==
    ASSUME shipped' = shipped, executed \subseteq executed', forced \subseteq forced'
    PROVE  /\ \A v : Known(v) => Known(v)'
           /\ \A S : Ahead(S) => Ahead(S)'
  BY DEF Known, Covered, Ahead

(* A new release only adds a migration that follows all the others.         *)
LEMMA ReleaseKeeps ==
    ASSUME MigrationsAssumption, shipped \subseteq Stamp, shipped' \in Installed,
           mix \in Mixes, UNCHANGED past
    PROVE  /\ shipped \subseteq shipped'
           /\ \A v : Known(v) => Known(v)'
           /\ \A S : S \subseteq shipped /\ Ahead(S) => Ahead(S)'
  <1>1. CASE shipped' = shipped
    BY <1>1 DEF Known, Covered, Ahead, past
  <1>2. CASE \E m \in mix.later : shipped' = shipped \cup {m} /\ \A k \in shipped : k < m
    <2> PICK m \in mix.later : shipped' = shipped \cup {m} /\ \A k \in shipped : k < m
      BY <1>2
    <2>1. m \in Nat \ {0} /\ shipped \subseteq Nat
      BY DEF MigrationsAssumption
    <2>2. \A v : Known(v) => Known(v)'
      BY <2>1 DEF Known, Covered, past
    <2>3. \A S : S \subseteq shipped /\ Ahead(S) => Ahead(S)'
      BY <2>1 DEF Ahead, past
    <2> QED BY <2>2, <2>3
  <1> QED BY <1>1, <1>2 DEF Installed

LEMMA InstalledStamps ==
    ASSUME shipped \subseteq Stamp, mix.later \subseteq Stamp
    PROVE  Installed \subseteq SUBSET Stamp
  BY DEF Installed

LEMMA ZeroKnown ==
    ASSUME MigrationsAssumption, shipped \subseteq Stamp
    PROVE  Known(0)
  BY DEF Known, Covered, MigrationsAssumption

LEMMA InitSound == MigrationsAssumption /\ Init => IInv
  <1> SUFFICES ASSUME MigrationsAssumption, Init PROVE IInv OBVIOUS
  <1>1. TypeOK
    BY DEF MigrationsAssumption, Init, TypeOK, Value, Process
  <1>2. Known(0)
    BY <1>1, ZeroKnown DEF TypeOK
  <1>3. StoredKnown
    BY DEF StoredKnown, Init, Known, MigrationsAssumption
  <1>4. ProcessesSound
    BY <1>2 DEF ProcessesSound, Sound, Init, Ahead
  <1> QED BY <1>1, <1>3, <1>4 DEF IInv

LEMMA TypeStep == MigrationsAssumption /\ TypeOK /\ [Next]_vars => TypeOK'
  <1> SUFFICES ASSUME MigrationsAssumption, TypeOK, [Next]_vars PROVE TypeOK' OBVIOUS
  <1> USE DEF MigrationsAssumption, TypeOK, known, past, local, Go
  <1>0. mix.later \subseteq Stamp /\ 0 \in Value /\ Torn \in Value
    BY DEF Value
  <1>1. ASSUME NEW p \in Process, Boot(p) PROVE TypeOK'
    <2>1. CASE ReadLock(p)
      <3>1. PICK v \in Value : read' = [read EXCEPT ![p] = v]
        BY <2>1 DEF ReadLock, Value
      <3> QED BY <2>1, <3>1 DEF ReadLock
    <2>2. CASE FindRecord(p)
      <3>1. LastRecord \subseteq Value
        BY <1>0 DEF LastRecord
      <3> QED BY <2>2, <3>1, <1>0 DEF FindRecord
    <2>3. CASE CreateLock(p)
      BY <2>3, <1>0 DEF CreateLock
    <2>4. CASE SyncRecord(p)
      BY <2>4 DEF SyncRecord
    <2>5. CASE LoadFiles(p)
      <3>1. Pending(read[p]) \subseteq Stamp
        BY DEF Pending
      <3> QED BY <2>5, <3>1, <1>0 DEF LoadFiles, Continue, Forget
    <2>6. CASE UpFails(p)
      BY <2>6, <1>0 DEF UpFails, Continue
    <2>7. ASSUME NEW m \in Stamp, Up(p, m) PROVE TypeOK'
      <3>1. [stamp |-> m, stage |-> "file"] \in Write
        BY DEF Write
      <3> QED BY <2>7, <3>1 DEF Up, Continue
    <2>8. ASSUME NEW m \in Stamp, WriteLock(p, m) PROVE TypeOK'
      <3>1. [[stamp |-> m, stage |-> "file"] EXCEPT !.stage = "record"] \in Write
        BY DEF Write
      <3> QED BY <2>8, <3>1 DEF WriteLock, Value
    <2>9. ASSUME NEW m \in Stamp, InsertRecord(p, m) PROVE TypeOK'
      BY <2>9 DEF InsertRecord, Value
    <2>10. CASE WriteFails(p)
      BY <2>10, <1>0 DEF WriteFails
    <2> QED BY <1>1, <2>1, <2>2, <2>3, <2>4, <2>5, <2>6, <2>7, <2>8, <2>9, <2>10 DEF Boot
  <1>2. ASSUME NEW p \in Command, Spawn(p) PROVE TypeOK'
    BY <1>2, <1>0 DEF Spawn, Spend, Process
  <1>3. ASSUME NEW p \in Command, Exit(p) PROVE TypeOK'
    BY <1>3, <1>0 DEF Exit, Cut, Leave, Forget, Process
  <1>4. ASSUME NEW p \in Command, NEW m \in Stamp, ForceRun(p, m) PROVE TypeOK'
    <2>1. [stamp |-> m, stage |-> "file"] \in Write
      BY DEF Write
    <2> QED BY <1>4, <2>1, <1>0 DEF ForceRun, Process
  <1>5. CASE LockLost
    BY <1>5 DEF LockLost, Spend
  <1>6. CASE Restart
    <2>1. shipped' \subseteq Stamp
      BY <1>6, <1>0, InstalledStamps DEF Restart
    <2> QED BY <1>6, <2>1, <1>0 DEF Restart, Spend, Cut, Leave, Forget, Process
  <1>7. CASE UNCHANGED vars
    BY <1>7 DEF vars
  <1> QED BY <1>1, <1>2, <1>3, <1>4, <1>5, <1>6, <1>7 DEF Next, Operate

(* A process that does not move keeps what is said of it.                   *)
LEMMA OthersStay ==
    ASSUME IInv, shipped' = shipped, executed \subseteq executed', forced \subseteq forced',
           NEW p \in Process,
           \A q \in Process \ {p} : /\ read'[q] = read[q] /\ saved'[q] = saved[q]
             /\ todo'[q] = todo[q] /\ pending'[q] = pending[q]
    PROVE  \A q \in Process \ {p} : Sound(q)'
  <1> TAKE q \in Process \ {p}
  <1>1. Sound(q)
    BY DEF IInv, ProcessesSound
  <1> QED BY <1>1, KnownStays DEF Sound

LEMMA StoredStays ==
    ASSUME IInv, shipped' = shipped, executed \subseteq executed', forced \subseteq forced',
           Known(lock') \/ lock' \in {lock, None, Torn},
           \A r \in recorded' : r \in recorded \/ Known(r), MigrationsAssumption
    PROVE  StoredKnown'
  <1>1. Known(lock')
    BY DEF IInv, StoredKnown, Known, MigrationsAssumption
  <1> QED BY <1>1, KnownStays DEF IInv, StoredKnown

LEMMA KnownStep == MigrationsAssumption /\ IInv /\ [Next]_vars => IInv'
  <1> SUFFICES ASSUME MigrationsAssumption, IInv, [Next]_vars
               PROVE  StoredKnown' /\ ProcessesSound'
    BY TypeStep DEF IInv
  <1>a. TypeOK /\ (\A p \in Process : Sound(p))
    BY DEF IInv, ProcessesSound
  <1>b. Known(0) /\ Known(Torn) /\ Known(None)
    BY <1>a, ZeroKnown DEF TypeOK, Known, MigrationsAssumption
  <1>c. \A r \in recorded : Known(r)
    BY DEF IInv, StoredKnown
  <1>d. Known(lock)
    BY DEF IInv, StoredKnown
  <1> USE DEF known, past, local, Go
  <1>1. ASSUME NEW p \in Process, Boot(p) PROVE StoredKnown' /\ ProcessesSound'
    <2>a. Sound(p) /\ read[p] \in Value
      BY <1>a DEF TypeOK
    <2>b. read \in [Process -> Value] /\ saved \in [Process -> Value]
          /\ todo \in [Process -> SUBSET Stamp]
          /\ pending \in [Process -> SUBSET Write]
      BY <1>a DEF TypeOK
    <2>1. CASE ReadLock(p)
      <3>1. StoredKnown'
        BY <2>1, StoredStays DEF ReadLock
      <3>2. Sound(p)'
        <4>1. PICK v : read' = [read EXCEPT ![p] = v] /\ Known(v)
          BY <2>1, <1>b, <1>d DEF ReadLock
        <4> QED BY <2>1, <4>1, <2>a, <2>b, KnownStays DEF ReadLock, Sound
      <3>3. \A q \in Process \ {p} : Sound(q)'
        BY <2>1, <2>b, OthersStay DEF ReadLock
      <3> QED BY <3>1, <3>2, <3>3 DEF ProcessesSound
    <2>2. CASE FindRecord(p)
      <3>1. StoredKnown'
        BY <2>2, StoredStays DEF FindRecord
      <3>2. \A last \in LastRecord : Known(last)
        BY <1>b, <1>c DEF LastRecord
      <3>3. Sound(p)'
        BY <2>2, <3>2, <2>a, <2>b, <1>b, KnownStays DEF FindRecord, Sound
      <3>4. \A q \in Process \ {p} : Sound(q)'
        BY <2>2, <2>b, OthersStay DEF FindRecord
      <3> QED BY <3>1, <3>3, <3>4 DEF ProcessesSound
    <2>3. CASE CreateLock(p)
      <3>1. StoredKnown'
        BY <2>3, <2>a, StoredStays DEF CreateLock, Sound
      <3>2. Sound(p)'
        BY <2>3, <2>a, <2>b, <1>b, KnownStays DEF CreateLock, Sound
      <3>3. \A q \in Process \ {p} : Sound(q)'
        BY <2>3, <2>b, OthersStay DEF CreateLock
      <3> QED BY <3>1, <3>2, <3>3 DEF ProcessesSound
    <2>4. CASE SyncRecord(p)
      <3>1. StoredKnown'
        BY <2>4, <2>a, StoredStays DEF SyncRecord, Sound
      <3>2. Sound(p)'
        BY <2>4, <2>a, <2>b, KnownStays DEF SyncRecord, Sound
      <3>3. \A q \in Process \ {p} : Sound(q)'
        BY <2>4, <2>b, OthersStay DEF SyncRecord
      <3> QED BY <3>1, <3>2, <3>3 DEF ProcessesSound
    <2>5. CASE LoadFiles(p)
      <3> DEFINE loaded == Pending(read[p])
      <3>1. StoredKnown'
        BY <2>5, StoredStays DEF LoadFiles
      <3>2. loaded \subseteq shipped
        BY DEF Pending
      <3>3. Ahead(loaded)
        <4> SUFFICES ASSUME NEW t \in loaded, NEW m \in shipped, m < t, m \notin loaded,
                            \A f \in forced : f < m
                     PROVE  m \in executed
          BY DEF Ahead
        <4>1. m \in Nat /\ t \in Nat /\ shipped \subseteq Nat
          BY <1>a, <3>2 DEF TypeOK, MigrationsAssumption
        <4>2. ~Later(m, read[p])
          <5> SUFFICES ASSUME Later(m, read[p]) PROVE FALSE OBVIOUS
          <5>1. PICK u \in shipped \cap mix.unusable : Later(u, read[p]) /\ ~(m < u)
            BY DEF Pending
          <5>2. t < u
            BY <5>1 DEF Pending
          <5> QED BY <5>1, <5>2, <4>1
        <4>3. read[p] \in Nat /\ m <= read[p]
          BY <4>1, <4>2, <2>a DEF Later, Value
        <4> QED BY <4>3, <2>a DEF Sound, Known, Covered
      <3>4. Sound(p)'
        <4>1. todo'[p] = loaded /\ read'[p] = 0 /\ saved'[p] = 0
          BY <2>5, <2>b DEF LoadFiles, Continue, Forget
        <4> QED BY <2>5, <4>1, <3>2, <3>3, <2>a, <1>b, KnownStays DEF LoadFiles, Sound
      <3>5. \A q \in Process \ {p} : Sound(q)'
        BY <2>5, <2>b, OthersStay DEF LoadFiles, Continue, Forget
      <3> QED BY <3>1, <3>4, <3>5 DEF ProcessesSound
    <2>6. CASE UpFails(p)
      <3>1. StoredKnown'
        BY <2>6, StoredStays DEF UpFails
      <3>2. Sound(p)'
        BY <2>6, <2>a, <2>b, <1>b, KnownStays DEF UpFails, Continue, Sound, Ahead
      <3>3. \A q \in Process \ {p} : Sound(q)'
        BY <2>6, <2>b, OthersStay DEF UpFails, Continue
      <3> QED BY <3>1, <3>2, <3>3 DEF ProcessesSound
    <2>7. ASSUME NEW m \in Stamp, Up(p, m) PROVE StoredKnown' /\ ProcessesSound'
      <3> USE <2>7
      <3>0. shipped' = shipped /\ executed \subseteq executed' /\ forced' = forced
        BY DEF Up
      <3>1. StoredKnown'
        BY <3>0, StoredStays DEF Up
      <3>2. Known(m)'
        <4>1. m \in shipped /\ m \in Nat /\ shipped \subseteq Nat
          BY <2>a, <1>a DEF Up, IsNext, Sound, TypeOK, MigrationsAssumption
        <4>2. ASSUME NEW k \in shipped, k <= m, \A f \in forced : f < k PROVE k \in executed'
          <5>1. CASE k = m
            BY <5>1 DEF Up
          <5>2. CASE k < m
            <6>1. k \notin todo[p]
              BY <5>2, <4>1 DEF Up, IsNext
            <6> QED BY <6>1, <5>2, <4>2, <2>a, <3>0 DEF Up, IsNext, Sound, Ahead
          <5> QED BY <5>1, <5>2, <4>1, <4>2
        <4> QED BY <4>1, <4>2, <3>0 DEF Known, Covered
      <3>3. PICK rest : rest = todo[p] \ {m}
        OBVIOUS
      <3>4. Sound(p)'
        <4>1. /\ todo'[p] = rest
              /\ read'[p] = read[p] /\ saved'[p] = saved[p]
              /\ pending'[p] = pending[p] \cup {[stamp |-> m, stage |-> "file"]}
          BY <2>b, <3>3 DEF Up, Continue
        <4>2. \A w \in pending'[p] : Known(w.stamp)'
          BY <4>1, <3>2, <2>a, <3>0, KnownStays DEF Sound
        <4>3. rest \subseteq shipped'
          BY <2>a, <3>0, <3>3 DEF Sound
        <4>4. Ahead(rest)'
          <5>1. m \in executed' /\ Ahead(todo[p])
            BY <2>a DEF Up, Sound
          <5> QED BY <5>1, <3>0, <3>3 DEF Ahead
        <4> QED BY <4>1, <4>2, <4>3, <4>4, <2>a, <3>0, KnownStays DEF Sound
      <3>5. \A q \in Process \ {p} : Sound(q)'
        BY <3>0, <2>b, OthersStay DEF Up, Continue
      <3> QED BY <3>1, <3>4, <3>5 DEF ProcessesSound
    <2>8. ASSUME NEW m \in Stamp, WriteLock(p, m) PROVE StoredKnown' /\ ProcessesSound'
      <3> USE <2>8
      <3>1. Known(m)
        BY <2>a DEF WriteLock, Sound
      <3>2. StoredKnown'
        BY <3>1, StoredStays DEF WriteLock
      <3>3. Sound(p)'
        BY <3>1, <2>a, <2>b, KnownStays DEF WriteLock, Sound
      <3>4. \A q \in Process \ {p} : Sound(q)'
        BY <2>b, OthersStay DEF WriteLock
      <3> QED BY <3>2, <3>3, <3>4 DEF ProcessesSound
    <2>9. ASSUME NEW m \in Stamp, InsertRecord(p, m) PROVE StoredKnown' /\ ProcessesSound'
      <3> USE <2>9
      <3>1. Known(m)
        BY <2>a DEF InsertRecord, Sound
      <3>2. StoredKnown'
        BY <3>1, StoredStays DEF InsertRecord
      <3>3. Sound(p)'
        BY <2>a, <2>b, KnownStays DEF InsertRecord, Sound
      <3>4. \A q \in Process \ {p} : Sound(q)'
        BY <2>b, OthersStay DEF InsertRecord
      <3> QED BY <3>2, <3>3, <3>4 DEF ProcessesSound
    <2>10. CASE WriteFails(p)
      <3>1. StoredKnown'
        BY <2>10, StoredStays DEF WriteFails
      <3>2. Sound(p)'
        BY <2>10, <2>a, <2>b, KnownStays DEF WriteFails, Sound
      <3>3. \A q \in Process \ {p} : Sound(q)'
        BY <2>10, <2>b, OthersStay DEF WriteFails
      <3> QED BY <3>1, <3>2, <3>3 DEF ProcessesSound
    <2> QED BY <1>1, <2>1, <2>2, <2>3, <2>4, <2>5, <2>6, <2>7, <2>8, <2>9, <2>10 DEF Boot
  <1>e. /\ read \in [Process -> Value] /\ saved \in [Process -> Value]
          /\ todo \in [Process -> SUBSET Stamp]
        /\ pending \in [Process -> SUBSET Write]
    BY <1>a DEF TypeOK
  <1>2. ASSUME NEW p \in Command, Spawn(p) PROVE StoredKnown' /\ ProcessesSound'
    <2>1. StoredKnown'
      BY <1>2, StoredStays DEF Spawn
    <2>2. p \in Process /\ Sound(p)
      BY <1>a DEF Process
    <2>3. Sound(p)'
      BY <1>2, <2>2, <1>b, <1>e, KnownStays DEF Spawn, Sound
    <2>4. \A q \in Process \ {p} : Sound(q)'
      BY <1>2, <2>2, <1>e, OthersStay DEF Spawn
    <2> QED BY <2>1, <2>3, <2>4 DEF ProcessesSound
  <1>3. ASSUME NEW p \in Command, Exit(p) PROVE StoredKnown' /\ ProcessesSound'
    <2>1. StoredKnown'
      BY <1>3, StoredStays DEF Exit, Cut
    <2>2. p \in Process
      BY DEF Process
    <2>3. Sound(p)'
      BY <1>3, <2>2, <1>b, <1>e, KnownStays DEF Exit, Leave, Forget, Sound, Ahead
    <2>4. \A q \in Process \ {p} : Sound(q)'
      BY <1>3, <2>2, <1>e, OthersStay DEF Exit, Leave, Forget
    <2> QED BY <2>1, <2>3, <2>4 DEF ProcessesSound
  <1>4. ASSUME NEW p \in Command, NEW m \in Stamp, ForceRun(p, m)
        PROVE  StoredKnown' /\ ProcessesSound'
    <2> USE <1>4
    <2>0. shipped' = shipped /\ executed \subseteq executed' /\ forced' = forced \cup {m}
      BY DEF ForceRun
    <2>1. StoredKnown'
      BY <2>0, StoredStays DEF ForceRun
    <2>2. p \in Process /\ Sound(p)
      BY <1>a DEF Process
    <2>3. Known(m)'
      <3>1. m \in shipped /\ shipped \subseteq Nat
        BY <1>a DEF ForceRun, TypeOK, MigrationsAssumption
      <3>2. ASSUME NEW k \in shipped, k <= m, \A f \in forced' : f < k PROVE FALSE
        BY <3>1, <3>2, <2>0
      <3> QED BY <3>1, <3>2, <2>0 DEF Known, Covered
    <2>4. Sound(p)'
      <3>1. /\ UNCHANGED local
            /\ pending'[p] = pending[p] \cup {[stamp |-> m, stage |-> "file"]}
        BY <2>2, <1>e DEF ForceRun
      <3>2. \A w \in pending'[p] : Known(w.stamp)'
        BY <3>1, <2>3, <2>2, <2>0, KnownStays DEF Sound
      <3> QED BY <3>1, <3>2, <2>0, <2>2, KnownStays DEF Sound
    <2>5. \A q \in Process \ {p} : Sound(q)'
      BY <2>0, <2>2, <1>e, OthersStay DEF ForceRun
    <2> QED BY <2>1, <2>4, <2>5 DEF ProcessesSound
  <1>5. CASE LockLost
    <2>1. StoredKnown'
      BY <1>5, StoredStays DEF LockLost
    <2>2. ASSUME NEW q \in Process PROVE Sound(q)'
      BY <1>5, <1>a, KnownStays DEF LockLost, Sound
    <2> QED BY <2>1, <2>2 DEF ProcessesSound
  <1>6. CASE Restart
    <2>0. /\ shipped \subseteq shipped'
          /\ \A v : Known(v) => Known(v)'
          /\ \A S : S \subseteq shipped /\ Ahead(S) => Ahead(S)'
      BY <1>6, <1>a, ReleaseKeeps DEF Restart, TypeOK
    <2>1. StoredKnown'
      BY <1>6, <2>0, <1>b, <1>c, <1>d DEF Restart, Cut, StoredKnown
    <2>2. ASSUME NEW q \in Process PROVE Sound(q)'
      <3>1. CASE q = Server
        BY <1>6, <3>1, <1>b, <1>e, <2>0 DEF Restart, Leave, Forget, Sound, Ahead
      <3>2. CASE q # Server
        <4>1. /\ read'[q] = read[q] /\ saved'[q] = saved[q]
             /\ todo'[q] = todo[q] /\ pending'[q] = pending[q] /\ Sound(q)
          BY <1>6, <3>2, <1>e, <1>a DEF Restart, Leave, Forget
        <4> QED BY <4>1, <2>0 DEF Sound
      <3> QED BY <3>1, <3>2
    <2> QED BY <2>1, <2>2 DEF ProcessesSound
  <1>7. CASE UNCHANGED vars
    <2>1. StoredKnown'
      BY <1>7, <1>c, <1>d, KnownStays DEF vars, StoredKnown
    <2>2. ASSUME NEW q \in Process PROVE Sound(q)'
      BY <1>7, <1>a, KnownStays DEF vars, Sound
    <2> QED BY <2>1, <2>2 DEF ProcessesSound
  <1> QED BY <1>1, <1>2, <1>3, <1>4, <1>5, <1>6, <1>7 DEF Next, Operate

(* No start, failure, crash or loss, and no command that starts at the same *)
(* time, makes the lock name a migration while an earlier one was left out  *)
(* (_executeMigrations, _writeMigrationLockFile).                           *)
THEOREM MigrationsInOrder == MigrationsAssumption /\ Spec => []NothingSkipped
  <1> SUFFICES ASSUME MigrationsAssumption PROVE Spec => []NothingSkipped OBVIOUS
  <1>1. Init => IInv
    BY InitSound
  <1>2. IInv /\ [Next]_vars => IInv'
    BY KnownStep
  <1>3. IInv => NothingSkipped
    BY DEF IInv, StoredKnown, Known, NothingSkipped
  <1> QED BY <1>1, <1>2, <1>3, PTL DEF Spec
=============================================================================
